---------------------------- MODULE MCReferences ----------------------------
(* Instances of References for TLC.                                        *)
EXTENDS References

Annotate(A, e, g, c) == [algs |-> A, export |-> e, again |-> g, crash |-> c]

MixedAnnotations ==
    {Annotate({"WRC"}, 5, 5, 0), Annotate({"WRC"}, 3, 3, 1),
     Annotate({"RLV1"}, 5, 5, 0), Annotate({"RLV1"}, 3, 3, 1),
     Annotate({"WRC", "RLV1"}, 3, 3, 0), Annotate({"WRC", "RLV1"}, 2, 2, 1),
     Annotate({"RLV2"}, 4, 4, 0), Annotate({"RLV2"}, 2, 2, 1),
     Annotate({"TL"}, 3, 2, 0), Annotate({"TL"}, 2, 0, 1),
     Annotate({"WRC", "TL"}, 2, 1, 0), Annotate({"WRC", "TL"}, 1, 0, 1)}
=============================================================================
