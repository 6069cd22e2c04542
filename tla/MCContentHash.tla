--------------------------- MODULE MCContentHash ---------------------------
(* Instances of ContentHash: a group of two files, and a second group of one *)
(* of them and a stacked copy that holds the same bytes in two parts.        *)
EXTENDS ContentHash, TLC

CONSTANTS web, cli

HPasses == {web, cli}
HLone == {web}
HSame == Permutations(HPasses)
HModes == {"partial", "full"}
HFiles == {"a", "b"}
HFilePaths == {"pa", "pb"}
HCopies == HFiles \cup {"c", "s"}
HPaths == HFilePaths \cup {"p1", "p2"}
HPair == << <<"a", "b">> >>
HStacked == << <<"a", "b">>, <<"c", "s">> >>
HFileParts == ("a" :> <<"pa">> @@ "b" :> <<"pb">>)
HPartsOf == HFileParts @@ ("c" :> <<"pb">> @@ "s" :> <<"p1", "p2">>)
HFileSizes == [p \in HFilePaths |-> 3]
HSizeOf == HFileSizes @@ ("p1" :> 2 @@ "p2" :> 1)
\* Three files of three blocks, two of which only the middle tells apart; a short one.
HFileContents == ("pa" :> {<<0, 0, 0>>} @@ "pb" :> {<<0, 0, 0>>, <<0, 1, 0>>, <<0, 0>>})
HContents == HFileContents @@ ("p1" :> {<<0, 0>>} @@ "p2" :> {<<0>>})
=============================================================================
