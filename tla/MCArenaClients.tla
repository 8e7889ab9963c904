---------------------------- MODULE MCArenaClients ----------------------------
(***************************************************************************)
(* Three places for blocks of eleven bytes and more; an error list that    *)
(* grows at its second error and a pool with two strings in one bucket.    *)
(* The heap ends in the middle of the word, and one string is as long as a *)
(* request may be behind it: no block can hold it.                         *)
(***************************************************************************)
EXTENDS ArenaClients

CONSTANTS s1, s2, s3, long

MCStrings == {s1, s2, s3, long}
MCErrors == {[message |-> s1, path |-> NoPtr], [message |-> s3, path |-> s1],
             [message |-> s2, path |-> long]}
MCSizeOf == [s \in MCStrings |-> IF s = long THEN Word - HeapEnd - WordAlign
                                 ELSE IF s = s3 THEN 3 ELSE 2]
MCBucketOf == [s \in MCStrings |-> IF s \in {s3, long} THEN 1 ELSE 0]
MCHeap == {16, 48, 80}
MCAligns == {1, 4}
MCSizes == 1..16 \cup {MCSizeOf[long]}

ASSUME RequestsFit
=============================================================================
