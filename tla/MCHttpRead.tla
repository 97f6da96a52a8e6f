----------------------------- MODULE MCHttpRead -----------------------------
(* A file of six bytes.  Batches of up to three ascending members of one or two *)
(* bytes, next to each other or with gaps, and some that a file which has become *)
(* shorter no longer holds; plain reads of every range, an empty one included.  *)
EXTENDS HttpRead

Members == [begin : 0 .. 6, size : 1 .. 2]

MCRequests ==
  { [members |-> s, batch |-> TRUE] :
      s \in {s \in UNION {[1 .. n -> Members] : n \in 1 .. 3} :
               \A k \in 2 .. Len(s) : s[k - 1].begin + s[k - 1].size <= s[k].begin} }
  \cup { [members |-> <<[begin |-> b, size |-> n]>>, batch |-> FALSE] : b \in 0 .. 5, n \in 1 .. 8 }
  \cup { [members |-> <<[begin |-> 3, size |-> 0]>>, batch |-> FALSE] }
=============================================================================
