------------------------------- MODULE MCRows -------------------------------
(* The two places that look rows up by token id, in one run: a behaviour is *)
(* either of PleTable or of DraftHead.                                      *)
(*   PleTable: five rows in one to four parts: a full last shard, a short   *)
(* one and an empty one; files with a shard missing, short, long or in      *)
(* excess.                                                                  *)
(*   DraftHead: six rows, one of them padding; the first group of the first *)
(* row has ties, zeros, scales that float16 rounds up, down or to nothing,  *)
(* and products that bfloat16 rounds.                                       *)
EXTENDS PleTable, DraftHead, TLC

Good == {[parts |-> 1, rows |-> 0 :> 5],
         [parts |-> 2, rows |-> (0 :> 3) @@ (1 :> 2)],
         [parts |-> 4, rows |-> (0 :> 2) @@ (1 :> 2) @@ (2 :> 1) @@ (3 :> 0)]}
Bad == {[parts |-> 2, rows |-> (0 :> 3)],
        [parts |-> 2, rows |-> (1 :> 2)],
        [parts |-> 2, rows |-> (0 :> 2) @@ (1 :> 3)],
        [parts |-> 2, rows |-> (0 :> 3) @@ (1 :> 3)],
        [parts |-> 2, rows |-> (0 :> 3) @@ (1 :> 2) @@ (2 :> 1)]}

MCTables == Good \cup Bad
MCIdLists == UNION {[1 .. n -> {-1, 0, 1, 3, 4, 5}] : n \in 0 .. 2}
             \cup [1 .. 4 -> {0, 2, 3, 4}]
             \cup {<<-1, 0, 4, 4>>, <<0, 1, 2, 3, 4>>, <<4, 3, 2, 1, 0, 0, 4>>, <<0, 1, 2, 5>>}

HeadWith(first) ==
  [v \in 0 .. 5 |-> IF v = 0 THEN first ELSE [c \in 1 .. 4 |-> ((v + c * c) % 7) - 3]]
MCWeights == {-6, -3, -1, 0, 1, 3, 6, 7}
MCHeads == {HeadWith(<<p, q, 1, -2>>) : p \in MCWeights, q \in MCWeights}
MCRankings == {<<>>, <<3>>, <<4, 2, 3>>, <<3, 1, 5, 2>>}
MCIdFiles == UNION {[1 .. n -> {-1, 0, 3, 4, 5}] : n \in 0 .. 3}

-----------------------------------------------------------------------------

\* Which of the two this behaviour is of.
OfTable == pc # "none"

RowsInit ==
  \/ /\ Init
     /\ weights = <<>> /\ recipe = "none" /\ setup = <<>> /\ packed = <<>> /\ file = <<>>
     /\ sel = <<>> /\ wk = <<>> /\ logits = <<>> /\ step = "none"
  \/ /\ DraftInit
     /\ files = <<>> /\ pc = "none" /\ wanted = <<>> /\ ids = <<>> /\ tasks = {}
     /\ task = <<>> /\ out = <<>>

RowsNext ==
  \/ OfTable /\ Next /\ UNCHANGED draftVars
  \/ ~OfTable /\ DraftNext /\ UNCHANGED vars

RowsSpec == RowsInit /\ [][RowsNext]_<<vars, draftVars>>

=============================================================================
