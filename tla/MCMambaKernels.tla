--------------------------- MODULE MCMambaKernels ---------------------------
(* The two levels of the mamba kernels in one run: a behaviour is either of *)
(* MambaBatch or of MambaCopy.                                             *)
(*   MambaBatch: an attention group before two mamba groups, the first of  *)
(* them mixed, and one mamba group alone; block tables in order, and with  *)
(* one wild block.                                                         *)
(*   MambaCopy: words of two bytes, four lanes, two tiles.  The sizes leave *)
(* a tile empty or half full; every alignment of source and destination    *)
(* occurs, and tokens that are no whole number of words.                   *)
EXTENDS MambaBatch, MambaCopy

Tiled == [kind : {"tiled"}, from : 20 .. 21, to : 0 .. 1, size : {1, 3, 6}]
         \cup [kind : {"tiled"}, from : {21}, to : {1}, size : {16}]
         \cup [kind : {"tiled"}, from : {1}, to : {1}, size : {3}]
ShiftInPlace == [kind : {"shift"}, to : 0 .. 1, token : {1, 3, 4}, width : {3, 4}, bias : 1 .. 2, rows : {1}]
ByRow == [kind : {"rows"}, to : {0}, token : 1 .. 2, width : {3}, bias : 1 .. 2, rows : {1, 3, 5}]
Overlapping == [kind : {"batch"}, from : {3, 5, 20}, to : {2}, size : {5, 7}]
MCJobs == Tiled \cup ShiftInPlace \cup ByRow \cup Overlapping

MCStates ==
  ("gdn" :> <<[conv |-> TRUE, at |-> 0, width |-> 3, inner |-> 2, elem |-> 1],
              [conv |-> FALSE, at |-> 6, width |-> 0, inner |-> 2, elem |-> 2]>>)
  @@ ("ple" :> <<[conv |-> TRUE, at |-> 2, width |-> 3, inner |-> 1, elem |-> 2]>>)
Mixed == <<<<"attention">>, <<"gdn", "ple">>, <<"ple">>>>
Single == <<<<"gdn">>>>

MCTable == [r \in 1 .. 2 |-> [g \in 1 .. 3 |-> [c \in 1 .. 5 |-> ((r - 1) * 3 + g - 1) * 5 + c - 1]]]
Wild(b) == [MCTable EXCEPT ![1][2][2] = b, ![2][1][1] = b]

\* A token and two drafts; chunks, one of which comes two columns on.
MCSchedules ==
  [list |-> {<<1, 0>>, <<4, 0>>}, v1 |-> {<<3, 2>>}, v2 |-> {<<3, 2>>, <<4, 0>>}]

Config(gs, d, r, t) == [groups |-> gs, dimFirst |-> d, runner |-> r, table |-> t]
MCConfigs ==
  {Config(Mixed, FALSE, "list", MCTable), Config(Mixed, FALSE, "v1", Wild(-1)),
   Config(Single, TRUE, "list", MCTable), Config(Mixed, TRUE, "v2", Wild(30))}

-----------------------------------------------------------------------------

\* Which of the two this behaviour is of.
OfBatch == phase # "none"

\* What the module that is not meant keeps: lanes with nothing to do, that are
\* never done with it, and a batch that never begins.
NoCopy ==
  /\ job = None /\ plan = [l \in Lanes |-> <<>>] /\ memory = <<>>
  /\ done = [l \in Lanes |-> 1] /\ held = [l \in Lanes |-> Nothing]
NoBatch ==
  /\ groups = <<>> /\ dimFirst = FALSE /\ runner = "none" /\ table = <<>>
  /\ computed = Nobody /\ drafts = Nobody /\ queries = Nobody /\ column = Nobody
  /\ accepted = Nobody /\ left = {} /\ batch = <<>> /\ meta = <<>> /\ rows = <<>>
  /\ snapshot = <<>> /\ list = <<>> /\ copies = <<>>
  /\ phase = "none" /\ want = {} /\ due = Nobody

KernelsInit == (Init /\ NoCopy) \/ (LaneInit /\ NoBatch)

KernelsNext ==
  \/ OfBatch /\ Next /\ UNCHANGED laneVars
  \/ ~OfBatch /\ LaneNext /\ UNCHANGED vars

KernelsSpec == KernelsInit /\ [][KernelsNext]_<<vars, laneVars>>

=============================================================================
