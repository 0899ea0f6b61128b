------------------------ MODULE FlowInterpreterProofs ------------------------
(***************************************************************************)
(* Theorems about FlowInterpreter for every graph that GraphAssumption     *)
(* lets through, any number of executors and any step budget.  That a      *)
(* committed step is never executed again rests on the keys: no two live   *)
(* frames are ever at the same row (IInv).  What a fork keeps apart, and   *)
(* that an abort stops all of it, rests on the tree of the live frames:    *)
(* whoever set an abort box rests in it, and frames that part ways do so   *)
(* at a fork (TInv).  That a completed run has left nothing out rests on   *)
(* what a result leads to: any set of positions that holds the walk and is *)
(* closed under what is committed holds all that is still owed (Covered),  *)
(* where a node is visited again by an edge to itself only (FInv), and a   *)
(* failure of the top chain leaves the row at the node it failed at, as a  *)
(* crash does (Touched).                                                   *)
(***************************************************************************)
EXTENDS FlowInterpreter, FiniteSetTheorems, WellFoundedInduction, TLAPS

FrameFields == {"at", "pc", "visits", "known", "replay", "res", "item", "last", "stopped", "aborted"}
RowFields == {"done", "res", "ran"}

IsSequence(f) == f \in Seq({f[i] : i \in DOMAIN f})

(* A frame's name ends in an item or in a branch, never in a visit.        *)
Named(f) == IsSequence(f) /\ (f # <<>> => f[Len(f)][1] # "visit")

Shapes ==
  /\ \A s \in DOMAIN rows : DOMAIN rows[s] = RowFields
  /\ \A f \in DOMAIN frames : DOMAIN frames[f] = FrameFields /\ Named(f)

(* A frame between the claim of its step and the commit of it.             *)
Busy(f) == f \in DOMAIN frames /\ frames[f].pc \in {"exec", "commit"}

(* Whoever executes a step is at a row that is not committed.              *)
Uncommitted == \A f \in DOMAIN frames :
  Busy(f) => StepOf(f) \in DOMAIN rows /\ ~rows[StepOf(f)].done

IInv == Shapes /\ Uncommitted

(* What every routing does to the frames: f is not inside a step after it, *)
(* and whoever else is was so before.                                      *)
LeavesOnly(f) == \A g \in DOMAIN frames' :
  /\ DOMAIN frames'[g] = FrameFields /\ Named(g)
  /\ Busy(g)' => g # f /\ Busy(g) /\ frames'[g] = frames[g]

-----------------------------------------------------------------------------
(* Names and keys                                                          *)

LEMMA Longer ==
  ASSUME NEW f, IsSequence(f), NEW x
  PROVE  /\ Append(f, x) \in Seq({f[i] : i \in DOMAIN f} \cup {x})
         /\ Len(f) \in Nat /\ Len(Append(f, x)) = Len(f) + 1
         /\ DOMAIN f = 1..Len(f) /\ DOMAIN Append(f, x) = 1..(Len(f) + 1)
         /\ Append(f, x)[Len(f) + 1] = x
         /\ \A i \in 1..Len(f) : Append(f, x)[i] = f[i]
<1> DEFINE S == {f[i] : i \in DOMAIN f} \cup {x}
<1>1. f \in Seq(S) /\ x \in S
  BY DEF IsSequence
<1> HIDE DEF S
<1> QED BY <1>1

LEMMA AppendIsSequence ==
  ASSUME NEW f, IsSequence(f), NEW x PROVE IsSequence(Append(f, x))
<1> DEFINE g == Append(f, x)
<1>1. {f[i] : i \in DOMAIN f} \cup {x} = {g[i] : i \in DOMAIN g}
  <2>1. /\ Len(f) \in Nat /\ DOMAIN f = 1..Len(f) /\ DOMAIN g = 1..(Len(f) + 1)
        /\ g[Len(f) + 1] = x /\ \A i \in 1..Len(f) : g[i] = f[i]
    BY Longer
  <2> HIDE DEF g
  <2> QED BY <2>1
<1> QED BY <1>1, Longer DEF IsSequence

(* Two frames are never at one row: the key of a visit gives the name of   *)
(* the frame back.                                                         *)
LEMMA VisitKeysDiffer ==
  ASSUME NEW f, Named(f), NEW g, Named(g), NEW v, NEW w, VisitKey(f, v) = VisitKey(g, w)
  PROVE  f = g
<1> DEFINE x == <<"visit", v>>  y == <<"visit", w>>
<1>0. x[1] = "visit" /\ y[1] = "visit"
  OBVIOUS
<1>1. IsSequence(f) /\ IsSequence(g)
  BY DEF Named
<1> HIDE DEF x, y
<1>2. Append(f, x) # g
  <2> SUFFICES ASSUME Append(f, x) = g PROVE FALSE
    OBVIOUS
  <2>1. Len(g) = Len(f) + 1 /\ g[Len(g)] = x /\ g # <<>>
    BY <1>1, Longer
  <2> QED BY <1>0, <2>1 DEF Named
<1>3. Append(g, y) # f
  <2> SUFFICES ASSUME Append(g, y) = f PROVE FALSE
    OBVIOUS
  <2>1. Len(f) = Len(g) + 1 /\ f[Len(f)] = y /\ f # <<>>
    BY <1>1, Longer
  <2> QED BY <1>0, <2>1 DEF Named
<1>4. ASSUME Append(f, x) = Append(g, y) PROVE f = g
  <2>1. /\ Len(f) = Len(g) /\ Len(f) \in Nat
        /\ \A i \in 1..Len(f) : f[i] = g[i]
    BY <1>1, <1>4, Longer
  <2>2. /\ f \in Seq({f[i] : i \in DOMAIN f} \cup {g[i] : i \in DOMAIN g})
        /\ g \in Seq({f[i] : i \in DOMAIN f} \cup {g[i] : i \in DOMAIN g})
    BY <1>1 DEF IsSequence
  <2> QED BY <2>1, <2>2
<1> QED BY <1>2, <1>3, <1>4 DEF VisitKey, x, y

LEMMA StepsDiffer ==
  ASSUME NEW f, Named(f), NEW g, Named(g), f # g PROVE StepOf(f) # StepOf(g)
  BY VisitKeysDiffer DEF StepOf

-----------------------------------------------------------------------------
(* Frames                                                                  *)

LEMMA FreshFrame ==
  ASSUME NEW n, NEW known PROVE DOMAIN Frame(n, known) = FrameFields /\ Frame(n, known).pc = "enter"
  BY DEF Frame, FrameFields

LEMMA EmptyName == Named(<<>>)
<1>1. <<>> \in Seq({<<>>[i] : i \in DOMAIN <<>>})
  OBVIOUS
<1> QED BY <1>1 DEF Named, IsSequence

LEMMA LongerName ==
  ASSUME NEW f, Named(f), NEW tag \in {"item", "fork"}, NEW x PROVE Named(Append(f, <<tag, x>>))
<1> DEFINE p == <<tag, x>>
<1>1. IsSequence(f)
  BY DEF Named
<1>2. p[1] # "visit"
  OBVIOUS
<1> HIDE DEF p
<1>3. IsSequence(Append(f, p)) /\ Append(f, p)[Len(Append(f, p))] = p
  BY <1>1, AppendIsSequence, Longer
<1>4. Named(Append(f, p))
  BY <1>2, <1>3 DEF Named
<1> QED BY <1>4 DEF p

(* A frame that moves to where it is not inside a step.                    *)
LEMMA Moves ==
  ASSUME Shapes, NEW f \in DOMAIN frames, NEW c, DOMAIN c = FrameFields, c.pc \notin {"exec", "commit"},
         SetFrame(f, c)
  PROVE  LeavesOnly(f)
<1>1. DOMAIN frames' = DOMAIN frames /\ frames'[f] = c /\ \A g \in DOMAIN frames \ {f} : frames'[g] = frames[g]
  BY DEF SetFrame
<1> QED BY <1>1 DEF LeavesOnly, Shapes, Busy

LEMMA NobodyLeft == ASSUME NEW f, frames' = <<>> PROVE LeavesOnly(f)
  BY DEF LeavesOnly, Busy

(* What Greatest chooses is there.                                         *)
LEMMA GreatestIsOne ==
  ASSUME NEW n \in Nat, NEW S, S \subseteq 1..n, S # {}
  PROVE  Greatest(S) \in S
<1> DEFINE T == {n - i : i \in S}
<1>1. T \subseteq Nat /\ T # {}
  <2>1. \A i \in S : n - i \in Nat
    OBVIOUS
  <2>2. T # {}
    OBVIOUS
  <2> QED BY <2>1, <2>2
<1>2. PICK m \in T : \A y \in T : ~(<<y, m>> \in OpToRel(<, Nat))
  BY <1>1, NatLessThanWellFounded, WFMin
<1>3. \A y \in T : ~(y < m)
  BY <1>1, <1>2 DEF OpToRel
<1>4. PICK i \in S : m = n - i
  BY <1>2
<1>5. \A j \in S : i >= j
  BY <1>3, <1>4
<1> QED BY <1>4, <1>5 DEF Greatest

(* The branch an abort unwinds to is f, or f is below it.                  *)
LEMMA BranchHolds ==
  ASSUME NEW f, Named(f), ForkParts(f) # {}
  PROVE  LET b == SubSeq(f, 1, Greatest(ForkParts(f))) IN b = f \/ Prefix(b, f)
<1> DEFINE S == {f[i] : i \in DOMAIN f}  k == Greatest(ForkParts(f))  b == SubSeq(f, 1, k)
<1>1. f \in Seq(S)
  BY DEF Named, IsSequence
<1> HIDE DEF S
<1>2. ForkParts(f) \subseteq 1..Len(f) /\ Len(f) \in Nat
  BY <1>1 DEF ForkParts
<1>3. k \in 1..Len(f)
  BY <1>2, GreatestIsOne
<1> HIDE DEF k
<1>4. Len(b) = k
  BY <1>1, <1>3
<1>5. Prefix(b, f)
  BY <1>2, <1>3, <1>4 DEF Prefix
<1> QED BY <1>5 DEF k

(* The frames below the branch are gone, the branch rests.                 *)
LEMMA AbortLeaves ==
  ASSUME Shapes, NEW f \in DOMAIN frames, Abort(f) PROVE LeavesOnly(f)
<1>1. CASE ForkParts(f) = {}
  BY <1>1, NobodyLeft DEF Abort, Finish
<1>2. CASE ForkParts(f) # {}
  <2> DEFINE b == SubSeq(f, 1, Greatest(ForkParts(f)))
             w == Without(Under(b))
  <2>1. b = f \/ f \in Under(b)
    BY <1>2, BranchHolds DEF Under, Shapes
  <2>2. frames' = [w EXCEPT ![b].pc = "ret", ![b].aborted = TRUE]
    BY <1>2 DEF Abort
  <2>3. DOMAIN w = DOMAIN frames \ Under(b) /\ \A g \in DOMAIN w : w[g] = frames[g]
    BY DEF Without
  <2> HIDE DEF b, w
  <2>4. /\ DOMAIN frames' = DOMAIN w
        /\ \A g \in DOMAIN w \ {b} : frames'[g] = frames[g]
        /\ b \in DOMAIN w => frames'[b] = [frames[b] EXCEPT !.pc = "ret", !.aborted = TRUE]
    BY <2>2, <2>3
  <2>5. b \in DOMAIN w => DOMAIN frames'[b] = FrameFields /\ frames'[b].pc = "ret"
    BY <2>3, <2>4 DEF Shapes, FrameFields
  <2> QED BY <2>1, <2>3, <2>4, <2>5 DEF LeavesOnly, Shapes, Busy
<1> QED BY <1>1, <1>2

(* Turning to an item adds the frame of its body.                          *)
LEMMA NextItemLeaves ==
  ASSUME NEW fr, NEW f \in DOMAIN fr, NEW c, DOMAIN c = FrameFields, NEW i,
         \A g \in DOMAIN fr : Named(g) /\ DOMAIN fr[g] = FrameFields
                             /\ (g # f => g \in DOMAIN frames /\ fr[g] = frames[g]),
         frames' = NextItem(fr, f, c, i)
  PROVE  LeavesOnly(f)
<1> DEFINE n == c.at
           b == Append(f, <<"item", Items[n][i]>>)
           new == Frame(Edges[n]["body"], c.known)
           out == [c EXCEPT !.at = Next_(n, "after"), !.pc = "enter"]
           stay == [c EXCEPT !.pc = "items", !.item = i]
<1>1. /\ DOMAIN out = FrameFields /\ out.pc = "enter"
      /\ DOMAIN stay = FrameFields /\ stay.pc = "items"
  BY DEF FrameFields
<1>2. DOMAIN new = FrameFields /\ new.pc = "enter" /\ Named(b)
  BY FreshFrame, LongerName
<1>3. \/ frames' = [fr EXCEPT ![f] = out]
      \/ frames' = Put([fr EXCEPT ![f] = stay], b, new)
  BY DEF NextItem
<1> HIDE DEF b, new, out, stay
<1>4. CASE frames' = [fr EXCEPT ![f] = out]
  <2>1. DOMAIN frames' = DOMAIN fr /\ frames'[f] = out /\ \A g \in DOMAIN fr \ {f} : frames'[g] = fr[g]
    BY <1>4
  <2> QED BY <1>1, <2>1 DEF LeavesOnly, Busy
<1>5. CASE frames' = Put([fr EXCEPT ![f] = stay], b, new)
  <2>1. /\ DOMAIN frames' = DOMAIN fr \cup {b}
        /\ frames'[b] = new
        /\ f # b => frames'[f] = stay
        /\ \A g \in DOMAIN fr \ {f, b} : frames'[g] = fr[g]
    BY <1>5 DEF Put
  <2> QED BY <1>1, <1>2, <2>1 DEF LeavesOnly, Busy
<1> QED BY <1>3, <1>4, <1>5

LEMMA BranchesLeave ==
  ASSUME Shapes, NEW f \in DOMAIN frames, NEW c, DOMAIN c = FrameFields, StartBranches(f, c)
  PROVE  LeavesOnly(f)
<1> DEFINE B == {Branch(f, l) : l \in DOMAIN Edges[c.at]}
           stay == [c EXCEPT !.pc = "branches"]
           New(g) == Frame(Edges[c.at][g[Len(g)][2]], c.known)
<1>1. \A g \in B : Named(g)
  BY LongerName DEF Branch, Shapes
<1>2. DOMAIN stay = FrameFields /\ stay.pc = "branches"
  BY DEF FrameFields
<1>3. \A g : DOMAIN New(g) = FrameFields /\ New(g).pc = "enter"
  BY FreshFrame
<1>4. /\ DOMAIN frames' = DOMAIN frames \cup B
      /\ \A g \in DOMAIN frames' :
           frames'[g] = IF g = f THEN stay ELSE IF g \in DOMAIN frames THEN frames[g] ELSE New(g)
  BY DEF StartBranches
<1> HIDE DEF B, stay, New
<1> QED BY <1>1, <1>2, <1>3, <1>4 DEF LeavesOnly, Shapes, Busy

(* Whatever a step has returned, its frame is not inside it any more.      *)
LEMMA RouteLeaves ==
  ASSUME Shapes, NEW f \in DOMAIN frames, NEW res, Route(f, res) PROVE LeavesOnly(f)
<1> DEFINE n == frames[f].at
           c == [frames[f] EXCEPT !.known = @ \cup {n}, !.last = TRUE, !.res = "next", !.replay = FALSE]
<1>1. DOMAIN c = FrameFields
  BY DEF Shapes
<1>2. \/ Abort(f) \/ StartBranches(f, c) \/ frames' = NextItem(frames, f, c, 1)
      \/ Onward(f, c, Stop[n].target) \/ Onward(f, c, Next_(n, res)) \/ frames' = <<>>
  BY DEF Route, Fail
<1> HIDE DEF c, n
<1>3. CASE frames' = NextItem(frames, f, c, 1)
  <2>1. \A g \in DOMAIN frames : Named(g) /\ DOMAIN frames[g] = FrameFields
    BY DEF Shapes
  <2> QED BY <1>1, <1>3, <2>1, NextItemLeaves
<1>4. ASSUME NEW t, Onward(f, c, t) PROVE LeavesOnly(f)
  <2> DEFINE d == [c EXCEPT !.at = t, !.pc = "enter"]
  <2>1. DOMAIN d = FrameFields /\ d.pc = "enter"
    BY <1>1 DEF FrameFields
  <2>2. SetFrame(f, d)
    BY <1>4 DEF Onward
  <2> HIDE DEF d
  <2> QED BY <2>1, <2>2, Moves
<1>5. CASE frames' = <<>>
  BY <1>5 DEF LeavesOnly
<1> QED BY <1>1, <1>2, <1>3, <1>4, <1>5, AbortLeaves, BranchesLeave

-----------------------------------------------------------------------------
(* The invariant                                                           *)

(* What one frame's step may do to the rows: its own, and no committed one.*)
RowsKept(f) ==
  /\ \A s \in DOMAIN rows : s \in DOMAIN rows' /\ (s # StepOf(f) => rows'[s] = rows[s])
  /\ \A s \in DOMAIN rows' : DOMAIN rows'[s] = RowFields

CommittedKept == \A s \in DOMAIN rows : rows[s].done => rows'[s] = rows[s]

LEMMA Others ==
  ASSUME IInv, NEW f \in DOMAIN frames, RowsKept(f), NEW g \in DOMAIN frames, g # f, Busy(g),
         frames'[g] = frames[g]
  PROVE  StepOf(g)' \in DOMAIN rows' /\ ~rows'[StepOf(g)'].done
<1>1. StepOf(g)' = StepOf(g)
  BY DEF StepOf
<1>2. StepOf(g) # StepOf(f)
  BY StepsDiffer DEF IInv, Shapes
<1>3. StepOf(g) \in DOMAIN rows /\ ~rows[StepOf(g)].done
  BY DEF IInv, Uncommitted
<1> QED BY <1>1, <1>2, <1>3 DEF RowsKept

LEMMA Leaving ==
  ASSUME IInv, NEW f \in DOMAIN frames, LeavesOnly(f), RowsKept(f) PROVE IInv'
<1>1. Shapes'
  BY DEF Shapes, LeavesOnly, RowsKept
<1>2. Uncommitted'
  <2> SUFFICES ASSUME NEW g \in DOMAIN frames', Busy(g)'
               PROVE  StepOf(g)' \in DOMAIN rows' /\ ~rows'[StepOf(g)'].done
    BY DEF Uncommitted
  <2>1. g # f /\ Busy(g) /\ frames'[g] = frames[g]
    BY DEF LeavesOnly
  <2>2. g \in DOMAIN frames
    BY <2>1 DEF Busy
  <2> QED BY <2>1, <2>2, Others
<1> QED BY <1>1, <1>2 DEF IInv

(* A frame that stays at its step, which is not committed.                 *)
LEMMA Staying ==
  ASSUME IInv, NEW f \in DOMAIN frames, NEW c, DOMAIN c = FrameFields, SetFrame(f, c), RowsKept(f),
         c.at = frames[f].at, c.visits = frames[f].visits,
         StepOf(f) \in DOMAIN rows', ~rows'[StepOf(f)].done
  PROVE  IInv'
<1>1. /\ DOMAIN frames' = DOMAIN frames /\ frames'[f] = c
      /\ \A g \in DOMAIN frames \ {f} : frames'[g] = frames[g]
  BY DEF SetFrame
<1>2. StepOf(f)' = StepOf(f)
  BY <1>1 DEF StepOf
<1>3. Shapes'
  BY <1>1 DEF IInv, Shapes, RowsKept
<1>4. Uncommitted'
  <2> SUFFICES ASSUME NEW g \in DOMAIN frames', Busy(g)'
               PROVE  StepOf(g)' \in DOMAIN rows' /\ ~rows'[StepOf(g)'].done
    BY DEF Uncommitted
  <2>1. CASE g = f
    BY <1>2, <2>1
  <2>2. CASE g # f
    <3>1. g \in DOMAIN frames /\ frames'[g] = frames[g] /\ Busy(g)
      BY <1>1, <2>2 DEF Busy
    <3> QED BY <2>2, <3>1, Others
  <2> QED BY <2>1, <2>2
<1> QED BY <1>3, <1>4 DEF IInv

LEMMA SameRows ==
  ASSUME IInv, NEW f, UNCHANGED rows PROVE RowsKept(f) /\ CommittedKept
  BY DEF IInv, Shapes, RowsKept, CommittedKept

-----------------------------------------------------------------------------
(* Each action                                                             *)

LEMMA EnterKeeps ==
  ASSUME IInv, NEW f \in DOMAIN frames, Enter(f) PROVE IInv' /\ CommittedKept
<1> DEFINE c == frames[f]  n == c.at
           d == [c EXCEPT !.pc = "claim", !.visits[n] = @ + 1]
<1>1. UNCHANGED rows
  BY DEF Enter
<1>2. DOMAIN c = FrameFields
  BY DEF IInv, Shapes
<1>3. \A t : DOMAIN [c EXCEPT !.pc = "ret", !.stopped = t] = FrameFields
             /\ [c EXCEPT !.pc = "ret", !.stopped = t].pc = "ret"
  BY <1>2 DEF FrameFields
<1>4. DOMAIN d = FrameFields /\ d.pc = "claim"
  BY <1>2 DEF FrameFields
<1>5. \/ frames' = <<>> \/ SetFrame(f, d)
      \/ \E t : SetFrame(f, [c EXCEPT !.pc = "ret", !.stopped = t])
  BY DEF Enter, Finish, Fail, Return
<1> HIDE DEF d, c
<1>6. LeavesOnly(f)
  BY <1>3, <1>4, <1>5, NobodyLeft, Moves DEF IInv
<1> QED BY <1>1, <1>6, SameRows, Leaving

LEMMA ClaimKeeps ==
  ASSUME IInv, NEW f \in DOMAIN frames, Claim(f) PROVE IInv' /\ CommittedKept
<1> DEFINE c == frames[f]  s == StepOf(f)  old == s \in DOMAIN rows
           row == [done |-> FALSE, res |-> "next", ran |-> 0]
           d == [c EXCEPT !.pc = "exec", !.replay = old]
<1>1. rows' = IF old THEN rows ELSE Put(rows, s, row)
  BY DEF Claim
<1>2. DOMAIN row = RowFields /\ ~row.done
  BY DEF RowFields
<1>3. \/ old /\ Route(f, rows[s].res)
      \/ Fail(f, c.at)
      \/ ~(old /\ rows[s].done) /\ SetFrame(f, d)
  BY DEF Claim
<1>4. DOMAIN c = FrameFields
  BY DEF IInv, Shapes
<1>5. DOMAIN d = FrameFields /\ d.at = c.at /\ d.visits = c.visits
  BY <1>4 DEF FrameFields
<1> HIDE DEF d, row, s
<1>6. /\ s \in DOMAIN rows'
      /\ \A u \in DOMAIN rows : u \in DOMAIN rows' /\ rows'[u] = rows[u]
      /\ ~old => rows'[s] = row
      /\ DOMAIN rows' = DOMAIN rows \cup {s}
  BY <1>1 DEF Put
<1>7. RowsKept(f) /\ CommittedKept
  BY <1>2, <1>6 DEF RowsKept, CommittedKept, IInv, Shapes
<1>8. CASE Route(f, rows[s].res)
  BY <1>7, <1>8, RouteLeaves, Leaving DEF IInv
<1>9. CASE Fail(f, c.at)
  BY <1>7, <1>9, NobodyLeft, Leaving DEF Fail
<1>10. CASE ~(old /\ rows[s].done) /\ SetFrame(f, d)
  <2>1. ~rows'[s].done
    BY <1>2, <1>6, <1>10
  <2> QED BY <1>5, <1>6, <1>7, <1>10, <2>1, Staying DEF s
<1> QED BY <1>3, <1>8, <1>9, <1>10

LEMMA ExecuteKeeps ==
  ASSUME IInv, NEW f \in DOMAIN frames, Execute(f) PROVE IInv' /\ CommittedKept
<1> DEFINE c == frames[f]  s == StepOf(f)
<1>1. s \in DOMAIN rows /\ ~rows[s].done
  BY DEF Execute, IInv, Uncommitted, Busy
<1>2. rows' = [rows EXCEPT ![s].ran = @ + 1]
  BY DEF Execute
<1>3. DOMAIN c = FrameFields /\ DOMAIN rows[s] = RowFields
  BY <1>1 DEF IInv, Shapes
<1> HIDE DEF s
<1>4. /\ DOMAIN rows' = DOMAIN rows
      /\ \A u \in DOMAIN rows \ {s} : rows'[u] = rows[u]
      /\ rows'[s] = [rows[s] EXCEPT !.ran = @ + 1]
  BY <1>1, <1>2
<1>5. DOMAIN rows'[s] = RowFields /\ ~rows'[s].done
  BY <1>1, <1>3, <1>4 DEF RowFields
<1>6. RowsKept(f) /\ CommittedKept
  BY <1>1, <1>4, <1>5 DEF RowsKept, CommittedKept, IInv, Shapes, s
<1>7. ASSUME NEW r, SetFrame(f, [c EXCEPT !.pc = "commit", !.res = r]) PROVE IInv'
  <2> DEFINE d == [c EXCEPT !.pc = "commit", !.res = r]
  <2>1. DOMAIN d = FrameFields /\ d.at = c.at /\ d.visits = c.visits
    BY <1>3 DEF FrameFields
  <2>2. SetFrame(f, d)
    BY <1>7
  <2> HIDE DEF d
  <2> QED BY <1>1, <1>4, <1>5, <1>6, <2>1, <2>2, Staying DEF s
<1>8. CASE Fail(f, c.at)
  BY <1>6, <1>8, NobodyLeft, Leaving DEF Fail
<1> QED BY <1>6, <1>7, <1>8 DEF Execute

LEMMA CommitKeeps ==
  ASSUME IInv, NEW f \in DOMAIN frames, Commit(f) PROVE IInv' /\ CommittedKept
<1> DEFINE c == frames[f]  s == StepOf(f)
<1>1. s \in DOMAIN rows /\ ~rows[s].done
  BY DEF Commit, IInv, Uncommitted, Busy
<1>2. rows' = [rows EXCEPT ![s] = [@ EXCEPT !.done = TRUE, !.res = c.res]] /\ Route(f, c.res)
  BY DEF Commit
<1>3. DOMAIN rows[s] = RowFields
  BY <1>1 DEF IInv, Shapes
<1> HIDE DEF s
<1>4. /\ DOMAIN rows' = DOMAIN rows
      /\ \A u \in DOMAIN rows \ {s} : rows'[u] = rows[u]
      /\ DOMAIN rows'[s] = RowFields
  BY <1>1, <1>2, <1>3
<1>5. RowsKept(f) /\ CommittedKept
  BY <1>1, <1>4 DEF RowsKept, CommittedKept, IInv, Shapes, s
<1> QED BY <1>2, <1>5, RouteLeaves, Leaving DEF IInv

LEMMA BodyEndsKeeps ==
  ASSUME IInv, NEW f \in DOMAIN frames, BodyEnds(f) PROVE IInv' /\ CommittedKept
<1> DEFINE c == frames[f]  x == <<"item", Items[c.at][c.item]>>  b == Append(f, x)
           fr == Without({b})
           d == [c EXCEPT !.known = frames[b].known]
<1>1. frames' = NextItem(fr, f, d, c.item + 1) /\ UNCHANGED rows
  BY DEF BodyEnds
<1>2. IsSequence(f) /\ DOMAIN c = FrameFields
  BY DEF IInv, Shapes, Named
<1>3. DOMAIN d = FrameFields
  BY <1>2
<1> HIDE DEF x, c
<1>4. b # f
  BY <1>2, Longer
<1> HIDE DEF b
<1>5. DOMAIN fr = DOMAIN frames \ {b} /\ \A g \in DOMAIN fr : fr[g] = frames[g]
  BY DEF Without
<1> HIDE DEF fr, d
<1>6. f \in DOMAIN fr
  BY <1>4, <1>5
<1>7. \A g \in DOMAIN fr : Named(g) /\ DOMAIN fr[g] = FrameFields
                           /\ (g # f => g \in DOMAIN frames /\ fr[g] = frames[g])
  BY <1>5 DEF IInv, Shapes
<1>8. LeavesOnly(f)
  BY <1>1, <1>3, <1>6, <1>7, NextItemLeaves
<1> QED BY <1>1, <1>8, SameRows, Leaving

LEMMA JoinKeeps ==
  ASSUME IInv, NEW f \in DOMAIN frames, Join(f) PROVE IInv' /\ CommittedKept
<1> DEFINE c == frames[f]
           B == {Branch(f, l) : l \in DOMAIN Edges[c.at]}
           d(j) == [c EXCEPT !.known = @ \cup {j}, !.at = Next_(j, "next"), !.pc = "enter"]
<1>1. UNCHANGED rows
  BY DEF Join
<1>2. \/ Abort(f) \/ Fail(f, c.at) \/ \E j : frames' = [Without(B) EXCEPT ![f] = d(j)]
  BY DEF Join
<1>3. DOMAIN c = FrameFields
  BY DEF IInv, Shapes
<1>4. \A j : DOMAIN d(j) = FrameFields /\ d(j).pc = "enter"
  BY <1>3 DEF FrameFields
<1>5. DOMAIN Without(B) = DOMAIN frames \ B /\ \A g \in DOMAIN frames \ B : Without(B)[g] = frames[g]
  BY DEF Without
<1> HIDE DEF B, d
<1>6. ASSUME NEW j, frames' = [Without(B) EXCEPT ![f] = d(j)] PROVE LeavesOnly(f)
  <2>1. /\ DOMAIN frames' = DOMAIN frames \ B
        /\ \A g \in DOMAIN frames' : frames'[g] = IF g = f THEN d(j) ELSE frames[g]
    BY <1>5, <1>6
  <2> QED BY <1>4, <2>1 DEF LeavesOnly, IInv, Shapes, Busy
<1>7. LeavesOnly(f)
  BY <1>2, <1>6, AbortLeaves, NobodyLeft DEF Fail, IInv
<1> QED BY <1>1, <1>7, SameRows, Leaving

LEMMA StartKeeps == ASSUME IInv, Start PROVE IInv' /\ CommittedKept
<1> DEFINE c == Frame(IF cur = None THEN Entry ELSE cur, {})
<1>1. frames' = Put(<<>>, <<>>, c) /\ UNCHANGED rows
  BY DEF Start
<1>2. DOMAIN c = FrameFields /\ c.pc = "enter"
  BY FreshFrame
<1> HIDE DEF c
<1>3. DOMAIN frames' = {<<>>} /\ frames'[<<>>] = c
  BY <1>1 DEF Put
<1>4. Shapes'
  BY <1>1, <1>2, <1>3, EmptyName DEF IInv, Shapes
<1>5. Uncommitted'
  BY <1>2, <1>3 DEF Uncommitted, Busy
<1> QED BY <1>1, <1>4, <1>5, SameRows DEF IInv

LEMMA CrashKeeps == ASSUME IInv, Crash PROVE IInv' /\ CommittedKept
<1>1. frames' = <<>> /\ UNCHANGED rows
  BY DEF Crash
<1>2. Shapes' /\ Uncommitted'
  BY <1>1 DEF IInv, Shapes, Uncommitted, Busy
<1> QED BY <1>1, <1>2, SameRows DEF IInv

LEMMA InvInit == ASSUME Init PROVE IInv
  BY DEF Init, IInv, Shapes, Uncommitted, Busy

LEMMA InvStep == ASSUME IInv, [Next]_vars PROVE IInv' /\ CommittedKept
<1>1. CASE UNCHANGED vars
  <2>1. UNCHANGED rows /\ UNCHANGED frames
    BY <1>1 DEF vars
  <2>2. Shapes'
    BY <2>1 DEF IInv, Shapes
  <2>3. Uncommitted'
    BY <2>1 DEF IInv, Uncommitted, Busy, StepOf
  <2> QED BY <2>1, <2>2, <2>3, SameRows DEF IInv
<1>2. CASE Start
  BY <1>2, StartKeeps
<1>3. CASE Crash
  BY <1>3, CrashKeeps
<1>4. ASSUME NEW f \in DOMAIN frames, Walk(f) PROVE IInv' /\ CommittedKept
  BY <1>4, EnterKeeps, ClaimKeeps, ExecuteKeeps, CommitKeeps, BodyEndsKeeps, JoinKeeps DEF Walk
<1> QED BY <1>1, <1>2, <1>3, <1>4 DEF Next

(* The inductive invariant holds in every reachable state.                 *)
THEOREM InvariantHolds == Spec => []IInv
<1>1. Init => IInv
  BY InvInit
<1>2. IInv /\ [Next]_vars => IInv'
  BY InvStep
<1> QED BY <1>1, <1>2, PTL DEF Spec

(* For every graph, however many forks, fan-outs and loops it nests, and   *)
(* any number of crashes: a committed step is never executed again and its *)
(* result never rewritten (runtime.py, claim_step before execute).         *)
THEOREM NeverRepeated == Spec => CommittedIsNotRepeated
<1>1. IInv /\ [Next]_vars => [\A s \in DOMAIN rows : rows[s].done => rows'[s] = rows[s]]_vars
  BY InvStep DEF CommittedKept
<1> QED BY <1>1, InvariantHolds, PTL DEF Spec, CommittedIsNotRepeated

-----------------------------------------------------------------------------
(* The tree of the live frames                                             *)

(* The frames f waits for, when it is c.                                   *)
Awaited(f, c) ==
  IF c.pc = "items" THEN {Append(f, <<"item", Items[c.at][c.item]>>)}
  ELSE IF c.pc = "branches" THEN {Branch(f, l) : l \in DOMAIN Edges[c.at]}
  ELSE {}

(* The live frames are a tree: each was started by the one before it, which *)
(* waits for it, and whoever is waited for is there.                       *)
Tree == \A g \in DOMAIN frames :
  /\ Awaited(g, frames[g]) \subseteq DOMAIN frames
  /\ \A i \in 1..Len(g) : LET p == SubSeq(g, 1, i - 1) IN
       p \in DOMAIN frames /\ SubSeq(g, 1, i) \in Awaited(p, frames[p])

(* f can see what was done at key k: k leads into no branch that f is not  *)
(* inside.                                                                 *)
Seen(f, k) == \A i \in ForkParts(k) : i <= Len(f) /\ SubSeq(f, 1, i) = SubSeq(k, 1, i)
Known(n, f) == Kind[n] = "join" \/ \E s \in DOMAIN rows :
                 s[1] = n /\ rows[s].done /\ Seen(f, s[2])

(* A frame rests once it was told to stop, and knows only what it can see. *)
Sound(f, c) ==
  /\ c.aborted => c.pc = "ret"
  /\ c.stopped # None => c.pc = "ret" /\ (Kind[c.stopped] = "join" \/ StopAsked(f))
  /\ ~StopAsked(f) => \A n \in c.known : Known(n, f)

(* Whoever set an abort box rests in it still.                             *)
Stopper(b, B) == b \in DOMAIN frames /\ frames[b].aborted /\ IsBranch(b) /\ BoxOf(b) = B
Boxes == frames # <<>> => /\ \A B \in asked : \E b \in DOMAIN frames : Stopper(b, B)
                          /\ aborted => asked # {}

Keys == \A s \in DOMAIN rows : IsSequence(s[2])

TInv == /\ IInv /\ Keys /\ Tree /\ Boxes
        /\ \A f \in DOMAIN frames : Sound(f, frames[f])

-----------------------------------------------------------------------------
(* Initial segments of a name                                              *)

LEMMA Initials ==
  ASSUME NEW f, IsSequence(f)
  PROVE  /\ Len(f) \in Nat /\ DOMAIN f = 1..Len(f) /\ SubSeq(f, 1, Len(f)) = f
         /\ \A i \in 0..Len(f) : /\ SubSeq(f, 1, i) = [j \in 1..i |-> f[j]]
                                 /\ Len(SubSeq(f, 1, i)) = i
                                 /\ IsSequence(SubSeq(f, 1, i))
                                 /\ \A k \in 0..i : SubSeq(SubSeq(f, 1, i), 1, k) = SubSeq(f, 1, k)
<1> DEFINE S == {f[i] : i \in DOMAIN f}
<1>1. f \in Seq(S)
  BY DEF IsSequence
<1> HIDE DEF S
<1>2. Len(f) \in Nat /\ DOMAIN f = 1..Len(f)
  BY <1>1
<1>3. ASSUME NEW i \in 0..Len(f)
      PROVE /\ SubSeq(f, 1, i) = [j \in 1..i |-> f[j]] /\ Len(SubSeq(f, 1, i)) = i
            /\ SubSeq(f, 1, i) \in Seq(S)
  BY <1>1
<1>4. ASSUME NEW i \in 0..Len(f), NEW k \in 0..i
      PROVE  SubSeq(SubSeq(f, 1, i), 1, k) = SubSeq(f, 1, k)
  <2> DEFINE g == SubSeq(f, 1, i)
  <2>1. g = [j \in 1..i |-> f[j]] /\ Len(g) = i /\ g \in Seq(S)
    BY <1>3
  <2> HIDE DEF g
  <2>2. SubSeq(g, 1, k) = [j \in 1..k |-> g[j]]
    BY <2>1
  <2>3. SubSeq(f, 1, k) = [j \in 1..k |-> f[j]]
    BY <1>3, <1>2
  <2> QED BY <2>1, <2>2, <2>3 DEF g
<1>5. SubSeq(f, 1, Len(f)) = f
  BY <1>1
<1>6. ASSUME NEW i \in 0..Len(f) PROVE IsSequence(SubSeq(f, 1, i))
  <2> DEFINE g == SubSeq(f, 1, i)  T == {g[j] : j \in DOMAIN g}
  <2>1. g = [j \in 1..i |-> f[j]] /\ i \in Nat
    BY <1>2, <1>3
  <2> HIDE DEF g
  <2>2. g \in [1..i -> T]
    BY <2>1
  <2> HIDE DEF T
  <2>3. g \in Seq(T)
    BY <2>1, <2>2
  <2> QED BY <2>3 DEF IsSequence, T, g
<1> QED BY <1>2, <1>3, <1>4, <1>5, <1>6

LEMMA AppendInitials ==
  ASSUME NEW f, IsSequence(f), NEW x
  PROVE  /\ IsSequence(Append(f, x)) /\ Len(f) \in Nat /\ Len(Append(f, x)) = Len(f) + 1
         /\ Append(f, x)[Len(f) + 1] = x
         /\ \A i \in 1..Len(f) : Append(f, x)[i] = f[i]
         /\ SubSeq(Append(f, x), 1, Len(f)) = f
         /\ \A i \in 0..Len(f) : SubSeq(Append(f, x), 1, i) = SubSeq(f, 1, i)
<1> DEFINE g == Append(f, x)
<1>1. IsSequence(g)
  BY AppendIsSequence
<1>2. Len(f) \in Nat /\ Len(g) = Len(f) + 1 /\ g[Len(f) + 1] = x /\ \A i \in 1..Len(f) : g[i] = f[i]
  BY Longer
<1> HIDE DEF g
<1>3. ASSUME NEW i \in 0..Len(f) PROVE SubSeq(g, 1, i) = SubSeq(f, 1, i)
  <2>1. SubSeq(f, 1, i) = [j \in 1..i |-> f[j]]
    BY Initials
  <2>2. i \in 0..Len(g)
    BY <1>2
  <2>3. SubSeq(g, 1, i) = [j \in 1..i |-> g[j]]
    BY <1>1, <2>2, Initials
  <2> QED BY <1>2, <2>1, <2>3
<1>4. SubSeq(g, 1, Len(f)) = f
  BY <1>2, <1>3, Initials
<1> QED BY <1>1, <1>2, <1>3, <1>4 DEF g

(* Whatever an initial segment of g extends, g extends.                    *)
LEMMA PrefixOfInitial ==
  ASSUME NEW f, NEW g, IsSequence(g), NEW i \in 0..Len(g), Len(f) \in Nat, Prefix(f, SubSeq(g, 1, i))
  PROVE  Prefix(f, g)
<1> DEFINE p == SubSeq(g, 1, i)
<1>1. Len(p) = i /\ \A k \in 0..i : SubSeq(p, 1, k) = SubSeq(g, 1, k)
  BY Initials
<1>2. Len(g) \in Nat
  BY Initials
<1>3. Len(f) <= Len(p) /\ SubSeq(p, 1, Len(f)) = f
  BY DEF Prefix
<1> HIDE DEF p
<1>4. Len(f) \in 0..i /\ Len(f) <= Len(g)
  BY <1>1, <1>2, <1>3
<1> QED BY <1>1, <1>3, <1>4 DEF Prefix

-----------------------------------------------------------------------------
(* The tree                                                                *)

(* The step of f: whoever was below it is gone, and it starts its own.     *)
Rebuilds(f) ==
  /\ f \in DOMAIN frames /\ f \in DOMAIN frames'
  /\ DOMAIN frames' = (DOMAIN frames \ Under(f)) \cup Awaited(f, frames'[f])
  /\ \A g \in DOMAIN frames \ (Under(f) \cup {f}) : frames'[g] = frames[g]
  /\ \A g \in Awaited(f, frames'[f]) : frames'[g].pc = "enter"

LEMMA AwaitedExtends ==
  ASSUME NEW f, IsSequence(f), NEW c, NEW g \in Awaited(f, c)
  PROVE  /\ IsSequence(g) /\ Len(f) \in Nat /\ Len(g) = Len(f) + 1 /\ SubSeq(g, 1, Len(g)) = g
         /\ \A i \in 0..Len(f) : SubSeq(g, 1, i) = SubSeq(f, 1, i)
         /\ SubSeq(g, 1, Len(f)) = f /\ Prefix(f, g) /\ g # f
<1>1. \E x : g = Append(f, x)
  BY DEF Awaited, Branch
<1>2. PICK x : g = Append(f, x)
  BY <1>1
<1>3. /\ IsSequence(g) /\ Len(f) \in Nat /\ Len(g) = Len(f) + 1
      /\ \A i \in 0..Len(f) : SubSeq(g, 1, i) = SubSeq(f, 1, i)
      /\ SubSeq(g, 1, Len(f)) = f
  BY <1>2, AppendInitials
<1>4. SubSeq(g, 1, Len(g)) = g
  BY <1>3, Initials
<1>5. Prefix(f, g) /\ g # f
  BY <1>3 DEF Prefix
<1> QED BY <1>3, <1>4, <1>5

(* Nobody is below a frame that waits for nobody.                          *)
LEMMA NothingUnder ==
  ASSUME Tree, Shapes, NEW f \in DOMAIN frames, NEW g \in Under(f)
  PROVE  /\ Len(f) + 1 \in 1..Len(g)
         /\ SubSeq(g, 1, Len(f) + 1) \in Awaited(f, frames[f]) \cap DOMAIN frames
<1>1. g \in DOMAIN frames /\ Prefix(f, g) /\ g # f
  BY DEF Under
<1>2. IsSequence(f) /\ IsSequence(g)
  BY <1>1 DEF Shapes, Named
<1>3. Len(f) \in Nat /\ Len(g) \in Nat /\ SubSeq(g, 1, Len(g)) = g
  BY <1>2, Initials
<1>4. Len(f) <= Len(g) /\ SubSeq(g, 1, Len(f)) = f /\ Len(f) # Len(g)
  BY <1>1, <1>3 DEF Prefix
<1> DEFINE i == Len(f) + 1
<1>5. i \in 1..Len(g) /\ i - 1 = Len(f)
  <2>1. Len(f) \in Nat /\ Len(g) \in Nat /\ Len(f) <= Len(g) /\ Len(f) # Len(g)
    BY <1>3, <1>4
  <2> QED BY <2>1
<1> HIDE DEF i
<1>6. SubSeq(g, 1, i) \in Awaited(f, frames[f])
  BY <1>1, <1>4, <1>5 DEF Tree
<1>7. Awaited(f, frames[f]) \subseteq DOMAIN frames
  BY DEF Tree
<1> QED BY <1>5, <1>6, <1>7 DEF i

LEMMA InitialIsLive ==
  ASSUME Tree, Shapes, NEW g \in DOMAIN frames, NEW i \in 0..Len(g)
  PROVE  SubSeq(g, 1, i) \in DOMAIN frames
<1>1. IsSequence(g)
  BY DEF Shapes, Named
<1>2. Len(g) \in Nat /\ SubSeq(g, 1, Len(g)) = g
  BY <1>1, Initials
<1>3. CASE i = Len(g)
  BY <1>2, <1>3
<1>4. CASE i # Len(g)
  <2> DEFINE j == i + 1
  <2>1. j \in 1..Len(g) /\ j - 1 = i
    <3>1. Len(g) \in Nat
      BY <1>2
    <3> QED BY <1>4, <3>1
  <2> HIDE DEF j
  <2> QED BY <2>1 DEF Tree
<1> QED BY <1>3, <1>4

LEMMA TreeKept ==
  ASSUME Tree, Shapes, NEW f, Rebuilds(f), UNCHANGED graph
  PROVE  Tree'
<1> DEFINE A == Awaited(f, frames'[f])
<1>1. /\ f \in DOMAIN frames /\ f \in DOMAIN frames'
      /\ DOMAIN frames' = (DOMAIN frames \ Under(f)) \cup A
      /\ \A g \in DOMAIN frames \ (Under(f) \cup {f}) : frames'[g] = frames[g]
      /\ \A g \in A : frames'[g].pc = "enter"
  BY DEF Rebuilds
<1>2. \A g \in DOMAIN frames : IsSequence(g)
  BY DEF Shapes, Named
<1>3. \A g, c : Awaited(g, c)' = Awaited(g, c')
  BY DEF Awaited, Items, Edges, Branch
<1>4. \A g \in A : /\ IsSequence(g) /\ Len(f) \in Nat /\ Len(g) = Len(f) + 1 /\ SubSeq(g, 1, Len(g)) = g
                   /\ \A i \in 0..Len(f) : SubSeq(g, 1, i) = SubSeq(f, 1, i)
                   /\ SubSeq(g, 1, Len(f)) = f /\ Prefix(f, g) /\ g # f
  BY <1>1, <1>2, AwaitedExtends
<1>5. Len(f) \in Nat
  BY <1>1, <1>2, Initials
<1> HIDE DEF A
<1>6. SUFFICES ASSUME NEW g \in DOMAIN frames'
               PROVE  /\ Awaited(g, frames'[g]) \subseteq DOMAIN frames'
                      /\ \A i \in 1..Len(g) : LET p == SubSeq(g, 1, i - 1) IN
                           p \in DOMAIN frames' /\ SubSeq(g, 1, i) \in Awaited(p, frames'[p])
  BY <1>3 DEF Tree
<1>7. CASE g \in A
  <2>1. Awaited(g, frames'[g]) = {}
    BY <1>1, <1>7 DEF Awaited
  <2>2. ASSUME NEW i \in 1..Len(g)
        PROVE  SubSeq(g, 1, i - 1) \in DOMAIN frames' /\ SubSeq(g, 1, i) \in Awaited(SubSeq(g, 1, i - 1), frames'[SubSeq(g, 1, i - 1)])
    <3>1. CASE i = Len(g)
      <4>1. i - 1 = Len(f)
        BY <1>4, <1>7, <3>1
      <4>2. SubSeq(g, 1, i - 1) = f /\ SubSeq(g, 1, i) = g
        BY <1>4, <1>7, <3>1, <4>1
      <4> QED BY <1>1, <1>7, <4>2 DEF A
    <3>2. CASE i # Len(g)
      <4> DEFINE p == SubSeq(f, 1, i - 1)  q == SubSeq(f, 1, i)
      <4>1. i \in 1..Len(f) /\ i \in 0..Len(f) /\ i - 1 \in 0..Len(f) /\ i - 1 # Len(f)
        BY <1>4, <1>7, <3>2
      <4>2. SubSeq(g, 1, i - 1) = p /\ SubSeq(g, 1, i) = q
        BY <1>4, <1>7, <4>1
      <4>3. p \in DOMAIN frames /\ q \in Awaited(p, frames[p])
        BY <1>1, <4>1 DEF Tree
      <4>4. Len(p) = i - 1
        BY <1>1, <1>2, <4>1, Initials
      <4> HIDE DEF p, q
      <4>5. ~Prefix(f, p) /\ p # f
        BY <4>1, <4>4, <1>5 DEF Prefix
      <4>6. p \in DOMAIN frames' /\ frames'[p] = frames[p]
        BY <1>1, <4>3, <4>5 DEF Under
      <4> QED BY <4>2, <4>3, <4>6
    <3> QED BY <3>1, <3>2
  <2> QED BY <2>1, <2>2
<1>8. CASE g \notin A
  <2>1. g \in DOMAIN frames /\ g \notin Under(f)
    BY <1>1, <1>8
  <2>2. IsSequence(g) /\ Len(g) \in Nat
    BY <1>2, <2>1, Initials
  <2>3. Awaited(g, frames'[g]) \subseteq DOMAIN frames'
    <3>1. CASE g = f
      BY <1>1, <3>1 DEF A
    <3>2. CASE g # f
      <4>1. frames'[g] = frames[g]
        BY <1>1, <2>1, <3>2
      <4>2. ASSUME NEW x \in Awaited(g, frames[g]) PROVE x \notin Under(f)
        <5>1. /\ IsSequence(x) /\ Len(x) = Len(g) + 1 /\ SubSeq(x, 1, Len(g)) = g /\ SubSeq(x, 1, Len(x)) = x
              /\ \A i \in 0..Len(g) : SubSeq(x, 1, i) = SubSeq(g, 1, i)
          BY <2>2, AwaitedExtends
        <5>2. SUFFICES ASSUME Prefix(f, x), f # x PROVE FALSE
          BY DEF Under
        <5>3. Len(f) <= Len(x) /\ SubSeq(x, 1, Len(f)) = f
          BY <5>2 DEF Prefix
        <5>4. Len(f) # Len(x)
          BY <5>1, <5>2, <5>3
        <5>5. Len(f) \in 0..Len(g) /\ Len(f) <= Len(g)
          <6>1. /\ Len(f) \in Nat /\ Len(g) \in Nat /\ Len(x) = Len(g) + 1
                /\ Len(f) <= Len(x) /\ Len(f) # Len(x)
            BY <1>5, <2>2, <5>1, <5>3, <5>4
          <6> QED BY <6>1
        <5>6. Prefix(f, g)
          BY <5>1, <5>3, <5>5 DEF Prefix
        <5> QED BY <2>1, <3>2, <5>6 DEF Under
      <4>3. Awaited(g, frames[g]) \subseteq DOMAIN frames
        BY <2>1 DEF Tree
      <4> QED BY <1>1, <4>1, <4>2, <4>3
    <3> QED BY <3>1, <3>2
  <2>4. ASSUME NEW i \in 1..Len(g)
        PROVE  SubSeq(g, 1, i - 1) \in DOMAIN frames' /\ SubSeq(g, 1, i) \in Awaited(SubSeq(g, 1, i - 1), frames'[SubSeq(g, 1, i - 1)])
    <3> DEFINE p == SubSeq(g, 1, i - 1)
    <3>1. p \in DOMAIN frames /\ SubSeq(g, 1, i) \in Awaited(p, frames[p])
      BY <2>1 DEF Tree
    <3>2. i - 1 \in 0..Len(g) /\ i - 1 # Len(g)
      BY <2>2
    <3>3. Len(p) = i - 1 /\ IsSequence(p)
      BY <2>2, <3>2, Initials
    <3>4. SubSeq(p, 1, Len(p)) = p
      BY <3>3, Initials
    <3>5. ~Prefix(f, p)
      <4>1. SUFFICES ASSUME Prefix(f, p) PROVE FALSE
        OBVIOUS
      <4>2. Prefix(f, g)
        BY <1>5, <2>2, <3>2, <4>1, PrefixOfInitial
      <4>3. g = f
        BY <2>1, <4>2 DEF Under
      <4>4. Len(f) <= Len(p)
        BY <4>1 DEF Prefix
      <4> HIDE DEF p
      <4> QED BY <2>2, <3>2, <3>3, <4>3, <4>4
    <3> HIDE DEF p
    <3>6. p # f
      <4>1. SUFFICES ASSUME p = f PROVE FALSE
        OBVIOUS
      <4>2. Prefix(f, p)
        BY <1>5, <3>4, <4>1 DEF Prefix
      <4> QED BY <3>5, <4>2
    <3>7. p \in DOMAIN frames' /\ frames'[p] = frames[p]
      BY <1>1, <3>1, <3>5, <3>6 DEF Under
    <3> QED BY <3>1, <3>7 DEF p
  <2> QED BY <2>3, <2>4
<1> QED BY <1>7, <1>8

-----------------------------------------------------------------------------
(* Fork parts and boxes                                                    *)

LEMMA LeastIsOne ==
  ASSUME NEW n \in Nat, NEW S, S \subseteq 1..n, S # {}
  PROVE  Least(S) \in S /\ \A j \in S : Least(S) <= j
<1>1. S \subseteq Nat
  OBVIOUS
<1>2. PICK m \in S : \A y \in S : ~(<<y, m>> \in OpToRel(<, Nat))
  BY <1>1, NatLessThanWellFounded, WFMin
<1>3. \A y \in S : ~(y < m)
  BY <1>1, <1>2 DEF OpToRel
<1>4. \A j \in S : m <= j
  BY <1>1, <1>3
<1> QED BY <1>4 DEF Least

LEMMA Parts ==
  ASSUME NEW f, IsSequence(f)
  PROVE  /\ ForkParts(f) \subseteq 1..Len(f) /\ Len(f) \in Nat
         /\ ForkParts(f) # {} => /\ Least(ForkParts(f)) \in ForkParts(f)
                                 /\ \A j \in ForkParts(f) : Least(ForkParts(f)) <= j
<1>1. ForkParts(f) \subseteq 1..Len(f) /\ Len(f) \in Nat
  BY Initials DEF ForkParts
<1> QED BY <1>1, LeastIsOne

LEMMA PartsOfAppend ==
  ASSUME NEW f, IsSequence(f), NEW x
  PROVE  ForkParts(Append(f, x)) = ForkParts(f) \cup (IF x[1] = "fork" THEN {Len(f) + 1} ELSE {})
<1> DEFINE g == Append(f, x)
<1>1. Len(f) \in Nat /\ Len(g) = Len(f) + 1 /\ g[Len(f) + 1] = x /\ \A i \in 1..Len(f) : g[i] = f[i]
  BY AppendInitials
<1> HIDE DEF g
<1>2. 1..Len(g) = (1..Len(f)) \cup {Len(f) + 1}
  BY <1>1
<1>3. ForkParts(g) = {i \in (1..Len(f)) \cup {Len(f) + 1} : g[i][1] = "fork"}
  BY <1>2 DEF ForkParts
<1>4. \A i \in 1..Len(f) : g[i][1] = f[i][1]
  BY <1>1
<1>5. g[Len(f) + 1][1] = x[1]
  BY <1>1
<1>6. ForkParts(f) = {i \in 1..Len(f) : f[i][1] = "fork"}
  BY DEF ForkParts
<1> HIDE DEF ForkParts
<1>7. ForkParts(g) = ForkParts(f) \cup (IF x[1] = "fork" THEN {Len(f) + 1} ELSE {})
  BY <1>3, <1>4, <1>5, <1>6
<1> QED BY <1>7 DEF g

LEMMA PartsOfInitial ==
  ASSUME NEW f, IsSequence(f), NEW i \in 0..Len(f)
  PROVE  ForkParts(SubSeq(f, 1, i)) = {j \in ForkParts(f) : j <= i}
<1> DEFINE g == SubSeq(f, 1, i)
<1>1. g = [j \in 1..i |-> f[j]] /\ Len(g) = i /\ Len(f) \in Nat
  BY Initials
<1> HIDE DEF g
<1>2. \A j \in 1..i : g[j] = f[j]
  BY <1>1
<1>3. \A j : j \in 1..i <=> j \in 1..Len(f) /\ j <= i
  BY <1>1
<1>4. ForkParts(g) = {j \in ForkParts(f) : j <= i}
  BY <1>1, <1>2, <1>3 DEF ForkParts
<1> QED BY <1>4 DEF g

(* A branch, and whoever is below it, share a box.                         *)
LEMMA BoxOfInitial ==
  ASSUME NEW f, IsSequence(f), NEW i \in 0..Len(f), ForkParts(SubSeq(f, 1, i)) # {}
  PROVE  ForkParts(f) # {} /\ BoxOf(f) = BoxOf(SubSeq(f, 1, i))
<1> DEFINE g == SubSeq(f, 1, i)  S == ForkParts(f)  T == ForkParts(g)
<1>1. T = {j \in S : j <= i} /\ IsSequence(g) /\ Len(f) \in Nat
  BY PartsOfInitial, Initials
<1>2. S \subseteq 1..Len(f) /\ (S # {} => Least(S) \in S /\ \A j \in S : Least(S) <= j)
  BY Parts
<1>3. T # {} => Least(T) \in T /\ \A j \in T : Least(T) <= j
  BY <1>1, Parts
<1> HIDE DEF S, T
<1>4. S # {} /\ T # {}
  BY <1>1 DEF T
<1> DEFINE a == Least(S)  b == Least(T)
<1>5. a \in S /\ (\A j \in S : a <= j) /\ b \in T /\ (\A j \in T : b <= j)
  BY <1>2, <1>3, <1>4
<1> HIDE DEF a, b
<1>6. b \in S /\ b <= i /\ a \in 1..Len(f) /\ b \in 1..Len(f)
  BY <1>1, <1>2, <1>5
<1>7. a <= b
  BY <1>5, <1>6
<1>8. a <= i
  BY <1>1, <1>6, <1>7
<1>9. a \in T
  BY <1>1, <1>5, <1>8
<1>10. a = b
  BY <1>5, <1>6, <1>7, <1>9
<1>11. a - 1 \in 0..i
  BY <1>6, <1>8
<1>12. SubSeq(g, 1, a - 1) = SubSeq(f, 1, a - 1)
  BY <1>11, Initials
<1> QED BY <1>4, <1>10, <1>12 DEF BoxOf, a, b, S, T

LEMMA StopBelow ==
  ASSUME NEW f, IsSequence(f), NEW x
  PROVE  /\ x[1] # "fork" => StopAsked(Append(f, x)) = StopAsked(f)
         /\ StopAsked(f) => StopAsked(Append(f, x))
         /\ ForkParts(f) # {} => StopAsked(Append(f, x)) = StopAsked(f)
         /\ x[1] = "fork" => /\ ForkParts(Append(f, x)) # {}
                             /\ ForkParts(f) = {} => BoxOf(Append(f, x)) = f
<1> DEFINE g == Append(f, x)
<1>1. /\ IsSequence(g) /\ Len(f) \in Nat /\ Len(g) = Len(f) + 1 /\ SubSeq(g, 1, Len(f)) = f
  BY AppendInitials
<1>2. ForkParts(g) = ForkParts(f) \cup (IF x[1] = "fork" THEN {Len(f) + 1} ELSE {})
  BY PartsOfAppend
<1> HIDE DEF g
<1>3. Len(f) \in 0..Len(g)
  BY <1>1
<1>4. ForkParts(f) # {} => ForkParts(g) # {} /\ BoxOf(g) = BoxOf(f)
  BY <1>1, <1>3, BoxOfInitial
<1>5. ForkParts(f) # {} => StopAsked(g) = StopAsked(f)
  BY <1>4 DEF StopAsked
<1>6. ForkParts(f) = {} => ~StopAsked(f)
  BY DEF StopAsked
<1>7. x[1] # "fork" /\ ForkParts(f) = {} => ~StopAsked(g)
  BY <1>2 DEF StopAsked
<1>8. ASSUME x[1] = "fork", ForkParts(f) = {} PROVE BoxOf(g) = f
  <2>1. ForkParts(g) = {Len(f) + 1}
    BY <1>2, <1>8
  <2>2. Least(ForkParts(g)) = Len(f) + 1
    BY <1>1, <2>1 DEF Least
  <2>3. Least(ForkParts(g)) - 1 = Len(f)
    BY <1>1, <2>2
  <2> QED BY <1>1, <2>3 DEF BoxOf
<1>9. StopAsked(g) \in BOOLEAN /\ StopAsked(f) \in BOOLEAN
  BY DEF StopAsked
<1>10. x[1] = "fork" => ForkParts(g) # {}
  BY <1>2
<1> QED BY <1>5, <1>6, <1>7, <1>8, <1>9, <1>10 DEF g

-----------------------------------------------------------------------------
(* What a frame can see                                                    *)

LEMMA SeesItsOwn ==
  ASSUME NEW f, Named(f), NEW v
  PROVE  IsSequence(VisitKey(f, v)) /\ Seen(f, VisitKey(f, v))
<1> DEFINE x == <<"visit", v>>
<1>1. x[1] # "fork" /\ IsSequence(f)
  BY DEF Named
<1>2. ForkParts(f) \subseteq 1..Len(f)
  BY <1>1, Parts
<1> HIDE DEF x
<1>3. ASSUME NEW k, k = f \/ k = Append(f, x) PROVE IsSequence(k) /\ Seen(f, k)
  <2>1. IsSequence(k)
    BY <1>1, <1>3, AppendIsSequence
  <2>2. ForkParts(k) = ForkParts(f)
    BY <1>1, <1>3, PartsOfAppend
  <2>3. \A i \in 0..Len(f) : SubSeq(k, 1, i) = SubSeq(f, 1, i)
    BY <1>1, <1>3, AppendInitials
  <2>4. \A i \in 1..Len(f) : i \in 0..Len(f) /\ i <= Len(f)
    BY <1>1, Initials
  <2> QED BY <1>2, <2>1, <2>2, <2>3, <2>4 DEF Seen
<1> QED BY <1>3 DEF VisitKey, x

LEMMA SeesFurther ==
  ASSUME NEW f, IsSequence(f), NEW k, IsSequence(k), NEW x, Seen(f, k)
  PROVE  Seen(Append(f, x), k)
<1>1. ForkParts(k) \subseteq 1..Len(k) /\ Len(k) \in Nat
  BY Parts
<1>2. /\ Len(f) \in Nat /\ Len(Append(f, x)) = Len(f) + 1
      /\ \A i \in 0..Len(f) : SubSeq(Append(f, x), 1, i) = SubSeq(f, 1, i)
  BY AppendInitials
<1>3. ASSUME NEW i \in ForkParts(k)
      PROVE  i <= Len(Append(f, x)) /\ SubSeq(Append(f, x), 1, i) = SubSeq(k, 1, i)
  <2>1. i <= Len(f) /\ SubSeq(f, 1, i) = SubSeq(k, 1, i)
    BY <1>3 DEF Seen
  <2>2. i \in 0..Len(f) /\ i <= Len(f) + 1
    BY <1>1, <1>2, <2>1
  <2> QED BY <1>2, <2>1, <2>2
<1> QED BY <1>3 DEF Seen

(* What a fan-out body can see, its loop can.                              *)
LEMMA SeesBody ==
  ASSUME NEW f, IsSequence(f), NEW k, IsSequence(k), NEW x, x[1] # "fork", Seen(Append(f, x), k)
  PROVE  Seen(f, k)
<1> DEFINE g == Append(f, x)
<1>1. ForkParts(k) \subseteq 1..Len(k) /\ Len(k) \in Nat
  BY Parts
<1>2. /\ Len(f) \in Nat /\ Len(g) = Len(f) + 1 /\ IsSequence(g) /\ g[Len(f) + 1] = x
      /\ \A i \in 0..Len(f) : SubSeq(g, 1, i) = SubSeq(f, 1, i)
  BY AppendInitials
<1>3. Seen(g, k)
  OBVIOUS
<1> HIDE DEF g
<1>4. ASSUME NEW i \in ForkParts(k) PROVE i <= Len(f) /\ SubSeq(f, 1, i) = SubSeq(k, 1, i)
  <2>1. i <= Len(g) /\ SubSeq(g, 1, i) = SubSeq(k, 1, i)
    BY <1>3, <1>4 DEF Seen
  <2>2. i \in Nat /\ i \in 1..Len(k) /\ i \in 1..Len(g) /\ i \in 0..Len(k) /\ i \in 0..Len(g) /\ i \in 1..i
    <3>1. i \in 1..Len(k) /\ i <= Len(g) /\ Len(g) \in Nat /\ Len(k) \in Nat
      BY <1>1, <1>2, <2>1
    <3> QED BY <3>1
  <2>3. SubSeq(g, 1, i)[i] = g[i]
    <3>1. SubSeq(g, 1, i) = [j \in 1..i |-> g[j]]
      BY <1>2, <2>2, Initials
    <3> QED BY <2>2, <3>1
  <2>4. SubSeq(k, 1, i)[i] = k[i]
    <3>1. SubSeq(k, 1, i) = [j \in 1..i |-> k[j]]
      BY <2>2, Initials
    <3> QED BY <2>2, <3>1
  <2>5. k[i][1] = "fork"
    BY DEF ForkParts
  <2>6. i # Len(f) + 1
    BY <1>2, <2>1, <2>3, <2>4, <2>5
  <2>7. i <= Len(f) /\ i \in 0..Len(f)
    <3>1. i \in Nat /\ i <= Len(f) + 1 /\ Len(f) \in Nat
      BY <1>2, <2>1, <2>2
    <3> QED BY <2>6, <3>1
  <2> QED BY <1>2, <2>1, <2>7
<1> QED BY <1>4 DEF Seen

(* What a frame knows it goes on knowing, and it stays told to stop.       *)
RowsGrow == \A s \in DOMAIN rows : rows[s].done => s \in DOMAIN rows' /\ rows'[s] = rows[s]

LEMMA KnownStays ==
  ASSUME RowsGrow, UNCHANGED graph, NEW n, NEW f, Known(n, f) PROVE Known(n, f)'
<1>1. Kind' = Kind
  BY DEF Kind
<1> QED BY <1>1 DEF RowsGrow, Known

LEMMA SoundStays ==
  ASSUME RowsGrow, UNCHANGED graph, asked \subseteq asked', NEW f, NEW c, Sound(f, c)
  PROVE  /\ c.aborted => c.pc = "ret"
         /\ c.stopped # None => c.pc = "ret" /\ (Kind'[c.stopped] = "join" \/ StopAsked(f)')
         /\ ~StopAsked(f)' => \A n \in c.known : Known(n, f)'
<1>1. Kind' = Kind
  BY DEF Kind
<1>2. StopAsked(f) => StopAsked(f)'
  BY DEF StopAsked
<1>3. \A n : Known(n, f) => Known(n, f)'
  BY KnownStays
<1> QED BY <1>1, <1>2, <1>3 DEF Sound

-----------------------------------------------------------------------------
(* What a step of f that aborts nothing keeps                              *)

LEMMA NobodyAsks ==
  ASSUME frames' = <<>>, Keys', IInv' PROVE TInv'
  BY DEF TInv, Tree, Boxes

Works(f) ==
  /\ Rebuilds(f) /\ UNCHANGED <<asked, aborted>>
  /\ \A g \in Under(f) \cup {f} : ~(frames[g].aborted /\ IsBranch(g))
  /\ Sound(f, frames[f])'
  /\ \A g \in Awaited(f, frames'[f]) : Sound(g, frames[g])'

Settled == RowsGrow /\ Keys' /\ IInv' /\ UNCHANGED graph

LEMMA WorksKeeps == ASSUME TInv, NEW f, Works(f), Settled PROVE TInv'
<1>1. /\ f \in DOMAIN frames /\ f \in DOMAIN frames'
      /\ DOMAIN frames' = (DOMAIN frames \ Under(f)) \cup Awaited(f, frames'[f])
      /\ \A g \in DOMAIN frames \ (Under(f) \cup {f}) : frames'[g] = frames[g]
  BY DEF Works, Rebuilds
<1>2. Tree'
  BY TreeKept DEF TInv, IInv, Works, Settled
<1>3. ASSUME NEW g \in DOMAIN frames' PROVE Sound(g, frames[g])'
  <2>1. CASE g = f \/ g \in Awaited(f, frames'[f])
    BY <2>1 DEF Works
  <2>2. CASE g # f /\ g \notin Awaited(f, frames'[f])
    <3>1. g \in DOMAIN frames /\ frames'[g] = frames[g]
      BY <1>1, <2>2
    <3>2. Sound(g, frames[g])
      BY <3>1 DEF TInv
    <3>3. asked \subseteq asked'
      BY DEF Works
    <3> QED BY <3>1, <3>2, <3>3, SoundStays DEF Sound, Settled
  <2> QED BY <2>1, <2>2
<1>4. Boxes'
  <2>1. frames # <<>>
    BY <1>1
  <2>2. ASSUME NEW B \in asked PROVE \E b \in DOMAIN frames' : Stopper(b, B)'
    <3>1. PICK b \in DOMAIN frames : Stopper(b, B)
      BY <2>1, <2>2 DEF TInv, Boxes
    <3>2. b \notin Under(f) \cup {f}
      BY <3>1 DEF Stopper, Works
    <3>3. b \in DOMAIN frames' /\ frames'[b] = frames[b]
      BY <1>1, <3>2
    <3>4. Stopper(b, B)'
      BY <3>1, <3>3 DEF Stopper
    <3> QED BY <3>3, <3>4
  <2>3. aborted' => asked' # {}
    BY <2>1 DEF TInv, Boxes, Works
  <2> QED BY <2>2, <2>3 DEF Boxes, Works
<1> QED BY <1>2, <1>3, <1>4 DEF TInv, Settled

LEMMA Alone ==
  ASSUME TInv, NEW f \in DOMAIN frames, frames[f].pc \notin {"items", "branches"}
  PROVE  Under(f) = {}
<1>1. Awaited(f, frames[f]) = {}
  BY DEF Awaited
<1> QED BY <1>1, NothingUnder DEF TInv, IInv

LEMMA UnderResting ==
  ASSUME TInv, NEW f \in DOMAIN frames, \A b \in Awaited(f, frames[f]) : frames[b].pc = "ret"
  PROVE  Under(f) = Awaited(f, frames[f])
<1> DEFINE A == Awaited(f, frames[f])
<1>1. Tree /\ Shapes /\ IsSequence(f)
  BY DEF TInv, IInv, Shapes, Named
<1>2. A \subseteq DOMAIN frames
  BY <1>1 DEF Tree
<1>3. A \subseteq Under(f)
  BY <1>1, <1>2, AwaitedExtends DEF Under
<1>4. ASSUME NEW g \in Under(f) PROVE g \in A
  <2> DEFINE b == SubSeq(g, 1, Len(f) + 1)
  <2>1. Len(f) + 1 \in 1..Len(g) /\ b \in A
    BY <1>1, NothingUnder
  <2>2. IsSequence(g) /\ g \in DOMAIN frames
    BY <1>1 DEF Shapes, Named, Under
  <2>3. Len(g) \in Nat
    BY <2>2, Initials
  <2>4. Len(f) + 1 \in 0..Len(g) /\ Len(f) + 1 <= Len(g)
    BY <2>1, <2>3
  <2>5. Len(b) = Len(f) + 1
    BY <2>2, <2>4, Initials
  <2>6. Prefix(b, g)
    BY <2>4, <2>5 DEF Prefix
  <2> HIDE DEF b
  <2>7. Under(b) = {}
    BY <1>2, <2>1, Alone
  <2>8. g = b
    BY <2>2, <2>6, <2>7 DEF Under
  <2> QED BY <2>1, <2>8
<1> QED BY <1>3, <1>4

(* A frame alone that turns into c.                                        *)
LEMMA AloneKeeps ==
  ASSUME TInv, Settled, NEW f \in DOMAIN frames, frames[f].pc \notin {"items", "branches", "ret"},
         NEW c, c.pc \notin {"items", "branches"}, SetFrame(f, c),
         UNCHANGED <<asked, aborted>>, Sound(f, frames[f])'
  PROVE  TInv'
<1>1. Under(f) = {}
  BY Alone
<1>2. /\ DOMAIN frames' = DOMAIN frames /\ frames'[f] = c
      /\ \A g \in DOMAIN frames \ {f} : frames'[g] = frames[g]
  BY DEF SetFrame
<1>3. Awaited(f, frames'[f]) = {}
  BY <1>2 DEF Awaited
<1>4. ~frames[f].aborted
  BY DEF TInv, Sound
<1> HIDE DEF SetFrame
<1>5. Works(f)
  BY <1>1, <1>2, <1>3, <1>4 DEF Works, Rebuilds
<1> QED BY <1>5, WorksKeeps

(* An abort: the nearest branch rests, its box is set.                     *)
LEMMA AbortAsks ==
  ASSUME TInv, Settled, NEW f \in DOMAIN frames, Abort(f) PROVE TInv'
<1>1. CASE ForkParts(f) = {}
  BY <1>1, NobodyAsks DEF Abort, Finish, Settled
<1>2. CASE ForkParts(f) # {}
  <2> DEFINE k == Greatest(ForkParts(f))  b == SubSeq(f, 1, k)  w == Without(Under(b))
             c == [frames[b] EXCEPT !.pc = "ret", !.aborted = TRUE]
  <2>1. Shapes /\ Tree /\ Named(f) /\ IsSequence(f) /\ Len(f) \in Nat
    <3>1. Shapes /\ Tree /\ Named(f) /\ IsSequence(f)
      BY DEF TInv, IInv, Shapes, Named
    <3> QED BY <3>1, Initials
  <2>2. k \in ForkParts(f) /\ k \in 1..Len(f)
    BY <1>2, <2>1, Parts, GreatestIsOne
  <2>3. k \in 0..Len(f)
    BY <2>1, <2>2
  <2>4. b \in DOMAIN frames
    BY <2>1, <2>3, InitialIsLive
  <2>5. frames' = [w EXCEPT ![b].pc = "ret", ![b].aborted = TRUE] /\ asked' = asked \cup {BoxOf(f)} /\ aborted'
    BY <1>2 DEF Abort
  <2>6. DOMAIN w = DOMAIN frames \ Under(b) /\ \A g \in DOMAIN w : w[g] = frames[g]
    BY DEF Without
  <2>7. b \notin Under(b)
    BY DEF Under
  <2>8. k \in ForkParts(b) /\ IsSequence(b) /\ Len(b) = k
    BY <2>1, <2>2, <2>3, PartsOfInitial, Initials
  <2>9. BoxOf(f) = BoxOf(b)
    BY <2>1, <2>3, <2>8, BoxOfInitial
  <2>10. IsBranch(b)
    <3>1. b # <<>>
      BY <2>2, <2>8
    <3>2. b[k][1] = "fork"
      BY <2>8 DEF ForkParts
    <3> QED BY <2>8, <3>1, <3>2 DEF IsBranch
  <2> HIDE DEF k, b, w
  <2>11. /\ DOMAIN frames' = DOMAIN frames \ Under(b) /\ frames'[b] = c
         /\ \A g \in DOMAIN frames' \ {b} : frames'[g] = frames[g]
    BY <2>4, <2>5, <2>6, <2>7
  <2>12. DOMAIN frames[b] = FrameFields
    BY <2>1, <2>4 DEF Shapes
  <2>13. c.pc = "ret" /\ c.aborted /\ c.stopped = frames[b].stopped /\ c.known = frames[b].known
    BY <2>12 DEF FrameFields
  <2> HIDE DEF c
  <2>14. Awaited(b, frames'[b]) = {}
    BY <2>11, <2>13 DEF Awaited
  <2>15. Rebuilds(b)
    BY <2>4, <2>7, <2>11, <2>14 DEF Rebuilds
  <2>16. Tree'
    BY <2>1, <2>15, TreeKept DEF Settled
  <2>17. ASSUME NEW g \in DOMAIN frames' PROVE Sound(g, frames[g])'
    <3>1. g \in DOMAIN frames /\ Sound(g, frames[g])
      BY <2>11 DEF TInv
    <3>2. asked \subseteq asked'
      BY <2>5
    <3>3. /\ frames[g].aborted => frames[g].pc = "ret"
          /\ frames[g].stopped # None => frames[g].pc = "ret" /\ (Kind'[frames[g].stopped] = "join" \/ StopAsked(g)')
          /\ ~StopAsked(g)' => \A n \in frames[g].known : Known(n, g)'
      BY <3>1, <3>2, SoundStays DEF Settled
    <3>4. CASE g # b
      BY <2>11, <3>3, <3>4 DEF Sound
    <3>5. CASE g = b
      BY <2>11, <2>13, <3>3, <3>5 DEF Sound
    <3> QED BY <3>4, <3>5
  <2>18. Boxes'
    <3>1. ASSUME NEW B \in asked' PROVE \E x \in DOMAIN frames' : Stopper(x, B)'
      <4>1. ASSUME B = BoxOf(b) PROVE Stopper(b, B)' /\ b \in DOMAIN frames'
        BY <2>4, <2>7, <2>10, <2>11, <2>13, <4>1 DEF Stopper
      <4>2. ASSUME B # BoxOf(b) PROVE \E x \in DOMAIN frames' : Stopper(x, B)'
        <5>1. B \in asked
          BY <2>5, <2>9, <4>2
        <5>2. frames # <<>>
          OBVIOUS
        <5>3. PICK x \in DOMAIN frames : Stopper(x, B)
          BY <5>1, <5>2 DEF TInv, Boxes
        <5>4. x # b
          BY <4>2, <5>3 DEF Stopper
        <5>5. x \notin Under(b)
          <6>1. SUFFICES ASSUME Prefix(b, x) PROVE FALSE
            BY DEF Under
          <6>2. IsSequence(x)
            BY <2>1 DEF Shapes, Named
          <6>3. Len(b) \in 0..Len(x) /\ SubSeq(x, 1, Len(b)) = b
            <7>1. Len(b) <= Len(x) /\ SubSeq(x, 1, Len(b)) = b
              BY <6>1 DEF Prefix
            <7>2. Len(b) \in Nat /\ Len(x) \in Nat
              BY <2>8, <6>2, Initials
            <7> QED BY <7>1, <7>2
          <6>4. BoxOf(x) = BoxOf(b)
            BY <2>8, <6>2, <6>3, BoxOfInitial
          <6> QED BY <4>2, <5>3, <6>4 DEF Stopper
        <5>6. x \in DOMAIN frames' /\ frames'[x] = frames[x]
          BY <2>11, <5>4, <5>5
        <5>7. Stopper(x, B)'
          BY <5>3, <5>6 DEF Stopper
        <5> QED BY <5>6, <5>7
      <4> QED BY <4>1, <4>2
    <3>2. asked' # {}
      BY <2>5
    <3> QED BY <3>1, <3>2 DEF Boxes
  <2> QED BY <2>16, <2>17, <2>18 DEF TInv, Settled
<1> QED BY <1>1, <1>2

(* What c, which f is to become, may know.                                 *)
Sees(f, c) == ~c.aborted /\ c.stopped = None /\ (~StopAsked(f) => \A n \in c.known : Known(n, f)')

LEMMA KnownBelow ==
  ASSUME Keys', NEW f, IsSequence(f), NEW n, NEW x, Known(n, f)' PROVE Known(n, Append(f, x))'
<1> DEFINE g == Append(f, x)
<1>1. ASSUME NEW s \in DOMAIN rows', Seen(f, s[2]) PROVE Seen(g, s[2])
  BY <1>1, SeesFurther DEF Keys
<1> HIDE DEF g
<1>2. Known(n, g)'
  BY <1>1 DEF Known
<1> QED BY <1>2 DEF g

(* A frame that f starts knows what f knows.                               *)
LEMMA ChildIsSound ==
  ASSUME Settled, UNCHANGED asked, NEW f, IsSequence(f), NEW c, Sees(f, c), NEW x, NEW m,
         frames'[Append(f, x)] = Frame(m, c.known)
  PROVE  Sound(Append(f, x), frames[Append(f, x)])'
<1> DEFINE g == Append(f, x)  d == Frame(m, c.known)
<1>1. d.pc = "enter" /\ ~d.aborted /\ d.stopped = None /\ d.known = c.known
  BY DEF Frame
<1>2. StopAsked(f) => StopAsked(g)
  BY StopBelow
<1>3. ~StopAsked(f) => \A n \in c.known : Known(n, g)'
  BY KnownBelow DEF Sees, Settled
<1>4. StopAsked(g)' = StopAsked(g)
  BY DEF StopAsked
<1> HIDE DEF g, d
<1>5. Sound(g, frames[g])'
  BY <1>1, <1>2, <1>3, <1>4 DEF Sound, g, d
<1> QED BY <1>5 DEF g

(* f itself, having become c.                                              *)
LEMMA SelfIsSound ==
  ASSUME UNCHANGED asked, NEW f, NEW c, Sees(f, c),
         ~frames'[f].aborted, frames'[f].stopped = None, frames'[f].known = c.known
  PROVE  Sound(f, frames[f])'
<1>1. StopAsked(f)' = StopAsked(f)
  BY DEF StopAsked
<1> QED BY <1>1 DEF Sound, Sees

-----------------------------------------------------------------------------
(* Items, branches, routing                                                *)

LEMMA ItemWorks ==
  ASSUME TInv, Settled, UNCHANGED <<asked, aborted>>,
         NEW fr, NEW f \in DOMAIN frames, DOMAIN fr = DOMAIN frames \ Under(f),
         \A g \in DOMAIN fr \ {f} : fr[g] = frames[g],
         \A g \in Under(f) \cup {f} : ~(frames[g].aborted /\ IsBranch(g)),
         NEW c, DOMAIN c = FrameFields, Sees(f, c), NEW i, frames' = NextItem(fr, f, c, i)
  PROVE  TInv'
<1>0. PICK it : it = Items[c.at][i]
  OBVIOUS
<1> DEFINE n == c.at  x == <<"item", it>>  b == Append(f, x)
           new == Frame(Edges[n]["body"], c.known)
           out == [c EXCEPT !.at = Next_(n, "after"), !.pc = "enter"]
           stay == [c EXCEPT !.pc = "items", !.item = i]
<1>1. /\ out.pc = "enter" /\ out.aborted = c.aborted /\ out.stopped = c.stopped /\ out.known = c.known
      /\ stay.pc = "items" /\ stay.item = i /\ stay.at = n
      /\ stay.aborted = c.aborted /\ stay.stopped = c.stopped /\ stay.known = c.known
  BY DEF FrameFields
<1>2. new.pc = "enter"
  BY DEF Frame
<1>3. IsSequence(f) /\ f \notin Under(f)
  BY DEF TInv, IInv, Shapes, Named, Under
<1>4. \/ frames' = [fr EXCEPT ![f] = out]
      \/ frames' = Put([fr EXCEPT ![f] = stay], b, new)
  BY <1>0 DEF NextItem
<1>5. Awaited(f, stay) = {b}
  <2>1. Awaited(f, stay) = {Append(f, <<"item", Items[stay.at][stay.item]>>)}
    BY <1>1 DEF Awaited
  <2> QED BY <1>0, <1>1, <2>1
<1>6. Awaited(f, out) = {}
  BY <1>1 DEF Awaited
<1>7. b # f /\ Prefix(f, b)
  BY <1>3, <1>5, AwaitedExtends
<1>8. ~c.aborted /\ c.stopped = None
  BY DEF Sees
<1> HIDE DEF new, out, stay, x
<1>9. CASE frames' = [fr EXCEPT ![f] = out]
  <2>1. DOMAIN frames' = DOMAIN frames \ Under(f) /\ frames'[f] = out
        /\ \A g \in DOMAIN frames \ (Under(f) \cup {f}) : frames'[g] = frames[g]
    BY <1>3, <1>9
  <2>2. Sound(f, frames[f])'
    BY <1>1, <1>8, <2>1, SelfIsSound
  <2>3. Awaited(f, frames'[f]) = {}
    BY <1>6, <2>1
  <2>4. Works(f)
    BY <1>3, <2>1, <2>2, <2>3 DEF Works, Rebuilds
  <2> QED BY <2>4, WorksKeeps
<1>10. CASE frames' = Put([fr EXCEPT ![f] = stay], b, new)
  <2>1. /\ DOMAIN frames' = (DOMAIN frames \ Under(f)) \cup {b} /\ frames'[f] = stay /\ frames'[b] = new
        /\ \A g \in DOMAIN frames \ (Under(f) \cup {f, b}) : frames'[g] = frames[g]
    <3> HIDE DEF b
    <3> QED BY <1>3, <1>7, <1>10 DEF Put
  <2>2. Sound(f, frames[f])'
    BY <1>1, <1>8, <2>1, SelfIsSound
  <2>3. Awaited(f, frames'[f]) = {b}
    BY <1>5, <2>1
  <2>4. Sound(b, frames[b])'
    BY <1>3, <2>1, ChildIsSound DEF new
  <2>5. b \in DOMAIN frames => b \in Under(f)
    BY <1>7 DEF Under
  <2>6. f \in DOMAIN frames'
    BY <1>3, <2>1
  <2> HIDE DEF b
  <2>7. Rebuilds(f)
    BY <1>2, <2>1, <2>3, <2>5, <2>6 DEF Rebuilds
  <2>8. Works(f)
    BY <2>2, <2>3, <2>4, <2>7 DEF Works
  <2> QED BY <2>8, WorksKeeps
<1> QED BY <1>4, <1>9, <1>10

LEMMA BranchesWork ==
  ASSUME TInv, Settled, UNCHANGED <<asked, aborted>>,
         NEW f \in DOMAIN frames, frames[f].pc \notin {"items", "branches", "ret"},
         NEW c, DOMAIN c = FrameFields, Sees(f, c), StartBranches(f, c)
  PROVE  TInv'
<1> DEFINE B == {Branch(f, l) : l \in DOMAIN Edges[c.at]}
           stay == [c EXCEPT !.pc = "branches"]
           New(g) == Frame(Edges[c.at][g[Len(g)][2]], c.known)
<1>1. /\ stay.pc = "branches" /\ stay.at = c.at
      /\ stay.aborted = c.aborted /\ stay.stopped = c.stopped /\ stay.known = c.known
  BY DEF FrameFields
<1>2. \A g : New(g).pc = "enter"
  BY DEF Frame
<1>3. IsSequence(f) /\ Under(f) = {}
  BY Alone DEF TInv, IInv, Shapes, Named
<1>4. Awaited(f, stay) = B
  BY <1>1 DEF Awaited
<1>5. \A g \in B : g # f /\ g \notin DOMAIN frames
  <2>1. \A g \in B : g # f /\ Prefix(f, g)
    BY <1>3, <1>4, AwaitedExtends
  <2> QED BY <1>3, <2>1 DEF Under
<1>6. /\ DOMAIN frames' = DOMAIN frames \cup B
      /\ \A g \in DOMAIN frames' :
           frames'[g] = IF g = f THEN stay ELSE IF g \in DOMAIN frames THEN frames[g] ELSE New(g)
  BY DEF StartBranches
<1>7. ~c.aborted /\ c.stopped = None
  BY DEF Sees
<1> HIDE DEF stay
<1>8. /\ frames'[f] = stay /\ \A g \in DOMAIN frames \ {f} : frames'[g] = frames[g]
      /\ \A g \in B : frames'[g] = New(g)
  BY <1>5, <1>6
<1>9. ASSUME NEW g \in B PROVE Sound(g, frames[g])'
  <2>1. PICK l \in DOMAIN Edges[c.at] : g = Append(f, <<"fork", l>>)
    BY DEF Branch
  <2>2. frames'[g] = Frame(Edges[c.at][g[Len(g)][2]], c.known)
    BY <1>8
  <2> QED BY <1>3, <2>1, <2>2, ChildIsSound
<1> HIDE DEF B, New
<1>10. Sound(f, frames[f])'
  BY <1>1, <1>7, <1>8, SelfIsSound
<1>11. ~frames[f].aborted
  BY DEF TInv, Sound
<1>12. Rebuilds(f)
  BY <1>2, <1>3, <1>4, <1>6, <1>8 DEF Rebuilds
<1>13. Works(f)
  BY <1>3, <1>4, <1>8, <1>9, <1>10, <1>11, <1>12 DEF Works
<1> QED BY <1>13, WorksKeeps

(* Routing a result that is committed.                                     *)
LEMMA RouteWorks ==
  ASSUME TInv, Settled, NEW f \in DOMAIN frames, frames[f].pc \notin {"items", "branches", "ret"},
         StepOf(f) \in DOMAIN rows', rows'[StepOf(f)].done, NEW res, Route(f, res)
  PROVE  TInv'
<1>0. PICK n : n = frames[f].at
  OBVIOUS
<1> DEFINE c == [frames[f] EXCEPT !.known = @ \cup {n}, !.last = TRUE, !.res = "next", !.replay = FALSE]
<1>1. DOMAIN frames[f] = FrameFields /\ Named(f)
  BY DEF TInv, IInv, Shapes
<1>2. /\ DOMAIN c = FrameFields /\ c.known = frames[f].known \cup {n}
      /\ c.aborted = frames[f].aborted /\ c.stopped = frames[f].stopped
  BY <1>1 DEF FrameFields
<1>3. \/ Abort(f) \/ frames' = <<>>
      \/ /\ UNCHANGED <<asked, aborted>>
         /\ \/ StartBranches(f, c) \/ frames' = NextItem(frames, f, c, 1)
            \/ Onward(f, c, Stop[n].target) \/ Onward(f, c, Next_(n, res))
  BY <1>0 DEF Route, Fail
<1>4. Sound(f, frames[f])
  BY DEF TInv
<1>5. Known(n, f)'
  <2> DEFINE s == StepOf(f)
  <2>1. s[1] = n /\ s[2] = VisitKey(f, frames[f].visits[n])
    BY <1>0 DEF StepOf
  <2>2. Seen(f, s[2])
    BY <1>1, <2>1, SeesItsOwn
  <2> HIDE DEF s
  <2>3. s \in DOMAIN rows' /\ rows'[s].done
    BY DEF s
  <2> QED BY <2>1, <2>2, <2>3 DEF Known
<1>6. Sees(f, c)
  <2>1. \A m : Known(m, f) => Known(m, f)'
    BY KnownStays DEF Settled
  <2> QED BY <1>2, <1>4, <1>5, <2>1 DEF Sees, Sound
<1>7. Under(f) = {} /\ ~frames[f].aborted
  BY <1>4, Alone DEF Sound
<1> HIDE DEF c
<1>8. CASE UNCHANGED <<asked, aborted>> /\ frames' = NextItem(frames, f, c, 1)
  BY <1>2, <1>6, <1>7, <1>8, ItemWorks
<1>9. ASSUME UNCHANGED <<asked, aborted>>, NEW t, Onward(f, c, t) PROVE TInv'
  <2> DEFINE d == [c EXCEPT !.at = t, !.pc = "enter"]
  <2>1. d.pc = "enter" /\ d.aborted = c.aborted /\ d.stopped = c.stopped /\ d.known = c.known
    BY <1>2 DEF FrameFields
  <2>2. SetFrame(f, d)
    BY <1>9 DEF Onward
  <2> HIDE DEF d
  <2>3. frames'[f] = d
    BY <2>2 DEF SetFrame
  <2>4. Sound(f, frames[f])'
    BY <1>6, <1>9, <2>1, <2>3, SelfIsSound DEF Sees
  <2> QED BY <1>9, <2>1, <2>2, <2>4, AloneKeeps
<1> QED BY <1>2, <1>3, <1>6, <1>8, <1>9, AbortAsks, BranchesWork, NobodyAsks DEF Settled

-----------------------------------------------------------------------------
(* Each action, on the tree                                                *)

LEMMA Settles ==
  ASSUME IInv, CommittedKept, IInv', UNCHANGED graph, Keys,
         \A s \in DOMAIN rows : s \in DOMAIN rows',
         \A s \in DOMAIN rows' \ DOMAIN rows : \E f \in DOMAIN frames : s = StepOf(f)
  PROVE  Settled
<1>1. ASSUME NEW f \in DOMAIN frames PROVE IsSequence(StepOf(f)[2])
  BY SeesItsOwn DEF StepOf, IInv, Shapes
<1>2. Keys'
  BY <1>1 DEF Keys
<1> QED BY <1>2 DEF Settled, RowsGrow, CommittedKept

LEMMA EnterWorks ==
  ASSUME TInv, Settled, NEW f \in DOMAIN frames, Enter(f) PROVE TInv'
<1>0. PICK n : n = frames[f].at
  OBVIOUS
<1> DEFINE c == frames[f]  d == [c EXCEPT !.pc = "claim", !.visits[n] = @ + 1]
           r(t) == [c EXCEPT !.pc = "ret", !.stopped = t]
<1>1. c.pc = "enter" /\ DOMAIN c = FrameFields /\ Sound(f, c)
  BY DEF Enter, TInv, IInv, Shapes
<1>2. d.pc = "claim" /\ d.aborted = c.aborted /\ d.stopped = c.stopped /\ d.known = c.known
  BY <1>1 DEF FrameFields
<1>3. \A t : r(t).pc = "ret" /\ r(t).aborted = c.aborted /\ r(t).stopped = t /\ r(t).known = c.known
  BY <1>1 DEF FrameFields
<1>4. \/ frames' = <<>>
      \/ UNCHANGED <<asked, aborted>> /\ SetFrame(f, d)
      \/ /\ UNCHANGED <<asked, aborted>>
         /\ \E t : SetFrame(f, r(t)) /\ (t # None => StopAsked(f) \/ Kind[t] = "join")
  BY <1>0 DEF Enter, Finish, Fail, Return
<1>5. ASSUME UNCHANGED asked PROVE /\ ~c.aborted /\ c.stopped = None
                                   /\ StopAsked(f)' = StopAsked(f) /\ Kind' = Kind
                                   /\ ~StopAsked(f) => \A m \in c.known : Known(m, f)'
  <2>1. \A m : Known(m, f) => Known(m, f)'
    BY KnownStays DEF Settled
  <2> QED BY <1>1, <1>5, <2>1 DEF Sound, StopAsked, Settled, Kind
<1> HIDE DEF c, d, r
<1>6. CASE UNCHANGED <<asked, aborted>> /\ SetFrame(f, d)
  <2>1. frames'[f] = d
    BY <1>6 DEF SetFrame
  <2>2. Sound(f, frames[f])'
    BY <1>2, <1>5, <1>6, <2>1 DEF Sound
  <2> QED BY <1>1, <1>2, <1>6, <2>2, AloneKeeps DEF c
<1>7. ASSUME UNCHANGED <<asked, aborted>>, NEW t, SetFrame(f, r(t)), t # None => StopAsked(f) \/ Kind[t] = "join"
      PROVE  TInv'
  <2>1. frames'[f] = r(t)
    BY <1>7 DEF SetFrame
  <2>2. Sound(f, frames[f])'
    BY <1>3, <1>5, <1>7, <2>1 DEF Sound
  <2> QED BY <1>1, <1>3, <1>7, <2>2, AloneKeeps DEF c
<1> QED BY <1>4, <1>6, <1>7, NobodyAsks DEF Settled

(* A frame that stays alone, with what it knew.                            *)
LEMMA StaysSound ==
  ASSUME TInv, Settled, UNCHANGED asked, NEW f \in DOMAIN frames, frames[f].pc # "ret",
         ~frames[f].aborted => ~frames'[f].aborted, frames'[f].stopped = frames[f].stopped,
         frames'[f].known = frames[f].known
  PROVE  Sound(f, frames[f])'
<1>1. Sound(f, frames[f])
  BY DEF TInv
<1>2. \A m : Known(m, f) => Known(m, f)'
  BY KnownStays DEF Settled
<1> QED BY <1>1, <1>2 DEF Sound, StopAsked

LEMMA ClaimWorks ==
  ASSUME TInv, Settled, NEW f \in DOMAIN frames, Claim(f) PROVE TInv'
<1> DEFINE c == frames[f]  s == StepOf(f)  old == s \in DOMAIN rows
           d == [c EXCEPT !.pc = "exec", !.replay = old]
<1>1. c.pc = "claim" /\ DOMAIN c = FrameFields
  BY DEF Claim, TInv, IInv, Shapes
<1>2. d.pc = "exec" /\ d.aborted = c.aborted /\ d.stopped = c.stopped /\ d.known = c.known
  BY <1>1 DEF FrameFields
<1>3. \/ old /\ rows[s].done /\ rows' = rows /\ Route(f, rows[s].res)
      \/ frames' = <<>>
      \/ UNCHANGED <<asked, aborted>> /\ SetFrame(f, d)
  BY DEF Claim, Fail
<1> HIDE DEF d
<1>4. CASE old /\ rows[s].done /\ rows' = rows /\ Route(f, rows[s].res)
  <2>1. s \in DOMAIN rows' /\ rows'[s].done
    BY <1>4
  <2> QED BY <1>1, <1>4, <2>1, RouteWorks
<1>5. CASE UNCHANGED <<asked, aborted>> /\ SetFrame(f, d)
  <2>1. frames'[f] = d
    BY <1>5 DEF SetFrame
  <2>2. Sound(f, frames[f])'
    BY <1>1, <1>2, <1>5, <2>1, StaysSound
  <2> QED BY <1>1, <1>2, <1>5, <2>2, AloneKeeps
<1> QED BY <1>3, <1>4, <1>5, NobodyAsks DEF Settled

LEMMA ExecuteWorks ==
  ASSUME TInv, Settled, NEW f \in DOMAIN frames, Execute(f) PROVE TInv'
<1> DEFINE c == frames[f]
           d(r) == [c EXCEPT !.pc = "commit", !.res = r]
<1>1. c.pc = "exec" /\ DOMAIN c = FrameFields
  BY DEF Execute, TInv, IInv, Shapes
<1>2. \A r : d(r).pc = "commit" /\ d(r).aborted = c.aborted /\ d(r).stopped = c.stopped /\ d(r).known = c.known
  BY <1>1 DEF FrameFields
<1>3. frames' = <<>> \/ \E r : UNCHANGED <<asked, aborted>> /\ SetFrame(f, d(r))
  BY DEF Execute, Fail
<1> HIDE DEF d
<1>4. ASSUME NEW r, UNCHANGED <<asked, aborted>>, SetFrame(f, d(r)) PROVE TInv'
  <2>1. frames'[f] = d(r)
    BY <1>4 DEF SetFrame
  <2>2. Sound(f, frames[f])'
    BY <1>1, <1>2, <1>4, <2>1, StaysSound
  <2> QED BY <1>1, <1>2, <1>4, <2>2, AloneKeeps
<1> QED BY <1>3, <1>4, NobodyAsks DEF Settled

LEMMA CommitWorks ==
  ASSUME TInv, Settled, NEW f \in DOMAIN frames, Commit(f) PROVE TInv'
<1> DEFINE c == frames[f]  s == StepOf(f)
<1>1. s \in DOMAIN rows /\ c.pc = "commit"
  BY DEF Commit, TInv, IInv, Uncommitted, Busy
<1>2. DOMAIN rows[s] = RowFields
  BY <1>1 DEF TInv, IInv, Shapes
<1>3. rows' = [rows EXCEPT ![s] = [@ EXCEPT !.done = TRUE, !.res = c.res]] /\ Route(f, c.res)
  BY DEF Commit
<1> HIDE DEF s
<1>4. s \in DOMAIN rows' /\ rows'[s] = [rows[s] EXCEPT !.done = TRUE, !.res = c.res]
  BY <1>1, <1>3
<1>5. rows'[s].done
  BY <1>2, <1>4 DEF RowFields
<1> QED BY <1>1, <1>3, <1>4, <1>5, RouteWorks DEF s

LEMMA BodyEndsWorks ==
  ASSUME TInv, Settled, NEW f \in DOMAIN frames, BodyEnds(f) PROVE TInv'
<1>0. PICK it : it = Items[frames[f].at][frames[f].item]
  OBVIOUS
<1> DEFINE c == frames[f]  x == <<"item", it>>  b == Append(f, x)  fr == Without({b})
           d == [c EXCEPT !.known = frames[b].known]
<1>1. /\ c.pc = "items" /\ frames[b].pc = "ret" /\ UNCHANGED <<asked, aborted>>
      /\ frames' = NextItem(fr, f, d, c.item + 1)
  BY <1>0 DEF BodyEnds
<1>2. IsSequence(f) /\ DOMAIN c = FrameFields /\ Tree
  BY DEF TInv, IInv, Shapes, Named
<1>3. DOMAIN d = FrameFields /\ d.known = frames[b].known /\ d.aborted = c.aborted /\ d.stopped = c.stopped
  BY <1>2 DEF FrameFields
<1>4. Awaited(f, c) = {b}
  BY <1>0, <1>1 DEF Awaited
<1>5. b \in DOMAIN frames /\ Under(f) = {b}
  <2>1. Awaited(f, c) \subseteq DOMAIN frames
    BY <1>2 DEF Tree
  <2>2. \A g \in Awaited(f, c) : frames[g].pc = "ret"
    BY <1>1, <1>4
  <2>3. Under(f) = Awaited(f, c)
    BY <2>2, UnderResting
  <2> QED BY <1>4, <2>1, <2>3
<1>6. DOMAIN fr = DOMAIN frames \ {b} /\ \A g \in DOMAIN fr : fr[g] = frames[g]
  BY DEF Without
<1>7. x[1] # "fork" /\ x[1] = "item"
  OBVIOUS
<1>8. ~IsBranch(b) /\ StopAsked(b) = StopAsked(f)
  <2>1. Len(f) \in Nat /\ Len(b) = Len(f) + 1 /\ b[Len(f) + 1] = x
    BY <1>2, AppendInitials
  <2>2. b[Len(b)] = x
    BY <2>1
  <2>3. StopAsked(b) = StopAsked(f)
    BY <1>2, <1>7, StopBelow
  <2> HIDE DEF x, b
  <2> QED BY <1>7, <2>2, <2>3 DEF IsBranch
<1>9. ASSUME NEW n, Known(n, b) PROVE Known(n, f)'
  <2>1. \A k : IsSequence(k) /\ Seen(b, k) => Seen(f, k)
    BY <1>2, <1>7, SeesBody
  <2>2. Known(n, f)
    <3> HIDE DEF b
    <3> QED BY <1>9, <2>1 DEF Known, TInv, Keys
  <2> QED BY <2>2, KnownStays DEF Settled
<1>10. Sound(b, frames[b]) /\ Sound(f, c)
  BY <1>5 DEF TInv
<1>11. ~c.aborted /\ c.stopped = None
  BY <1>1, <1>10 DEF Sound
<1> HIDE DEF c, b, d, fr
<1>12. Sees(f, d)
  BY <1>3, <1>8, <1>9, <1>10, <1>11 DEF Sees, Sound
<1>13. DOMAIN fr = DOMAIN frames \ Under(f) /\ \A g \in DOMAIN fr \ {f} : fr[g] = frames[g]
  BY <1>5, <1>6
<1>14. \A g \in Under(f) \cup {f} : ~(frames[g].aborted /\ IsBranch(g))
  BY <1>5, <1>8, <1>11 DEF c
<1> QED BY <1>1, <1>3, <1>12, <1>13, <1>14, ItemWorks

(* Why what a fork's branches rest before is a join, for a fork that was   *)
(* not told to stop: had one of them been, its fork would be outermost,    *)
(* and the branch that asked one of its own.                               *)
LEMMA StopsAtJoin ==
  ASSUME TInv, NEW f \in DOMAIN frames, frames[f].pc = "branches", ~StopAsked(f),
         \A b \in Awaited(f, frames[f]) : frames[b].pc = "ret" /\ ~frames[b].aborted,
         NEW b \in Awaited(f, frames[f]), frames[b].stopped # None
  PROVE  Kind[frames[b].stopped] = "join" /\ ~StopAsked(b)
<1>1. IsSequence(f) /\ Tree /\ Shapes
  BY DEF TInv, IInv, Shapes, Named
<1>2. b \in DOMAIN frames
  BY <1>1 DEF Tree
<1>3. Kind[frames[b].stopped] = "join" \/ StopAsked(b)
  BY <1>2 DEF TInv, Sound
<1>4. SUFFICES ASSUME StopAsked(b) PROVE FALSE
  BY <1>3
<1>5. PICK l : b = Append(f, <<"fork", l>>)
  BY DEF Awaited, Branch
<1> DEFINE x == <<"fork", l>>
<1>6. x[1] = "fork"
  OBVIOUS
<1> HIDE DEF x
<1>7. ForkParts(f) = {} /\ BoxOf(b) = f
  BY <1>1, <1>4, <1>5, <1>6, StopBelow DEF x
<1>8. f \in asked
  BY <1>4, <1>7 DEF StopAsked
<1>9. PICK w \in DOMAIN frames : Stopper(w, f)
  BY <1>8 DEF TInv, Boxes
<1>10. IsSequence(w) /\ BoxOf(w) = f /\ IsBranch(w) /\ frames[w].aborted
  BY <1>1, <1>9 DEF Shapes, Named, Stopper
<1>11. Len(w) \in Nat /\ Len(f) \in Nat
  BY <1>1, <1>10, Initials
<1>12. ForkParts(w) # {}
  <2>1. w # <<>> /\ w[Len(w)][1] = "fork"
    BY <1>10 DEF IsBranch
  <2>2. Len(w) # 0
    <3>1. w \in Seq({w[i] : i \in DOMAIN w})
      BY <1>10 DEF IsSequence
    <3> QED BY <2>1, <3>1
  <2>3. Len(w) \in 1..Len(w)
    BY <1>11, <2>2
  <2> QED BY <2>1, <2>3 DEF ForkParts
<1>13. Under(f) # {} /\ w \in Under(f)
  <2> DEFINE k == Least(ForkParts(w)) - 1
  <2>1. k \in 0..Len(w) /\ k < Len(w)
    <3>1. Least(ForkParts(w)) \in 1..Len(w)
      BY <1>10, <1>12, Parts
    <3> QED BY <1>11, <3>1
  <2>2. SubSeq(w, 1, k) = f
    BY <1>10 DEF BoxOf
  <2>3. Len(f) = k
    BY <1>10, <2>1, <2>2, Initials
  <2> HIDE DEF k
  <2>4. Prefix(f, w) /\ w # f
    <3>1. k <= Len(w) /\ k # Len(w)
      BY <1>11, <2>1
    <3> QED BY <2>2, <2>3, <3>1 DEF Prefix
  <2> QED BY <1>9, <2>4 DEF Under
<1>14. w \in Awaited(f, frames[f])
  BY <1>13, UnderResting
<1> QED BY <1>10, <1>14

LEMMA JoinWorks ==
  ASSUME TInv, Settled, NEW f \in DOMAIN frames, Join(f) PROVE TInv'
<1> DEFINE c == frames[f]
           B == {Branch(f, l) : l \in DOMAIN Edges[c.at]}
           ids == {frames[b].stopped : b \in B} \ {None}
           d(j) == [c EXCEPT !.known = @ \cup {j}, !.at = Next_(j, "next"), !.pc = "enter"]
<1>1. c.pc = "branches" /\ \A b \in B : frames[b].pc = "ret"
  BY DEF Join
<1>2. \/ Abort(f) \/ frames' = <<>>
      \/ /\ \A b \in B : ~frames[b].aborted
         /\ Cardinality(ids) = 1 /\ UNCHANGED <<asked, aborted>>
         /\ frames' = [Without(B) EXCEPT ![f] = d(CHOOSE n \in ids : TRUE)]
  BY DEF Join, Fail
<1>3. DOMAIN c = FrameFields /\ Sound(f, c)
  BY DEF TInv, IInv, Shapes
<1>4. \A j : /\ d(j).pc = "enter" /\ d(j).known = c.known \cup {j}
             /\ d(j).aborted = c.aborted /\ d(j).stopped = c.stopped
  BY <1>3 DEF FrameFields
<1>5. Awaited(f, c) = B
  BY <1>1 DEF Awaited
<1>6. Under(f) = B
  <2> HIDE DEF B
  <2> QED BY <1>1, <1>5, UnderResting DEF c
<1>7. DOMAIN Without(B) = DOMAIN frames \ B /\ \A g \in DOMAIN frames \ B : Without(B)[g] = frames[g]
  BY DEF Without
<1>8. f \notin B
  BY <1>6 DEF Under
<1>9. ~c.aborted /\ c.stopped = None
  BY <1>1, <1>3 DEF Sound
<1>10. ASSUME \A b \in B : ~frames[b].aborted, Cardinality(ids) = 1, UNCHANGED <<asked, aborted>>,
              NEW j, j = CHOOSE n \in ids : TRUE, frames' = [Without(B) EXCEPT ![f] = d(j)]
       PROVE  TInv'
  <2>1. j \in ids
    <3>1. ids # {}
      <4> HIDE DEF ids
      <4> QED BY <1>10, FS_EmptySet
    <3> HIDE DEF ids
    <3> QED BY <1>10, <3>1
  <2>2. ~StopAsked(f) => Kind[j] = "join"
    <3>1. PICK b \in B : frames[b].stopped = j /\ j # None
      BY <2>1
    <3> HIDE DEF B
    <3> QED BY <1>1, <1>5, <1>10, <3>1, StopsAtJoin DEF c
  <2> HIDE DEF B, d, ids
  <2>3. /\ DOMAIN frames' = DOMAIN frames \ B /\ frames'[f] = d(j)
        /\ \A g \in DOMAIN frames \ (B \cup {f}) : frames'[g] = frames[g]
    BY <1>7, <1>8, <1>10
  <2>4. Awaited(f, frames'[f]) = {}
    BY <1>4, <2>3 DEF Awaited
  <2>5. Sound(f, frames[f])'
    <3>1. \A m : Known(m, f) => Known(m, f)'
      BY KnownStays DEF Settled
    <3>2. ~StopAsked(f) => Known(j, f)
      BY <2>2 DEF Known
    <3>3. Sees(f, d(j))
      BY <1>3, <1>4, <1>9, <3>1, <3>2 DEF Sees, Sound
    <3> QED BY <1>4, <1>9, <1>10, <2>3, <3>3, SelfIsSound
  <2>6. Rebuilds(f)
    BY <1>6, <1>8, <2>3, <2>4 DEF Rebuilds
  <2>7. Works(f)
    BY <1>6, <1>9, <1>10, <2>4, <2>5, <2>6 DEF Works
  <2> QED BY <2>7, WorksKeeps
<1> HIDE DEF B, d, ids
<1> QED BY <1>2, <1>10, AbortAsks, NobodyAsks DEF Settled

LEMMA StartWorks == ASSUME TInv, Settled, Start PROVE TInv'
<1> DEFINE c == Frame(IF cur = None THEN Entry ELSE cur, {})
<1>1. frames' = Put(<<>>, <<>>, c) /\ asked' = {} /\ aborted' = FALSE
  BY DEF Start
<1>2. c.pc = "enter" /\ ~c.aborted /\ c.stopped = None /\ c.known = {}
  BY DEF Frame
<1> HIDE DEF c
<1>3. DOMAIN frames' = {<<>>} /\ frames'[<<>>] = c
  BY <1>1 DEF Put
<1>4. Tree'
  <2>1. Len(<<>>) = 0
    OBVIOUS
  <2>2. Awaited(<<>>, frames[<<>>])' = {}
    BY <1>2, <1>3 DEF Awaited
  <2> QED BY <1>3, <2>1, <2>2 DEF Tree
<1>5. Boxes'
  BY <1>1 DEF Boxes
<1>6. Sound(<<>>, frames[<<>>])'
  BY <1>2, <1>3 DEF Sound
<1> QED BY <1>3, <1>4, <1>5, <1>6 DEF TInv, Settled

LEMMA TInvInit == ASSUME Init PROVE TInv
<1>1. rows = <<>> /\ frames = <<>> /\ IInv
  BY InvInit DEF Init
<1>2. DOMAIN rows = {} /\ DOMAIN frames = {}
  BY <1>1
<1> QED BY <1>1, <1>2 DEF TInv, Keys, Tree, Boxes

LEMMA WalkSettles ==
  ASSUME IInv, Keys, CommittedKept, IInv', UNCHANGED graph,
         NEW f \in DOMAIN frames, Walk(f)
  PROVE  Settled
<1>1. /\ \A s \in DOMAIN rows : s \in DOMAIN rows'
      /\ \A s \in DOMAIN rows' \ DOMAIN rows : s = StepOf(f)
  <2> HIDE DEF StepOf
  <2>1. CASE UNCHANGED rows
    BY <2>1
  <2>2. CASE Claim(f)
    <3>1. rows' = rows \/ \E row : rows' = Put(rows, StepOf(f), row)
      BY <2>2 DEF Claim
    <3> QED BY <3>1 DEF Put
  <2>3. CASE Execute(f) \/ Commit(f)
    <3>1. StepOf(f) \in DOMAIN rows
      BY <2>3 DEF Execute, Commit, IInv, Uncommitted, Busy
    <3>2. \E row : rows' = [rows EXCEPT ![StepOf(f)] = row]
      BY <2>3, <3>1 DEF Execute, Commit
    <3> QED BY <3>2
  <2> QED BY <2>1, <2>2, <2>3 DEF Walk, Enter, BodyEnds, Join
<1> QED BY <1>1, Settles

LEMMA TInvStep == ASSUME TInv, [Next]_vars PROVE TInv'
<1>1. IInv' /\ CommittedKept
  BY InvStep DEF TInv
<1>2. CASE UNCHANGED vars
  <2>1. /\ UNCHANGED <<graph, rows, frames, asked, aborted>> /\ IInv' /\ TInv
    BY <1>1, <1>2 DEF vars
  <2>2. Keys' /\ Boxes'
    BY <2>1 DEF TInv, Keys, Boxes, Stopper
  <2>3. Tree'
    BY <2>1 DEF TInv, Tree, Awaited, Items, Edges, Branch
  <2>4. \A f \in DOMAIN frames : Sound(f, frames[f])'
    BY <2>1 DEF TInv, Sound, Known, StopAsked, Kind
  <2> QED BY <2>1, <2>2, <2>3, <2>4 DEF TInv
<1>3. CASE Start /\ UNCHANGED graph
  <2>1. Settled
    BY <1>1, <1>3, Settles DEF Start, TInv
  <2> QED BY <1>3, <2>1, StartWorks
<1>4. CASE Crash /\ UNCHANGED graph
  <2>1. Settled
    BY <1>1, <1>4, Settles DEF Crash, TInv
  <2> QED BY <1>4, <2>1, NobodyAsks DEF Crash, Settled
<1>5. ASSUME UNCHANGED graph, NEW f \in DOMAIN frames, Walk(f) PROVE TInv'
  <2>1. Settled
    BY <1>1, <1>5, WalkSettles DEF TInv
  <2> QED BY <1>5, <2>1, EnterWorks, ClaimWorks, ExecuteWorks, CommitWorks, BodyEndsWorks, JoinWorks DEF Walk
<1> QED BY <1>2, <1>3, <1>4, <1>5 DEF Next

(* The live frames are a tree, whoever was told to stop rests, and nobody  *)
(* knows what it could not have seen, in every reachable state.            *)
THEOREM TreeHolds == Spec => []TInv
<1>1. Init => TInv
  BY TInvInit
<1>2. TInv /\ [Next]_vars => TInv'
  BY TInvStep
<1> QED BY <1>1, <1>2, PTL DEF Spec

(* In every graph, forks nested in fan-outs nested in forks: a frame that  *)
(* was not told to stop can refer only to what was produced on its own     *)
(* path, and to joins (runtime.py, _run_fork).                             *)
THEOREM Isolated == Spec => []BranchesAreIsolated
<1>1. TInv => BranchesAreIsolated
  BY DEF TInv, Sound, Known, Seen, BranchesAreIsolated
<1> QED BY <1>1, TreeHolds, PTL

(* Where two frames part ways, they are branches of one fork: a chain has  *)
(* one body at a time.                                                     *)
LEMMA PartWays ==
  ASSUME Tree, Shapes, NEW f \in DOMAIN frames, NEW b \in DOMAIN frames, f # b,
         Awaited(f, frames[f]) = {}, Awaited(b, frames[b]) = {}
  PROVE  ForkParts(f) # {} /\ ForkParts(b) # {} /\ BoxOf(f) = BoxOf(b)
<1>1. IsSequence(f) /\ IsSequence(b)
  BY DEF Shapes, Named
<1>2. /\ Len(f) \in Nat /\ Len(b) \in Nat
      /\ SubSeq(f, 1, Len(f)) = f /\ SubSeq(b, 1, Len(b)) = b
  BY <1>1, Initials
<1> DEFINE Parted == {i \in 1..Len(f) : i <= Len(b) /\ f[i] # b[i]}
<1>3. Under(f) = {} /\ Under(b) = {}
  BY NothingUnder
<1>4. Parted # {}
  <2>1. SUFFICES ASSUME \A i \in 1..Len(f) : i <= Len(b) => f[i] = b[i] PROVE FALSE
    OBVIOUS
  <2>2. ASSUME NEW g \in DOMAIN frames, NEW h \in DOMAIN frames, g # h, Len(g) <= Len(h),
               \A i \in 1..Len(g) : g[i] = h[i]
        PROVE  h \in Under(g)
    <3>1. IsSequence(g) /\ IsSequence(h)
      BY DEF Shapes, Named
    <3>2. Len(g) \in Nat /\ Len(h) \in Nat
      BY <3>1, Initials
    <3>3. Len(g) \in 0..Len(h) /\ Len(g) \in 0..Len(g)
      BY <2>2, <3>2
    <3>4. /\ SubSeq(g, 1, Len(g)) = [i \in 1..Len(g) |-> g[i]] /\ SubSeq(g, 1, Len(g)) = g
          /\ SubSeq(h, 1, Len(g)) = [i \in 1..Len(g) |-> h[i]]
      BY <3>1, <3>3, Initials
    <3>5. SubSeq(h, 1, Len(g)) = g
      BY <2>2, <3>4
    <3> QED BY <2>2, <3>5 DEF Under, Prefix
  <2>3. CASE Len(f) <= Len(b)
    <3>1. \A i \in 1..Len(f) : f[i] = b[i]
      <4>1. \A i \in 1..Len(f) : i <= Len(b)
        BY <1>2, <2>3
      <4> QED BY <2>1, <4>1
    <3> QED BY <1>3, <2>2, <2>3, <3>1
  <2>4. CASE Len(b) <= Len(f)
    <3>1. \A i \in 1..Len(b) : b[i] = f[i]
      <4>1. \A i \in 1..Len(b) : i <= Len(b) /\ i \in 1..Len(f)
        BY <1>2, <2>4
      <4> QED BY <2>1, <4>1
    <3> QED BY <1>3, <2>2, <2>4, <3>1
  <2> QED BY <1>2, <2>3, <2>4
<1> DEFINE i == Least(Parted)
<1>5. i \in Parted /\ \A j \in Parted : i <= j
  <2>1. Parted \subseteq 1..Len(f)
    OBVIOUS
  <2> HIDE DEF Parted
  <2> QED BY <1>2, <1>4, <2>1, LeastIsOne
<1> HIDE DEF i
<1>6. i \in 1..Len(f) /\ i \in 1..Len(b) /\ f[i] # b[i]
  BY <1>2, <1>5
<1> DEFINE p == SubSeq(f, 1, i - 1)
<1>7. /\ i - 1 \in 0..Len(f) /\ i - 1 \in 0..Len(b) /\ i \in 0..Len(f) /\ i \in 0..Len(b) /\ i \in Nat
      /\ \A j \in 1..(i - 1) : j \in 1..Len(f) /\ j <= Len(b) /\ ~(i <= j)
  BY <1>2, <1>6
<1>8. SubSeq(b, 1, i - 1) = p
  <2>1. \A j \in 1..(i - 1) : f[j] = b[j]
    BY <1>5, <1>7
  <2>2. p = [j \in 1..(i - 1) |-> f[j]] /\ SubSeq(b, 1, i - 1) = [j \in 1..(i - 1) |-> b[j]]
    BY <1>1, <1>7, Initials
  <2> HIDE DEF p
  <2> QED BY <2>1, <2>2
<1> DEFINE x == SubSeq(f, 1, i)  y == SubSeq(b, 1, i)
<1>9. x \in Awaited(p, frames[p]) /\ y \in Awaited(p, frames[p])
  BY <1>6, <1>8 DEF Tree
<1>10. IsSequence(p) /\ Len(p) = i - 1 /\ IsSequence(x) /\ IsSequence(y)
  BY <1>1, <1>7, Initials
<1>11. x # y
  <2>1. x = [j \in 1..i |-> f[j]] /\ y = [j \in 1..i |-> b[j]]
    BY <1>1, <1>7, Initials
  <2>2. i \in 1..i
    BY <1>6, <1>7
  <2> HIDE DEF x, y
  <2>3. x[i] = f[i] /\ y[i] = b[i]
    BY <2>1, <2>2
  <2> QED BY <1>6, <2>3
<1> HIDE DEF p, x, y
<1>12. \E l, m : x = Append(p, <<"fork", l>>) /\ y = Append(p, <<"fork", m>>)
  BY <1>9, <1>11 DEF Awaited, Branch
<1>13. PICK l, m : x = Append(p, <<"fork", l>>) /\ y = Append(p, <<"fork", m>>)
  BY <1>12
<1>14. ASSUME NEW z, NEW a, z[1] = "fork", a = Append(p, z), IsSequence(a)
       PROVE  /\ ForkParts(a) # {}
              /\ BoxOf(a) = IF ForkParts(p) = {} THEN p ELSE BoxOf(p)
  <2>1. ForkParts(a) # {} /\ (ForkParts(p) = {} => BoxOf(a) = p)
    BY <1>10, <1>14, StopBelow
  <2>2. SubSeq(a, 1, Len(p)) = p /\ Len(p) \in 0..Len(a)
    <3>1. SubSeq(a, 1, Len(p)) = p /\ Len(p) \in Nat /\ Len(a) = Len(p) + 1
      BY <1>10, <1>14, AppendInitials
    <3> QED BY <3>1
  <2>3. ASSUME ForkParts(p) # {} PROVE BoxOf(a) = BoxOf(p)
    <3>1. ForkParts(SubSeq(a, 1, Len(p))) # {}
      BY <2>2, <2>3
    <3>2. BoxOf(a) = BoxOf(SubSeq(a, 1, Len(p)))
      BY <1>14, <2>2, <3>1, BoxOfInitial
    <3> QED BY <2>2, <3>2
  <2> QED BY <2>1, <2>3
<1>15. ForkParts(x) # {} /\ ForkParts(y) # {} /\ BoxOf(x) = BoxOf(y)
  <2> DEFINE u == <<"fork", l>>  v == <<"fork", m>>
  <2>1. u[1] = "fork" /\ v[1] = "fork"
    OBVIOUS
  <2>2. x = Append(p, u) /\ y = Append(p, v)
    BY <1>13
  <2> HIDE DEF u, v
  <2> QED BY <1>10, <1>14, <2>1, <2>2
<1>16. ForkParts(f) # {} /\ BoxOf(f) = BoxOf(x) /\ ForkParts(b) # {} /\ BoxOf(b) = BoxOf(y)
  BY <1>1, <1>7, <1>15, BoxOfInitial DEF x, y
<1> QED BY <1>15, <1>16

LEMMA EveryoneIsAsked ==
  ASSUME TInv, aborted, NEW f \in DOMAIN frames, frames[f].pc = "enter" PROVE StopAsked(f)
<1>1. frames # <<>>
  OBVIOUS
<1>2. PICK B \in asked : TRUE
  BY <1>1 DEF TInv, Boxes
<1>3. PICK b \in DOMAIN frames : Stopper(b, B)
  BY <1>1 DEF TInv, Boxes
<1>4. frames[b].pc = "ret" /\ BoxOf(b) = B
  BY <1>3 DEF Stopper, TInv, Sound
<1>5. Awaited(f, frames[f]) = {} /\ Awaited(b, frames[b]) = {} /\ f # b
  BY <1>4 DEF Awaited
<1>6. ForkParts(f) # {} /\ BoxOf(f) = B
  BY <1>3, <1>4, <1>5, PartWays DEF TInv, IInv
<1> QED BY <1>6 DEF StopAsked

-----------------------------------------------------------------------------
(* Only a frame's own step takes it into a node                            *)

OthersWait(g) == \A f \in DOMAIN frames \cap DOMAIN frames' :
  f # g => frames'[f] = frames[f] \/ frames'[f].pc \in {"enter", "ret"}

LEMMA NextItemWaits ==
  ASSUME NEW fr, NEW g, DOMAIN fr \subseteq DOMAIN frames, \A f \in DOMAIN fr \ {g} : fr[f] = frames[f],
         NEW c, NEW i, frames' = NextItem(fr, g, c, i)
  PROVE  OthersWait(g)
<1> DEFINE b == Append(g, <<"item", Items[c.at][i]>>)
           new == Frame(Edges[c.at]["body"], c.known)
<1>1. new.pc = "enter"
  BY DEF Frame
<1>2. \E d : frames' = [fr EXCEPT ![g] = d] \/ frames' = Put([fr EXCEPT ![g] = d], b, new)
  BY DEF NextItem
<1> HIDE DEF b, new
<1> QED BY <1>1, <1>2 DEF OthersWait, Put

LEMMA AbortWaits ==
  ASSUME Shapes, NEW f \in DOMAIN frames, Abort(f) PROVE OthersWait(f)
<1>1. CASE ForkParts(f) = {}
  BY <1>1 DEF Abort, Finish, OthersWait
<1>2. CASE ForkParts(f) # {}
  <2> DEFINE b == SubSeq(f, 1, Greatest(ForkParts(f)))  w == Without(Under(b))
  <2>1. frames' = [w EXCEPT ![b].pc = "ret", ![b].aborted = TRUE]
    BY <1>2 DEF Abort
  <2>2. DOMAIN w = DOMAIN frames \ Under(b) /\ \A g \in DOMAIN w : w[g] = frames[g]
    BY DEF Without
  <2> HIDE DEF b, w
  <2>3. /\ DOMAIN frames' = DOMAIN w /\ \A g \in DOMAIN w \ {b} : frames'[g] = frames[g]
        /\ b \in DOMAIN w => frames'[b] = [frames[b] EXCEPT !.pc = "ret", !.aborted = TRUE]
    BY <2>1, <2>2
  <2>4. b \in DOMAIN w => frames'[b].pc = "ret"
    BY <2>2, <2>3 DEF Shapes, FrameFields
  <2> QED BY <2>2, <2>3, <2>4 DEF OthersWait
<1> QED BY <1>1, <1>2

LEMMA SetWaits == ASSUME NEW f, NEW c, SetFrame(f, c) PROVE OthersWait(f)
  BY DEF SetFrame, OthersWait

LEMMA RouteWaits ==
  ASSUME Shapes, NEW f \in DOMAIN frames, NEW res, Route(f, res) PROVE OthersWait(f)
<1> DEFINE n == frames[f].at
           c == [frames[f] EXCEPT !.known = @ \cup {n}, !.last = TRUE, !.res = "next", !.replay = FALSE]
<1>1. \/ Abort(f) \/ StartBranches(f, c) \/ frames' = NextItem(frames, f, c, 1)
      \/ frames' = <<>> \/ \E d : SetFrame(f, d)
  BY DEF Route, Onward, Fail
<1> HIDE DEF c, n
<1>2. CASE StartBranches(f, c)
  BY <1>2 DEF StartBranches, OthersWait
<1>3. CASE frames' = NextItem(frames, f, c, 1)
  BY <1>3, NextItemWaits
<1>4. CASE frames' = <<>>
  BY <1>4 DEF OthersWait
<1> QED BY <1>1, <1>2, <1>3, <1>4, AbortWaits, SetWaits

LEMMA WalkWaits == ASSUME Shapes, NEW f \in DOMAIN frames, Walk(f) PROVE OthersWait(f)
<1>1. CASE Enter(f)
  <2>1. frames' = <<>> \/ \E d : SetFrame(f, d)
    BY <1>1 DEF Enter, Finish, Fail, Return
  <2> QED BY <2>1, SetWaits DEF OthersWait
<1>2. CASE Claim(f)
  <2>1. frames' = <<>> \/ (\E d : SetFrame(f, d)) \/ \E r : Route(f, r)
    BY <1>2 DEF Claim, Fail
  <2> QED BY <2>1, SetWaits, RouteWaits DEF OthersWait
<1>3. CASE Execute(f)
  <2>1. frames' = <<>> \/ \E d : SetFrame(f, d)
    BY <1>3 DEF Execute, Fail
  <2> QED BY <2>1, SetWaits DEF OthersWait
<1>4. CASE Commit(f)
  BY <1>4, RouteWaits DEF Commit
<1>5. CASE BodyEnds(f)
  <2>1. \E b, d, i : frames' = NextItem(Without({b}), f, d, i)
    BY <1>5 DEF BodyEnds
  <2>2. PICK b, d, i : frames' = NextItem(Without({b}), f, d, i)
    BY <2>1
  <2>3. DOMAIN Without({b}) = DOMAIN frames \ {b} /\ \A g \in DOMAIN frames \ {b} : Without({b})[g] = frames[g]
    BY DEF Without
  <2> QED BY <2>2, <2>3, NextItemWaits
<1>6. CASE Join(f)
  <2>1. Abort(f) \/ frames' = <<>> \/ \E B, d : frames' = [Without(B) EXCEPT ![f] = d]
    BY <1>6 DEF Join, Fail
  <2>2. ASSUME NEW B, NEW d, frames' = [Without(B) EXCEPT ![f] = d] PROVE OthersWait(f)
    <3>1. DOMAIN Without(B) = DOMAIN frames \ B /\ \A g \in DOMAIN frames \ B : Without(B)[g] = frames[g]
      BY DEF Without
    <3> QED BY <2>2, <3>1 DEF OthersWait
  <2>3. frames' = <<>> => OthersWait(f)
    BY DEF OthersWait
  <2>4. Abort(f) => OthersWait(f)
    BY AbortWaits
  <2> QED BY <2>1, <2>2, <2>3, <2>4
<1> QED BY <1>1, <1>2, <1>3, <1>4, <1>5, <1>6 DEF Walk

NobodyClaims == \A f \in DOMAIN frames \cap DOMAIN frames' :
  frames[f].pc = "enter" => frames'[f].pc # "claim"

LEMMA NobodyStarts == ASSUME TInv, [Next]_vars, aborted PROVE NobodyClaims
<1>1. CASE UNCHANGED vars
  BY <1>1 DEF vars, NobodyClaims
<1>2. CASE Start \/ Crash
  <2>1. frames = <<>> \/ frames' = <<>>
    BY <1>2 DEF Start, Crash
  <2>2. DOMAIN frames \cap DOMAIN frames' = {}
    BY <2>1
  <2> QED BY <2>2 DEF NobodyClaims
<1>3. ASSUME NEW g \in DOMAIN frames, Walk(g),
             NEW f \in DOMAIN frames \cap DOMAIN frames', frames[f].pc = "enter"
      PROVE  frames'[f].pc # "claim"
  <2>1. CASE f # g
    BY <1>3, <2>1, WalkWaits DEF OthersWait, TInv, IInv
  <2>2. CASE f = g
    <3>1. Enter(f) /\ StopAsked(f) /\ DOMAIN frames[f] = FrameFields
      BY <1>3, <2>2, EveryoneIsAsked DEF Walk, Claim, Execute, Commit, BodyEnds, Join, TInv, IInv, Shapes
    <3>2. frames' # <<>>
      BY <1>3
    <3>3. Return(f, None) \/ Return(f, frames[f].at)
      BY <3>1, <3>2 DEF Enter, Finish
    <3>4. PICK t : SetFrame(f, [frames[f] EXCEPT !.pc = "ret", !.stopped = t])
      BY <3>3 DEF Return
    <3>5. frames'[f] = [frames[f] EXCEPT !.pc = "ret", !.stopped = t]
      BY <3>4 DEF SetFrame
    <3>6. frames'[f].pc = "ret"
      BY <3>1, <3>5 DEF FrameFields
    <3> QED BY <3>6
  <2> QED BY <2>1, <2>2
<1> QED BY <1>1, <1>2, <1>3 DEF Next, NobodyClaims

(* Whichever branch asked to abort, however deep, and however many others  *)
(* run beside it: no frame enters a node any more (runtime.py, the abort   *)
(* flag at the head of the loop).                                          *)
THEOREM NothingStarts == Spec => NothingStartsAfterAbort
<1>1. TInv /\ [Next]_vars => [aborted => NobodyClaims]_vars
  BY NobodyStarts
<1> QED BY <1>1, TreeHolds, PTL DEF Spec, NothingStartsAfterAbort, NobodyClaims

-----------------------------------------------------------------------------
(* The graph                                                               *)

(* Where a walk may come to from n: whatever set of nodes holds n and the  *)
(* targets of its members' edges holds t.                                  *)
Onto(S) == \A m \in S : \A l \in DOMAIN Edges[m] : Edges[m][l] \in S
Reaches(n, t) == \A S \in SUBSET Nodes : n \in S /\ Onto(S) => t \in S

LEMMA ReachesSelf == ASSUME NEW n PROVE Reaches(n, n)
  BY DEF Reaches

LEMMA ReachesOn ==
  ASSUME NEW n, NEW m, NEW t, Reaches(n, m), Reaches(m, t) PROVE Reaches(n, t)
  BY DEF Reaches

LEMMA ReachesEdge ==
  ASSUME NEW n, NEW m, Reaches(n, m), NEW l \in DOMAIN Edges[m] PROVE Reaches(n, Edges[m][l])
  BY DEF Reaches, Onto

LEMMA ReachesNext ==
  ASSUME NEW n, NEW m, Reaches(n, m), NEW l, Next_(m, l) # None PROVE Reaches(n, Next_(m, l))
  BY ReachesEdge DEF Next_

(* A walk along the edges does not come back to a node it has left.        *)
LEMMA NoWayBack ==
  ASSUME graph \in Graphs, NEW n \in Nodes, NEW t \in Nodes, Reaches(n, t), Reaches(t, n)
  PROVE  n = t
<1> SUFFICES ASSUME n # t PROVE FALSE
  OBVIOUS
<1> DEFINE C == {m \in Nodes : Reaches(n, m) /\ Reaches(m, n)}
<1>1. n \in C /\ t \in C
  BY ReachesSelf
<1>2. C \in SUBSET graph.nodes /\ C # {}
  BY <1>1 DEF Nodes
<1>3. Acyclic(graph)
  BY GraphAssumption
<1> HIDE DEF C
<1>4. PICK m \in C : \A l \in DOMAIN graph.edges[m] : graph.edges[m][l] \notin C \ {m}
  BY <1>2, <1>3 DEF Acyclic
<1>5. \A l \in DOMAIN Edges[m] : Edges[m][l] \notin C \ {m}
  BY <1>4 DEF Edges
<1>6. PICK x \in C : x # m
  BY <1>1
<1>7. m \in Nodes /\ Reaches(n, m) /\ Reaches(m, n) /\ x \in Nodes /\ Reaches(n, x) /\ Reaches(x, n)
  BY DEF C
<1>8. Reaches(m, x)
  BY <1>7, ReachesOn
<1>9. \A y \in Nodes : \A l \in DOMAIN Edges[y] : Edges[y][l] \in Nodes
  BY GraphAssumption DEF Nodes, Edges
<1> DEFINE S == {m} \cup {y \in Nodes : \E l \in DOMAIN Edges[m] : Edges[m][l] # m /\ Reaches(Edges[m][l], y)}
<1>10. Onto(S)
  <2>1. ASSUME NEW l \in DOMAIN Edges[m] PROVE Edges[m][l] \in S
    BY <1>7, <1>9, ReachesSelf
  <2>2. ASSUME NEW y \in Nodes, NEW k \in DOMAIN Edges[m], Edges[m][k] # m, Reaches(Edges[m][k], y),
               NEW l \in DOMAIN Edges[y]
        PROVE  Edges[y][l] \in S
    <3>1. Reaches(Edges[m][k], Edges[y][l])
      BY <2>2, ReachesEdge
    <3> QED BY <1>9, <2>2, <3>1
  <2> QED BY <2>1, <2>2 DEF Onto
<1>11. S \in SUBSET Nodes /\ m \in S
  BY <1>7
<1>12. x \in S
  <2> HIDE DEF S
  <2> QED BY <1>8, <1>10, <1>11 DEF Reaches
<1>13. PICK l \in DOMAIN Edges[m] : Edges[m][l] # m /\ Reaches(Edges[m][l], x)
  BY <1>6, <1>12
<1>14. Edges[m][l] \in Nodes /\ Reaches(Edges[m][l], n) /\ Reaches(n, Edges[m][l])
  BY <1>7, <1>9, <1>13, ReachesOn, ReachesEdge
<1> QED BY <1>5, <1>13, <1>14 DEF C

-----------------------------------------------------------------------------
(* Keys                                                                    *)

Key(n, k, v) == <<n, VisitKey(k, v)>>
Times == Nat \ {0}

LEMMA BaseOfKey == ASSUME NEW k, Named(k), NEW v PROVE Base(VisitKey(k, v)) = k
<1> DEFINE x == <<"visit", v>>  g == Append(k, x)
<1>1. Base(k) = k
  BY DEF Base, Named
<1>2. Base(g) = k
  <2>1. x[1] = "visit"
    OBVIOUS
  <2>2. IsSequence(k)
    BY DEF Named
  <2> HIDE DEF x
  <2>3. /\ Len(k) \in Nat /\ Len(g) = Len(k) + 1 /\ g[Len(k) + 1] = x /\ SubSeq(g, 1, Len(k)) = k
        /\ IsSequence(g)
    BY <2>2, AppendInitials
  <2> HIDE DEF g
  <2>4. Len(g) - 1 = Len(k) /\ g[Len(g)] = x
    BY <2>3
  <2>5. g # <<>>
    BY <2>3
  <2> QED BY <2>1, <2>3, <2>4, <2>5 DEF Base
<1> QED BY <1>1, <1>2 DEF VisitKey

LEMMA VisitsDiffer ==
  ASSUME NEW k, Named(k), NEW u \in Times, NEW w \in Times, VisitKey(k, u) = VisitKey(k, w)
  PROVE  u = w
<1>1. IsSequence(k)
  BY DEF Named
<1>2. ASSUME NEW v \in Times PROVE LET g == Append(k, <<"visit", v>>) IN
        Len(g) = Len(k) + 1 /\ Len(k) \in Nat /\ g[Len(k) + 1][2] = v
  <2> DEFINE x == <<"visit", v>>
  <2>1. x[2] = v
    OBVIOUS
  <2> HIDE DEF x
  <2>2. Len(Append(k, x)) = Len(k) + 1 /\ Len(k) \in Nat /\ Append(k, x)[Len(k) + 1] = x
    BY <1>1, AppendInitials
  <2> QED BY <2>1, <2>2 DEF x
<1>3. CASE u > 1 /\ w > 1
  <2>1. Append(k, <<"visit", u>>) = Append(k, <<"visit", w>>)
    BY <1>3 DEF VisitKey
  <2>2. Append(k, <<"visit", u>>)[Len(k) + 1][2] = u
    BY <1>2
  <2>3. Append(k, <<"visit", w>>)[Len(k) + 1][2] = w
    BY <1>2
  <2> QED BY <2>1, <2>2, <2>3
<1>4. CASE u > 1 /\ ~(w > 1)
  <2>1. Append(k, <<"visit", u>>) = k
    BY <1>4 DEF VisitKey
  <2>2. Len(Append(k, <<"visit", u>>)) = Len(k) + 1 /\ Len(k) \in Nat
    BY <1>2
  <2>3. Len(k) = Len(k) + 1
    BY <2>1, <2>2
  <2> QED BY <2>2, <2>3
<1>5. CASE ~(u > 1) /\ w > 1
  <2>1. Append(k, <<"visit", w>>) = k
    BY <1>5 DEF VisitKey
  <2>2. Len(Append(k, <<"visit", w>>)) = Len(k) + 1 /\ Len(k) \in Nat
    BY <1>2
  <2>3. Len(k) = Len(k) + 1
    BY <2>1, <2>2
  <2> QED BY <2>2, <2>3
<1>6. CASE ~(u > 1) /\ ~(w > 1)
  BY <1>6 DEF Times
<1> QED BY <1>3, <1>4, <1>5, <1>6

-----------------------------------------------------------------------------
(* Where a result leads                                                    *)

(* A position of a walk is a node and the name of the frame that is, or is *)
(* to be, at it.  A result r of n in frame k leads to these positions.     *)
Targets(n, k, r) ==
  IF r = "stop" THEN {<<Stop[n].target, k>>}
  ELSE IF Kind[n] = "fork" THEN {<<Edges[n][l], Branch(k, l)>> : l \in DOMAIN Edges[n]}
  ELSE IF Kind[n] = "fanout"
       THEN {<<Next_(n, "after"), k>>} \cup
            {<<Edges[n]["body"], Append(k, <<"item", Items[n][j]>>)>> : j \in 1..Len(Items[n])}
  ELSE {<<Next_(n, r), k>>}

Leads(s) == Targets(s[1], Base(s[2]), rows[s].res)
Place(s) == <<s[1], Base(s[2])>>

(* A branch that rests at a join passes its fork on to what follows it.    *)
AtJoin(p) == p[1] # None /\ Kind[p[1]] = "join" /\ IsBranch(p[2])
Beyond(p) == <<Next_(p[1], "next"), SubSeq(p[2], 1, Len(p[2]) - 1)>>

(* S leads nowhere but to S, by what is committed.                         *)
In(p, S) == p[1] = None \/ p \in S
JoinsIn(S) == \A p \in S : AtJoin(p) => In(Beyond(p), S)
RowsIn(S) == \A s \in DOMAIN rows : rows[s].done /\ Place(s) \in S => \A p \in Leads(s) : In(p, S)

(* What has to be visited before the run may complete.                     *)
Wanted(p) == \/ p = <<Entry, <<>>>>
             \/ \E s \in DOMAIN rows : rows[s].done /\ \E q \in Leads(s) : p = q \/ (AtJoin(q) /\ p = Beyond(q))
Owed(p) == Wanted(p) /\ ~Visited(p[1], p[2])
Covers(S) == \A p : Owed(p) => p \in S

(* The positions a frame f, when it is c, is at or is to take up.          *)
Holds(f, c) ==
  IF c.pc = "items"
  THEN {<<Next_(c.at, "after"), f>>} \cup
       {<<Edges[c.at]["body"], Append(f, <<"item", Items[c.at][j]>>)>> : j \in (c.item + 1)..Len(Items[c.at])}
  ELSE IF c.pc = "branches" THEN {}
  ELSE IF c.pc = "ret" THEN {<<c.stopped, f>>}
  ELSE {<<c.at, f>>}

(* A frame that was told to stop still finishes the step it is inside.     *)
Inside == {"claim", "exec", "commit"}
Counts(f, c) == ~StopAsked(f) \/ c.pc \in Inside

LiveIn(S) == \A f \in DOMAIN frames : \A p \in Holds(f, frames[f]) : In(p, S)
CountedIn(S) == \A f \in DOMAIN frames :
  Counts(f, frames[f]) => \A p \in Holds(f, frames[f]) : In(p, S)

Home == <<IF cur = None THEN Entry ELSE cur, <<>>>>

(* Ahead of a walk that nobody asked to abort is all that is owed: a walk  *)
(* that was never taken up again is at it; any other will come to it over  *)
(* what is committed.                                                      *)
Ahead == frames # <<>> /\ ~aborted =>
  \A S : JoinsIn(S) /\ (starts = 1 \/ (~WentBack /\ RowsIn(S))) /\ LiveIn(S) => Covers(S)

(* Whoever takes the run up again will come to all that is owed, and to    *)
(* all that the walk of now is at.                                         *)
Anew == ~WentBack /\ status # "completed" =>
  \A S : JoinsIn(S) /\ RowsIn(S) /\ Home \in S => Covers(S) /\ CountedIn(S)

(* The row names the node the top chain is inside.                         *)
Touched == <<>> \in DOMAIN frames /\ frames[<<>>].pc # "enter" => cur = frames[<<>>].at

Paid == status = "completed" /\ ~aborted /\ (starts = 1 \/ ~WentBack) => \A p : ~Owed(p)

-----------------------------------------------------------------------------
(* What makes that inductive                                               *)

RunFits ==
  /\ graph \in Graphs /\ starts \in Nat /\ cur \in Nodes \cup {None}
  /\ status \in {"pending", "running", "completed", "failed"}
  /\ frames # <<>> => status = "running" /\ starts > 0
  /\ asked # {} => aborted
  /\ starts = 0 => rows = <<>> /\ cur = None

(* A row is one visit of one frame to one node.                            *)
RowsFit == \A s \in DOMAIN rows :
  /\ s[1] \in Nodes /\ \E k : Named(k) /\ \E v \in Times : s = Key(s[1], k, v)
  /\ rows[s].done => Kind[s[1]] # "join" /\ rows[s].res \in Outcomes(s[1])
  /\ ~rows[s].done => rows[s].res = "next"

(* The u-th visit of k to n led back to n.                                 *)
Repeats(n, k, u) == LET s == Key(n, k, u) IN
  s \in DOMAIN rows /\ rows[s].done /\ <<n, k>> \in Targets(n, k, rows[s].res)

(* Nodes are visited again by their own edges only, and without a gap.     *)
Ordered == ~WentBack => \A n \in Nodes : \A k : \A u, w \in Times :
  Named(k) /\ Key(n, k, w) \in DOMAIN rows /\ u < w => Repeats(n, k, u)

Forward(c) == c.at # None => \A m \in Nodes : c.visits[m] >= 1 => Reaches(m, c.at)
Again(f, c) == c.pc \in Inside \cup {"enter"} /\ c.at # None =>
  \A u \in Times : u <= c.visits[c.at] /\ (c.pc # "enter" => u # c.visits[c.at]) => Repeats(c.at, f, u)

Routed(s) == s \in DOMAIN rows /\ rows[s].done /\ rows[s].res # "stop"

(* A fan-out that has a body.                                              *)
Loops(n) == Kind[n] = "fanout" /\ "body" \in DOMAIN Edges[n]

FrameFits(f, c) ==
  /\ c.visits \in [Nodes -> Nat] /\ c.at \in Nodes \cup {None}
  /\ c.pc \in Inside \cup {"items", "branches"} => c.at # None /\ c.visits[c.at] \in Times
  /\ c.pc = "commit" => Kind[c.at] # "join" /\ c.res \in Outcomes(c.at)
  /\ c.pc = "items" => /\ Loops(c.at) /\ c.item \in Times
                       /\ Routed(Key(c.at, f, c.visits[c.at]))
  /\ c.pc = "branches" => Kind[c.at] = "fork"
  /\ c.stopped # None => c.stopped \in Nodes /\ (IsBranch(f) \/ StopAsked(f))
  /\ ~WentBack => Forward(c) /\ (Counts(f, c) => Again(f, c))

Fits == \A f \in DOMAIN frames : FrameFits(f, frames[f])

(* A frame's own frames are at nodes that its node leads to.               *)
Below == ~WentBack => \A f \in DOMAIN frames : \A b \in Awaited(f, frames[f]) :
  \A t \in {frames[b].at, frames[b].stopped} \ {None} : Reaches(frames[f].at, t)

FInv == TInv /\ RunFits /\ RowsFit /\ Ordered /\ Fits /\ Below

-----------------------------------------------------------------------------
(* What a step keeps                                                       *)

LEMMA GraphStays ==
  ASSUME UNCHANGED graph
  PROVE  /\ Nodes' = Nodes /\ Edges' = Edges /\ Kind' = Kind /\ Items' = Items /\ Stop' = Stop
         /\ Entry' = Entry /\ \A n, l : Next_(n, l)' = Next_(n, l)
  BY DEF Nodes, Edges, Kind, Items, Stop, Entry, Next_

LEMMA ReachesStays == ASSUME UNCHANGED graph PROVE \A n, t : Reaches(n, t)' = Reaches(n, t)
  BY GraphStays DEF Reaches, Onto

LEMMA TargetsStay ==
  ASSUME UNCHANGED graph
  PROVE  /\ \A n, k, r : Targets(n, k, r)' = Targets(n, k, r)
         /\ \A f, c : Holds(f, c)' = Holds(f, c)
         /\ \A f, c : Awaited(f, c)' = Awaited(f, c)
         /\ \A p : AtJoin(p)' = AtJoin(p) /\ Beyond(p)' = Beyond(p)
         /\ \A S : JoinsIn(S)' = JoinsIn(S)
<1>1. ASSUME NEW n, NEW k, NEW r PROVE Targets(n, k, r)' = Targets(n, k, r)
  <2>1. Stop'[n] = Stop[n] /\ Kind' = Kind /\ Next_(n, r)' = Next_(n, r) /\ Next_(n, "after")' = Next_(n, "after")
        /\ Edges' = Edges /\ Items' = Items
    BY GraphStays
  <2>2. {<<Edges'[n][l], Branch(k, l)>> : l \in DOMAIN Edges'[n]}
        = {<<Edges[n][l], Branch(k, l)>> : l \in DOMAIN Edges[n]}
    BY <2>1
  <2>3. {<<Edges'[n]["body"], Append(k, <<"item", Items'[n][j]>>)>> : j \in 1..Len(Items'[n])}
        = {<<Edges[n]["body"], Append(k, <<"item", Items[n][j]>>)>> : j \in 1..Len(Items[n])}
    BY <2>1
  <2> QED BY <2>1, <2>2, <2>3 DEF Targets
<1>2. \A f, c : Holds(f, c)' = Holds(f, c)
  BY ZenonT(60), GraphStays DEF Holds
<1>3. \A p : AtJoin(p)' = AtJoin(p) /\ Beyond(p)' = Beyond(p)
  BY GraphStays DEF AtJoin, Beyond
<1>4. \A f, c : Awaited(f, c)' = Awaited(f, c)
  BY GraphStays DEF Awaited, Branch
<1> QED BY <1>1, <1>2, <1>3, <1>4 DEF JoinsIn

LEMMA BackStays ==
  ASSUME Settled, RowsFit, ~WentBack' PROVE ~WentBack
<1> SUFFICES ASSUME WentBack PROVE WentBack'
  OBVIOUS
<1>1. PICK s \in DOMAIN rows : rows[s].res = "stop" /\ Stop[s[1]].action = "goto"
  BY DEF WentBack
<1>2. rows[s].done
  BY <1>1 DEF RowsFit
<1>3. s \in DOMAIN rows' /\ rows'[s] = rows[s]
  BY <1>2 DEF Settled, RowsGrow
<1> QED BY <1>1, <1>3, GraphStays DEF WentBack, Settled

LEMMA RepeatsStays ==
  ASSUME Settled, NEW n, NEW k, NEW u, Repeats(n, k, u) PROVE Repeats(n, k, u)'
<1> DEFINE s == Key(n, k, u)
<1>1. s \in DOMAIN rows /\ rows[s].done /\ <<n, k>> \in Targets(n, k, rows[s].res)
  BY DEF Repeats
<1> HIDE DEF s
<1>2. s \in DOMAIN rows' /\ rows'[s] = rows[s]
  BY <1>1 DEF Settled, RowsGrow
<1>3. s \in DOMAIN rows' /\ rows'[s].done /\ <<n, k>> \in Targets(n, k, rows[s].res)'
  BY <1>1, <1>2, TargetsStay DEF Settled
<1> QED BY <1>3 DEF Repeats, s

LEMMA RoutedStays == ASSUME Settled, NEW s, Routed(s) PROVE Routed(s)'
  BY DEF Routed, Settled, RowsGrow

LEMMA AgainStays ==
  ASSUME Settled, NEW f, NEW c, Again(f, c) PROVE Again(f, c)'
  BY RepeatsStays DEF Again

LEMMA FitStays ==
  ASSUME Settled, RowsFit, asked \subseteq asked', NEW f, NEW c, FrameFits(f, c) PROVE FrameFits(f, c)'
<1>1. StopAsked(f) => StopAsked(f)'
  BY DEF StopAsked
<1>2. Nodes' = Nodes /\ Kind' = Kind /\ UNCHANGED graph
  BY GraphStays DEF Settled
<1>3. Outcomes(c.at)' = Outcomes(c.at) /\ Loops(c.at)' = Loops(c.at)
  BY <1>2, GraphStays DEF Outcomes, Loops
<1>4. Forward(c) => Forward(c)'
  BY <1>2, ReachesStays DEF Forward
<1>5. Counts(f, c)' => Counts(f, c)
  BY <1>1 DEF Counts
<1> QED BY <1>1, <1>2, <1>3, <1>4, <1>5, BackStays, RoutedStays, AgainStays DEF FrameFits

-----------------------------------------------------------------------------
(* What a step does to the frames                                          *)

(* f takes up item i of its fan-out, or what comes after it.               *)
LeavesLoop(f, n, i) ==
  /\ i > Len(Items[n]) \/ StopAsked(f)
  /\ frames'[f].pc = "enter" /\ frames'[f].at = Next_(n, "after")
  /\ Awaited(f, frames'[f]) = {}
TakesItem(f, n, i) == LET b == Append(f, <<"item", Items[n][i]>>) IN
  /\ ~(i > Len(Items[n]))
  /\ frames'[f].pc = "items" /\ frames'[f].at = n /\ frames'[f].item = i
  /\ Awaited(f, frames'[f]) = {b}
  /\ \E known : frames'[b] = Frame(Edges[n]["body"], known)

SameVisits(f, c) == frames'[f].visits = c.visits /\ frames'[f].stopped = c.stopped

LEMMA NextItemIs ==
  ASSUME Shapes, NEW fr, NEW f \in DOMAIN frames, DOMAIN fr = DOMAIN frames \ Under(f),
         \A g \in DOMAIN fr \ {f} : fr[g] = frames[g],
         NEW c, DOMAIN c = FrameFields, NEW i, frames' = NextItem(fr, f, c, i)
  PROVE  /\ Rebuilds(f) /\ SameVisits(f, c)
         /\ LeavesLoop(f, c.at, i) \/ TakesItem(f, c.at, i)
<1>0. PICK it : it = Items[c.at][i]
  OBVIOUS
<1> DEFINE n == c.at  b == Append(f, <<"item", it>>)
           new == Frame(Edges[n]["body"], c.known)
           out == [c EXCEPT !.at = Next_(n, "after"), !.pc = "enter"]
           stay == [c EXCEPT !.pc = "items", !.item = i]
           last == i > Len(Items[n]) \/ StopAsked(f)
<1>1. /\ out.pc = "enter" /\ out.at = Next_(n, "after") /\ out.visits = c.visits /\ out.stopped = c.stopped
      /\ stay.pc = "items" /\ stay.item = i /\ stay.at = n
      /\ stay.visits = c.visits /\ stay.stopped = c.stopped
  BY DEF FrameFields
<1>2. new.pc = "enter"
  BY DEF Frame
<1>3. IsSequence(f) /\ f \notin Under(f)
  BY DEF Shapes, Named, Under
<1>4. IF last THEN frames' = [fr EXCEPT ![f] = out] ELSE frames' = Put([fr EXCEPT ![f] = stay], b, new)
  BY <1>0 DEF NextItem
<1>5. Awaited(f, stay) = {b}
  <2>1. Awaited(f, stay) = {Append(f, <<"item", Items[stay.at][stay.item]>>)}
    BY <1>1 DEF Awaited
  <2> QED BY <1>0, <1>1, <2>1
<1>6. Awaited(f, out) = {}
  BY <1>1 DEF Awaited
<1>7. b # f /\ Prefix(f, b)
  BY <1>3, <1>5, AwaitedExtends
<1> HIDE DEF out, stay, last
<1>8. CASE last
  <2>1. /\ DOMAIN frames' = DOMAIN frames \ Under(f) /\ frames'[f] = out
        /\ \A g \in DOMAIN frames \ (Under(f) \cup {f}) : frames'[g] = frames[g]
    BY <1>3, <1>4, <1>8
  <2>2. Awaited(f, frames'[f]) = {}
    BY <1>6, <2>1
  <2>3. Rebuilds(f)
    BY <1>3, <2>1, <2>2 DEF Rebuilds
  <2>4. LeavesLoop(f, n, i)
    BY <1>1, <1>8, <2>1, <2>2 DEF LeavesLoop, last
  <2> QED BY <1>1, <2>1, <2>3, <2>4 DEF SameVisits
<1>9. CASE ~last
  <2> HIDE DEF new
  <2>1. /\ DOMAIN frames' = (DOMAIN frames \ Under(f)) \cup {b} /\ frames'[f] = stay /\ frames'[b] = new
        /\ \A g \in DOMAIN frames \ (Under(f) \cup {f, b}) : frames'[g] = frames[g]
    <3> HIDE DEF b
    <3> QED BY <1>3, <1>4, <1>7, <1>9 DEF Put
  <2>2. Awaited(f, frames'[f]) = {b}
    BY <1>5, <2>1
  <2>3. b \in DOMAIN frames => b \in Under(f)
    BY <1>7 DEF Under
  <2>4. f \in DOMAIN frames'
    BY <1>3, <2>1
  <2>5. Rebuilds(f)
    <3> HIDE DEF b
    <3> QED BY <1>2, <2>1, <2>2, <2>3, <2>4 DEF Rebuilds
  <2>6. b = Append(f, <<"item", Items[n][i]>>)
    BY <1>0
  <2>7. \E known : frames'[b] = Frame(Edges[n]["body"], known)
    BY <2>1 DEF new
  <2> HIDE DEF b
  <2>8. TakesItem(f, n, i)
    BY <1>1, <1>9, <2>1, <2>2, <2>6, <2>7 DEF TakesItem, last
  <2> QED BY <1>1, <2>1, <2>5, <2>8 DEF SameVisits
<1> QED BY <1>8, <1>9

StartsAll(f, n) ==
  /\ frames'[f].pc = "branches" /\ frames'[f].at = n
  /\ Awaited(f, frames'[f]) = {Branch(f, l) : l \in DOMAIN Edges[n]}
  /\ \A l \in DOMAIN Edges[n] : \E known : frames'[Branch(f, l)] = Frame(Edges[n][l], known)

LEMMA BranchesAre ==
  ASSUME Shapes, NEW f \in DOMAIN frames, Under(f) = {}, NEW c, DOMAIN c = FrameFields, StartBranches(f, c)
  PROVE  Rebuilds(f) /\ SameVisits(f, c) /\ StartsAll(f, c.at)
<1> DEFINE n == c.at
           B == {Branch(f, l) : l \in DOMAIN Edges[n]}
           stay == [c EXCEPT !.pc = "branches"]
           New(g) == Frame(Edges[n][g[Len(g)][2]], c.known)
<1>1. stay.pc = "branches" /\ stay.at = n /\ stay.visits = c.visits /\ stay.stopped = c.stopped
  BY DEF FrameFields
<1>2. \A g : New(g).pc = "enter"
  BY DEF Frame
<1>3. IsSequence(f)
  BY DEF Shapes, Named
<1>4. Awaited(f, stay) = B
  BY <1>1 DEF Awaited
<1>5. \A g \in B : g # f /\ g \notin DOMAIN frames
  <2>1. \A g \in B : g # f /\ Prefix(f, g)
    BY <1>3, <1>4, AwaitedExtends
  <2> QED BY <2>1 DEF Under
<1>6. /\ DOMAIN frames' = DOMAIN frames \cup B
      /\ \A g \in DOMAIN frames' :
           frames'[g] = IF g = f THEN stay ELSE IF g \in DOMAIN frames THEN frames[g] ELSE New(g)
  BY DEF StartBranches
<1> HIDE DEF stay
<1>7. /\ frames'[f] = stay /\ \A g \in DOMAIN frames \ {f} : frames'[g] = frames[g]
      /\ \A g \in B : frames'[g] = New(g)
  BY <1>5, <1>6
<1>8. ASSUME NEW l \in DOMAIN Edges[n] PROVE \E known : frames'[Branch(f, l)] = Frame(Edges[n][l], known)
  <2> DEFINE x == <<"fork", l>>  b == Append(f, x)
  <2>1. x[2] = l /\ b = Branch(f, l) /\ b \in B
    BY DEF Branch
  <2> HIDE DEF x
  <2>2. Len(f) \in Nat /\ Len(b) = Len(f) + 1 /\ b[Len(f) + 1] = x
    BY <1>3, AppendInitials
  <2>3. b[Len(b)] = x
    BY <2>2
  <2> HIDE DEF b
  <2>4. frames'[b] = Frame(Edges[n][l], c.known)
    BY <1>7, <2>1, <2>3
  <2> QED BY <2>1, <2>4
<1> HIDE DEF New
<1>9. Awaited(f, frames'[f]) = B
  BY <1>4, <1>7
<1>10. Rebuilds(f)
  <2> HIDE DEF B
  <2> QED BY <1>2, <1>6, <1>7, <1>9 DEF Rebuilds
<1> QED BY <1>1, <1>7, <1>8, <1>9, <1>10 DEF StartsAll, SameVisits

(* Where f comes to with the result res, unless it aborts.                 *)
GoesOn(f, n, res) ==
  \/ /\ frames'[f].pc = "enter" /\ Awaited(f, frames'[f]) = {}
     /\ \/ res = "stop" /\ Stop[n].action # "abort" /\ frames'[f].at = Stop[n].target
        \/ res # "stop" /\ Kind[n] \notin {"fork", "fanout"} /\ frames'[f].at = Next_(n, res)
  \/ res # "stop" /\ Kind[n] = "fork" /\ StartsAll(f, n)
  \/ res # "stop" /\ Loops(n) /\ (LeavesLoop(f, n, 1) \/ TakesItem(f, n, 1))

LEMMA TurnIs ==
  ASSUME Shapes, NEW f \in DOMAIN frames, Under(f) = {}, NEW c, c.pc \notin {"items", "branches"}, SetFrame(f, c)
  PROVE  Rebuilds(f) /\ frames'[f] = c /\ Awaited(f, frames'[f]) = {}
<1>1. /\ DOMAIN frames' = DOMAIN frames /\ frames'[f] = c
      /\ \A g \in DOMAIN frames \ {f} : frames'[g] = frames[g]
  BY DEF SetFrame
<1>2. Awaited(f, frames'[f]) = {}
  BY <1>1 DEF Awaited
<1> QED BY <1>1, <1>2 DEF Rebuilds

LEMMA RouteIs ==
  ASSUME Shapes, NEW f \in DOMAIN frames, Under(f) = {}, NEW res, Route(f, res)
  PROVE  \/ res = "stop" /\ Stop[frames[f].at].action = "abort" /\ Abort(f)
         \/ Fail(f, frames[f].at)
         \/ /\ UNCHANGED <<status, cur, asked, aborted>>
            /\ Rebuilds(f) /\ SameVisits(f, frames[f]) /\ GoesOn(f, frames[f].at, res)
<1>0. PICK n : n = frames[f].at
  OBVIOUS
<1> DEFINE c == [frames[f] EXCEPT !.known = @ \cup {n}, !.last = TRUE, !.res = "next", !.replay = FALSE]
<1>1. /\ DOMAIN c = FrameFields /\ c.at = n
      /\ c.visits = frames[f].visits /\ c.stopped = frames[f].stopped
  BY <1>0 DEF Shapes, FrameFields
<1>2. CASE res = "stop" /\ Stop[n].action = "abort"
  BY <1>0, <1>2 DEF Route
<1>3. CASE Fail(f, n)
  BY <1>0, <1>3
<1>4. CASE ~(res = "stop" /\ Stop[n].action = "abort") /\ ~Fail(f, n)
  <2>1. /\ UNCHANGED <<status, cur, asked, aborted>>
        /\ \/ res = "stop" /\ Stop[n].action # "abort" /\ Onward(f, c, Stop[n].target)
           \/ res # "stop" /\ Kind[n] = "fork" /\ StartBranches(f, c)
           \/ res # "stop" /\ Loops(n) /\ frames' = NextItem(frames, f, c, 1)
           \/ res # "stop" /\ Kind[n] \notin {"fork", "fanout"} /\ Onward(f, c, Next_(n, res))
    BY <1>0, <1>4 DEF Route, Loops
  <2> HIDE DEF c
  <2>2. ASSUME NEW t, Onward(f, c, t)
        PROVE  /\ Rebuilds(f) /\ SameVisits(f, frames[f])
               /\ frames'[f].pc = "enter" /\ frames'[f].at = t /\ Awaited(f, frames'[f]) = {}
    <3> DEFINE d == [c EXCEPT !.at = t, !.pc = "enter"]
    <3>1. d.pc = "enter" /\ d.at = t /\ d.visits = c.visits /\ d.stopped = c.stopped
      BY <1>1 DEF FrameFields
    <3>2. SetFrame(f, d)
      BY <2>2 DEF Onward
    <3> HIDE DEF d
    <3>3. Rebuilds(f) /\ frames'[f] = d /\ Awaited(f, frames'[f]) = {}
      BY <3>1, <3>2, TurnIs
    <3> QED BY <1>1, <3>1, <3>3 DEF SameVisits
  <2>3. CASE res # "stop" /\ Kind[n] = "fork" /\ StartBranches(f, c)
    BY <1>0, <1>1, <2>1, <2>3, BranchesAre DEF GoesOn, SameVisits
  <2>4. CASE res # "stop" /\ Loops(n) /\ frames' = NextItem(frames, f, c, 1)
    <3>1. Rebuilds(f) /\ SameVisits(f, c) /\ (LeavesLoop(f, n, 1) \/ TakesItem(f, n, 1))
      BY <1>1, <2>4, NextItemIs
    <3> QED BY <1>0, <1>1, <2>1, <2>4, <3>1 DEF GoesOn, SameVisits
  <2> QED BY <1>0, <2>1, <2>2, <2>3, <2>4 DEF GoesOn
<1> QED BY <1>2, <1>3, <1>4

(* An abort in a branch: the branch rests, what it encloses is gone.       *)
Rested(b) ==
  /\ Rebuilds(b) /\ Awaited(b, frames'[b]) = {} /\ aborted' /\ StopAsked(b)' /\ asked \subseteq asked'
  /\ frames'[b].pc = "ret" /\ frames'[b].at = frames[b].at /\ SameVisits(b, frames[b])
  /\ UNCHANGED <<status, cur>>

LEMMA AbortIs ==
  ASSUME TInv, NEW f \in DOMAIN frames, Abort(f)
  PROVE  \/ Finish /\ aborted'
         \/ \E b \in DOMAIN frames : Rested(b)
<1>1. CASE ForkParts(f) = {}
  BY <1>1 DEF Abort
<1>2. CASE ForkParts(f) # {}
  <2> DEFINE k == Greatest(ForkParts(f))  b == SubSeq(f, 1, k)  w == Without(Under(b))
             c == [frames[b] EXCEPT !.pc = "ret", !.aborted = TRUE]
  <2>1. Shapes /\ Tree /\ Named(f) /\ IsSequence(f) /\ Len(f) \in Nat
    <3>1. Shapes /\ Tree /\ Named(f) /\ IsSequence(f)
      BY DEF TInv, IInv, Shapes, Named
    <3> QED BY <3>1, Initials
  <2>2. k \in ForkParts(f) /\ k \in 1..Len(f)
    BY <1>2, <2>1, Parts, GreatestIsOne
  <2>3. k \in 0..Len(f)
    BY <2>1, <2>2
  <2>4. b \in DOMAIN frames
    BY <2>1, <2>3, InitialIsLive
  <2>5. /\ frames' = [w EXCEPT ![b].pc = "ret", ![b].aborted = TRUE] /\ asked' = asked \cup {BoxOf(f)}
        /\ aborted' /\ UNCHANGED <<status, cur>>
    BY <1>2 DEF Abort
  <2>6. DOMAIN w = DOMAIN frames \ Under(b) /\ \A g \in DOMAIN w : w[g] = frames[g]
    BY DEF Without
  <2>7. b \notin Under(b)
    BY DEF Under
  <2>8. k \in ForkParts(b)
    BY <2>1, <2>2, <2>3, PartsOfInitial
  <2>9. ForkParts(b) # {} /\ BoxOf(f) = BoxOf(b)
    BY <2>1, <2>3, <2>8, BoxOfInitial
  <2> HIDE DEF k, b, w
  <2>10. /\ DOMAIN frames' = DOMAIN frames \ Under(b) /\ frames'[b] = c
         /\ \A g \in DOMAIN frames' \ {b} : frames'[g] = frames[g]
    BY <2>4, <2>5, <2>6, <2>7
  <2>11. /\ c.pc = "ret" /\ c.at = frames[b].at /\ c.visits = frames[b].visits
         /\ c.stopped = frames[b].stopped
    BY <2>1, <2>4 DEF Shapes, FrameFields
  <2> HIDE DEF c
  <2>12. Awaited(b, frames'[b]) = {}
    BY <2>10, <2>11 DEF Awaited
  <2>13. Rebuilds(b)
    BY <2>4, <2>7, <2>10, <2>12 DEF Rebuilds
  <2>14. StopAsked(b)' /\ asked \subseteq asked'
    BY <2>5, <2>9 DEF StopAsked
  <2>15. Rested(b)
    BY <2>5, <2>10, <2>11, <2>12, <2>13, <2>14 DEF Rested, SameVisits
  <2> QED BY <2>4, <2>15
<1> QED BY <1>1, <1>2

-----------------------------------------------------------------------------
(* The frames after a step fit                                             *)

LEMMA Apart ==
  ASSUME Shapes, NEW f \in DOMAIN frames, NEW g \in DOMAIN frames, g \notin Under(f), g # f,
         NEW c, NEW x \in Awaited(g, c)
  PROVE  x \notin Under(f) /\ \A d : x \notin Awaited(f, d)
<1>1. IsSequence(f) /\ IsSequence(g)
  BY DEF Shapes, Named
<1>2. Len(f) \in Nat /\ Len(g) \in Nat
  BY <1>1, Initials
<1>3. /\ Len(x) = Len(g) + 1 /\ SubSeq(x, 1, Len(g)) = g /\ SubSeq(x, 1, Len(x)) = x
      /\ \A i \in 0..Len(g) : SubSeq(x, 1, i) = SubSeq(g, 1, i)
  BY <1>1, AwaitedExtends
<1>4. ASSUME Prefix(f, x), f # x PROVE FALSE
  <2>1. Len(f) <= Len(x) /\ SubSeq(x, 1, Len(f)) = f
    BY <1>4 DEF Prefix
  <2>2. Len(f) # Len(x)
    BY <1>3, <1>4, <2>1
  <2>3. Len(f) \in 0..Len(g) /\ Len(f) <= Len(g)
    <3>1. Len(f) \in Nat /\ Len(g) \in Nat /\ Len(x) = Len(g) + 1 /\ Len(f) <= Len(x) /\ Len(f) # Len(x)
      BY <1>2, <1>3, <2>1, <2>2
    <3> QED BY <3>1
  <2>4. Prefix(f, g)
    BY <1>3, <2>1, <2>3 DEF Prefix
  <2> QED BY <2>4 DEF Under
<1>5. ASSUME NEW d, x \in Awaited(f, d) PROVE FALSE
  <2>1. Len(x) = Len(f) + 1 /\ SubSeq(x, 1, Len(f)) = f
    BY <1>1, <1>5, AwaitedExtends
  <2>2. Len(x) = Len(g) + 1
    BY <1>3
  <2>3. Len(f) = Len(g)
    BY <1>2, <2>1, <2>2
  <2> QED BY <1>3, <2>1, <2>3
<1> QED BY <1>4, <1>5 DEF Under

(* A frame that has just been started fits.                                *)
LEMMA FreshFits ==
  ASSUME NEW f, NEW m \in Nodes, NEW known
  PROVE  FrameFits(f, Frame(m, known))
<1> DEFINE c == Frame(m, known)
<1>1. c.pc = "enter" /\ c.at = m /\ c.visits = [x \in Nodes |-> 0] /\ c.stopped = None
  BY DEF Frame
<1> HIDE DEF c
<1>2. c.visits \in [Nodes -> Nat] /\ \A x \in Nodes : c.visits[x] = 0
  BY <1>1
<1>3. Forward(c)
  BY <1>2 DEF Forward
<1>4. Again(f, c)
  <2>1. c.pc = "enter" /\ c.visits[c.at] = 0
    BY <1>1, <1>2
  <2>2. \A u \in Times : ~(u <= 0)
    BY DEF Times
  <2>3. ASSUME NEW u \in Times, u <= c.visits[c.at] PROVE FALSE
    BY <2>1, <2>2, <2>3
  <2> QED BY <2>3 DEF Again
<1>5. FrameFits(f, c)
  BY <1>1, <1>2, <1>3, <1>4 DEF FrameFits, Inside
<1> QED BY <1>5 DEF c

(* Wherever f was, it is further on.                                       *)
Advances(f) == \A t \in {frames'[f].at, frames'[f].stopped} \ {None} :
  t = frames[f].stopped \/ (frames[f].at # None /\ Reaches(frames[f].at, t))
Starts(f) == \A b \in Awaited(f, frames'[f]) : \E m \in Nodes : \E known :
  frames'[b] = Frame(m, known) /\ Reaches(frames'[f].at, m)

LEMMA FitsKept ==
  ASSUME FInv, Settled, asked \subseteq asked', NEW f, Rebuilds(f), FrameFits(f, frames[f])', Starts(f)
  PROVE  Fits'
<1>1. /\ f \in DOMAIN frames
      /\ DOMAIN frames' = (DOMAIN frames \ Under(f)) \cup Awaited(f, frames'[f])
      /\ \A g \in DOMAIN frames \ (Under(f) \cup {f}) : frames'[g] = frames[g]
  BY DEF Rebuilds
<1>2. SUFFICES ASSUME NEW g \in DOMAIN frames' PROVE FrameFits(g, frames[g])'
  BY DEF Fits
<1>3. RowsFit /\ Fits
  BY DEF FInv
<1>4. PICK d : d = frames'[g]
  OBVIOUS
<1>5. CASE g \in Awaited(f, frames'[f])
  <2>1. FrameFits(g, d)
    BY <1>4, <1>5, FreshFits DEF Starts
  <2>2. FrameFits(g, d)'
    BY <1>3, <2>1, FitStays
  <2> QED BY <1>4, <2>2
<1>6. CASE g # f /\ g \notin Awaited(f, frames'[f])
  <2>1. g \in DOMAIN frames /\ d = frames[g]
    BY <1>1, <1>4, <1>6
  <2>2. FrameFits(g, d)
    BY <1>3, <2>1 DEF Fits
  <2>3. FrameFits(g, d)'
    BY <1>3, <2>2, FitStays
  <2> QED BY <1>4, <2>3
<1> QED BY <1>5, <1>6

LEMMA BelowKept ==
  ASSUME FInv, Settled, NEW f, Rebuilds(f), ~WentBack' => Advances(f), Starts(f)
  PROVE  Below'
<1>1. /\ f \in DOMAIN frames
      /\ DOMAIN frames' = (DOMAIN frames \ Under(f)) \cup Awaited(f, frames'[f])
      /\ \A g \in DOMAIN frames \ (Under(f) \cup {f}) : frames'[g] = frames[g]
      /\ \A g \in Awaited(f, frames'[f]) : frames'[g].pc = "enter"
  BY DEF Rebuilds
<1>2. SUFFICES ASSUME ~WentBack', NEW g \in DOMAIN frames', NEW b \in Awaited(g, frames'[g]),
                      NEW t \in {frames'[b].at, frames'[b].stopped} \ {None}
               PROVE  Reaches(frames'[g].at, t)
  <2>1. /\ \A x, t : Reaches(x, t)' = Reaches(x, t)
        /\ \A x, c : Awaited(x, c)' = Awaited(x, c)
    BY ReachesStays, TargetsStay DEF Settled
  <2>2. \A x : Awaited(x, frames[x])' = Awaited(x, frames'[x])
    BY <2>1
  <2> QED BY <1>2, <2>1, <2>2 DEF Below
<1>3. ~WentBack /\ Shapes /\ Tree /\ Below
  BY <1>2, BackStays DEF FInv, TInv, IInv
<1>4. CASE g = f
  <2>1. PICK m \in Nodes : \E known : frames'[b] = Frame(m, known) /\ Reaches(frames'[f].at, m)
    BY <1>2, <1>4 DEF Starts
  <2>2. frames'[b].at = m /\ frames'[b].stopped = None
    BY <2>1 DEF Frame
  <2> QED BY <1>2, <1>4, <2>1, <2>2
<1>5. CASE g \in Awaited(f, frames'[f])
  <2>1. Awaited(g, frames'[g]) = {}
    BY <1>1, <1>5 DEF Awaited
  <2> QED BY <1>2, <2>1
<1>6. CASE g # f /\ g \notin Awaited(f, frames'[f])
  <2>1. g \in DOMAIN frames /\ g \notin Under(f) /\ frames'[g] = frames[g]
    BY <1>1, <1>6
  <2>2. b \in Awaited(g, frames[g])
    BY <1>2, <2>1
  <2>3. b \in DOMAIN frames
    BY <1>3, <2>1, <2>2 DEF Tree
  <2>4. b \notin Under(f)
    BY <1>1, <1>3, <1>6, <2>1, <2>2, Apart
  <2>5. CASE b # f
    <3>1. frames'[b] = frames[b]
      BY <1>1, <2>3, <2>4, <2>5
    <3> QED BY <1>2, <1>3, <2>1, <2>2, <3>1 DEF Below
  <2>6. CASE b = f
    <3>1. t = frames[f].stopped \/ (frames[f].at # None /\ Reaches(frames[f].at, t))
      BY <1>2, <2>6 DEF Advances
    <3>2. frames[f].at # None => Reaches(frames[g].at, frames[f].at)
      BY <1>3, <2>1, <2>2, <2>6 DEF Below
    <3>3. t = frames[f].stopped => Reaches(frames[g].at, t)
      BY <1>2, <1>3, <2>1, <2>2, <2>6 DEF Below
    <3> QED BY <2>1, <3>1, <3>2, <3>3, ReachesOn
  <2> QED BY <2>5, <2>6
<1> QED BY <1>4, <1>5, <1>6

(* What d, which f is to become, has to show.                              *)
LEMMA FitsAfter ==
  ASSUME UNCHANGED graph, NEW f, NEW d,
         d.visits \in [Nodes -> Nat] /\ d.at \in Nodes \cup {None},
         d.pc \in Inside \cup {"items", "branches"} => d.at # None /\ d.visits[d.at] \in Times,
         d.pc = "commit" => Kind[d.at] # "join" /\ d.res \in Outcomes(d.at),
         d.pc = "items" => /\ Loops(d.at) /\ d.item \in Times
                           /\ Routed(Key(d.at, f, d.visits[d.at]))',
         d.pc = "branches" => Kind[d.at] = "fork",
         d.stopped # None => d.stopped \in Nodes /\ (IsBranch(f) \/ StopAsked(f)'),
         ~WentBack' => Forward(d) /\ (Counts(f, d)' => Again(f, d)')
  PROVE  FrameFits(f, d)'
<1>1. Nodes' = Nodes /\ Kind' = Kind
  BY GraphStays
<1>2. Outcomes(d.at)' = Outcomes(d.at) /\ Loops(d.at)' = Loops(d.at)
  BY GraphStays DEF Outcomes, Loops
<1>3. Forward(d)' = Forward(d)
  BY <1>1, ReachesStays DEF Forward
<1> QED BY <1>1, <1>2, <1>3 DEF FrameFits

-----------------------------------------------------------------------------
(* The rows after a step fit                                               *)

(* All that a step of f writes of whether a row is done, and with what.    *)
Records(f) == \A s \in DOMAIN rows' :
  \/ s \in DOMAIN rows /\ rows'[s].done = rows[s].done /\ rows'[s].res = rows[s].res
  \/ s = StepOf(f) /\ frames[f].pc = "claim" /\ ~rows'[s].done /\ rows'[s].res = "next"
  \/ s = StepOf(f) /\ frames[f].pc = "commit" /\ s \in DOMAIN rows /\ rows'[s].done /\ rows'[s].res = frames[f].res

LEMMA WalkRecords == ASSUME TInv, NEW f \in DOMAIN frames, Walk(f) PROVE Records(f)
<1> HIDE DEF StepOf
<1>1. CASE UNCHANGED rows
  BY <1>1 DEF Records
<1>2. CASE Claim(f)
  <2> DEFINE fresh == [done |-> FALSE, res |-> "next", ran |-> 0]
  <2>1. frames[f].pc = "claim" /\ (rows' = rows \/ rows' = Put(rows, StepOf(f), fresh))
    BY <1>2 DEF Claim
  <2>2. ~fresh.done /\ fresh.res = "next"
    OBVIOUS
  <2> HIDE DEF fresh
  <2> QED BY <2>1, <2>2 DEF Put, Records
<1>3. CASE Execute(f)
  <2>1. StepOf(f) \in DOMAIN rows /\ DOMAIN rows[StepOf(f)] = RowFields
    BY <1>3 DEF Execute, TInv, IInv, Shapes, Uncommitted, Busy
  <2> DEFINE r == [rows[StepOf(f)] EXCEPT !.ran = @ + 1]
  <2>2. rows' = [rows EXCEPT ![StepOf(f)] = r]
    BY <1>3, <2>1 DEF Execute
  <2>3. r.done = rows[StepOf(f)].done /\ r.res = rows[StepOf(f)].res
    BY <2>1 DEF RowFields
  <2> HIDE DEF r
  <2> QED BY <2>1, <2>2, <2>3 DEF Records
<1>4. CASE Commit(f)
  <2>1. StepOf(f) \in DOMAIN rows /\ DOMAIN rows[StepOf(f)] = RowFields /\ frames[f].pc = "commit"
    BY <1>4 DEF Commit, TInv, IInv, Shapes, Uncommitted, Busy
  <2> DEFINE r == [rows[StepOf(f)] EXCEPT !.done = TRUE, !.res = frames[f].res]
  <2>2. rows' = [rows EXCEPT ![StepOf(f)] = r]
    BY <1>4, <2>1 DEF Commit
  <2>3. r.done /\ r.res = frames[f].res
    BY <2>1 DEF RowFields
  <2> HIDE DEF r
  <2> QED BY <2>1, <2>2, <2>3 DEF Records
<1> QED BY <1>1, <1>2, <1>3, <1>4 DEF Walk, Enter, BodyEnds, Join

LEMMA RowsFitKept ==
  ASSUME FInv, UNCHANGED graph, NEW f \in DOMAIN frames, Records(f) PROVE RowsFit'
<1>1. Nodes' = Nodes /\ Kind' = Kind /\ \A n : Outcomes(n)' = Outcomes(n)
  <2>1. \A n : Outcomes(n)' = Outcomes(n)
    BY GraphStays DEF Outcomes
  <2> QED BY <2>1, GraphStays
<1>2. /\ frames[f].pc \in Inside => frames[f].at \in Nodes /\ frames[f].visits[frames[f].at] \in Times
      /\ frames[f].pc = "commit" => Kind[frames[f].at] # "join" /\ frames[f].res \in Outcomes(frames[f].at)
  BY DEF FInv, Fits, FrameFits
<1>3. Named(f)
  BY DEF FInv, TInv, IInv, Shapes
<1>4. SUFFICES ASSUME NEW s \in DOMAIN rows'
               PROVE  /\ s[1] \in Nodes /\ \E k : Named(k) /\ \E v \in Times : s = Key(s[1], k, v)
                      /\ rows'[s].done => Kind[s[1]] # "join" /\ rows'[s].res \in Outcomes(s[1])
                      /\ ~rows'[s].done => rows'[s].res = "next"
  BY <1>1 DEF RowsFit
<1>5. CASE s \in DOMAIN rows /\ rows'[s].done = rows[s].done /\ rows'[s].res = rows[s].res
  BY <1>5 DEF FInv, RowsFit
<1>6. CASE s = StepOf(f) /\ frames[f].pc \in Inside
  <2> DEFINE v == frames[f].visits[frames[f].at]
  <2>1. s = Key(frames[f].at, f, v) /\ s[1] = frames[f].at
    BY <1>6 DEF StepOf, Key
  <2>2. v \in Times /\ s[1] \in Nodes
    BY <1>2, <1>6, <2>1
  <2> HIDE DEF v
  <2>3. s = Key(s[1], f, v)
    BY <2>1
  <2>4. \/ frames[f].pc = "claim" /\ ~rows'[s].done /\ rows'[s].res = "next"
        \/ frames[f].pc = "commit" /\ rows'[s].done /\ rows'[s].res = frames[f].res
        \/ s \in DOMAIN rows /\ rows'[s].done = rows[s].done /\ rows'[s].res = rows[s].res
    BY DEF Records
  <2> QED BY <1>2, <1>3, <1>5, <2>1, <2>2, <2>3, <2>4
<1> QED BY <1>5, <1>6 DEF Records, Inside

LEMMA OrderedKept ==
  ASSUME FInv, Settled, NEW f \in DOMAIN frames, Records(f) PROVE Ordered'
<1> SUFFICES ASSUME ~WentBack', NEW n \in Nodes', NEW k, NEW u \in Times, NEW w \in Times,
                    Named(k), Key(n, k, w) \in DOMAIN rows', u < w
             PROVE  Repeats(n, k, u)'
  BY DEF Ordered
<1>1. ~WentBack /\ n \in Nodes /\ Ordered /\ Fits /\ Named(f)
  <2>1. ~WentBack
    BY BackStays DEF FInv
  <2> QED BY <2>1, GraphStays DEF Settled, FInv, TInv, IInv, Shapes
<1>2. CASE Key(n, k, w) \in DOMAIN rows
  <2>1. Repeats(n, k, u)
    BY <1>1, <1>2 DEF Ordered
  <2> QED BY <2>1, RepeatsStays
<1>3. CASE Key(n, k, w) = StepOf(f) /\ frames[f].pc = "claim"
  <2> DEFINE c == frames[f]  v == c.visits[c.at]
  <2>1. FrameFits(f, c) /\ Counts(f, c) /\ c.pc = "claim"
    BY <1>1, <1>3 DEF Fits, Counts, Inside
  <2>2. v \in Times /\ c.at # None /\ Again(f, c)
    BY <1>1, <2>1 DEF FrameFits, Inside
  <2>3. n = c.at /\ VisitKey(k, w) = VisitKey(f, v)
    BY <1>3 DEF Key, StepOf
  <2>4. k = f
    BY <1>1, <2>3, VisitKeysDiffer
  <2> HIDE DEF v
  <2>5. w = v
    BY <2>2, <2>3, <2>4, VisitsDiffer
  <2>6. u <= v /\ u # v
    BY <2>5, <2>2 DEF Times
  <2>7. Repeats(c.at, f, u)
    BY <2>1, <2>2, <2>6 DEF Again, Inside, v
  <2>8. Repeats(n, k, u)
    BY <2>3, <2>4, <2>7
  <2> QED BY <2>8, RepeatsStays
<1> QED BY <1>2, <1>3 DEF Records

-----------------------------------------------------------------------------
(* What each action comes to                                               *)

Fails(f) ==
  /\ status' = "failed" /\ frames' = <<>> /\ cur' = frames[f].at /\ cur' \in Nodes
  /\ astray' = (astray \/ f # <<>>) /\ UNCHANGED <<asked, aborted>>

(* f stays where it is, alone.                                             *)
Turns(f, pc) ==
  /\ Rebuilds(f) /\ Awaited(f, frames'[f]) = {} /\ UNCHANGED <<status, asked, aborted>>
  /\ frames'[f].pc = pc /\ frames'[f].at = frames[f].at

Rests(f) ==
  /\ Turns(f, "ret") /\ UNCHANGED cur /\ f # <<>>
  /\ frames'[f].visits = frames[f].visits /\ frames'[f].stopped = frames[f].at
  /\ frames[f].at # None => StopAsked(f) \/ IsBranch(f)

Visits(f) == LET n == frames[f].at IN
  /\ Turns(f, "claim") /\ n # None /\ ~StopAsked(f) /\ cur' = IF f = <<>> THEN n ELSE cur
  /\ frames'[f].visits = [frames[f].visits EXCEPT ![n] = @ + 1] /\ frames'[f].stopped = frames[f].stopped

LEMMA RootIsNoBranch == ~StopAsked(<<>>) /\ ~IsBranch(<<>>)
<1>1. ForkParts(<<>>) = {}
  BY DEF ForkParts
<1> QED BY <1>1 DEF StopAsked, IsBranch

LEMMA EnterIs ==
  ASSUME TInv, NEW f \in DOMAIN frames, Enter(f), frames[f].at \in Nodes \cup {None}
  PROVE  /\ frames[f].pc = "enter" /\ UNCHANGED <<rows, starts>>
         /\ \/ Fails(f)
            \/ Finish /\ f = <<>> /\ frames[f].at = None /\ UNCHANGED <<asked, aborted>>
            \/ Rests(f)
            \/ Visits(f)
<1>0. PICK n : n = frames[f].at
  OBVIOUS
<1> DEFINE c == frames[f]
           d == [c EXCEPT !.pc = "claim", !.visits[n] = @ + 1]
           r == [c EXCEPT !.pc = "ret", !.stopped = n]
<1>1. c.pc = "enter" /\ DOMAIN c = FrameFields /\ Shapes /\ UNCHANGED <<rows, starts>>
  BY DEF Enter, TInv, IInv, Shapes
<1>2. /\ d.pc = "claim" /\ d.at = n /\ d.stopped = c.stopped /\ d.visits = [c.visits EXCEPT ![n] = @ + 1]
      /\ r.pc = "ret" /\ r.at = n /\ r.stopped = n /\ r.visits = c.visits
  BY <1>0, <1>1 DEF FrameFields
<1>3. \/ n = None /\ f = <<>> /\ Finish /\ UNCHANGED <<asked, aborted>>
      \/ /\ SetFrame(f, r) /\ UNCHANGED <<status, cur, asked, aborted>>
         /\ (n # None => StopAsked(f) \/ IsBranch(f)) /\ f # <<>>
      \/ n # None /\ ~StopAsked(f) /\ Fail(f, n)
      \/ /\ n # None /\ ~StopAsked(f) /\ SetFrame(f, d)
         /\ cur' = (IF f = <<>> THEN n ELSE cur) /\ UNCHANGED <<status, asked, aborted>>
  BY <1>0, RootIsNoBranch DEF Enter, Return
<1>4. Under(f) = {}
  BY <1>1, Alone
<1> HIDE DEF d, r
<1>5. CASE /\ SetFrame(f, r) /\ UNCHANGED <<status, cur, asked, aborted>>
           /\ (n # None => StopAsked(f) \/ IsBranch(f)) /\ f # <<>>
  <2>1. Rebuilds(f) /\ frames'[f] = r /\ Awaited(f, frames'[f]) = {}
    BY <1>1, <1>2, <1>4, <1>5, TurnIs
  <2>2. Rests(f)
    BY <1>0, <1>2, <1>5, <2>1 DEF Rests, Turns
  <2> QED BY <1>1, <2>2
<1>6. CASE /\ n # None /\ ~StopAsked(f) /\ SetFrame(f, d)
           /\ cur' = (IF f = <<>> THEN n ELSE cur) /\ UNCHANGED <<status, asked, aborted>>
  <2>1. Rebuilds(f) /\ frames'[f] = d /\ Awaited(f, frames'[f]) = {}
    BY <1>1, <1>2, <1>4, <1>6, TurnIs
  <2>2. Visits(f)
    BY <1>0, <1>2, <1>6, <2>1 DEF Visits, Turns
  <2> QED BY <1>1, <2>2
<1> QED BY <1>0, <1>1, <1>3, <1>5, <1>6 DEF Fail, Fails

LEMMA ClaimIs ==
  ASSUME TInv, NEW f \in DOMAIN frames, Claim(f), frames[f].at \in Nodes
  PROVE  /\ frames[f].pc = "claim" /\ UNCHANGED starts
         /\ \/ Fails(f)
            \/ Turns(f, "exec") /\ SameVisits(f, frames[f]) /\ UNCHANGED cur
            \/ /\ StepOf(f) \in DOMAIN rows /\ rows[StepOf(f)].done /\ UNCHANGED rows
               /\ Route(f, rows[StepOf(f)].res)
<1> DEFINE c == frames[f]  s == StepOf(f)  old == s \in DOMAIN rows
           d == [c EXCEPT !.pc = "exec", !.replay = old]
<1>1. c.pc = "claim" /\ DOMAIN c = FrameFields /\ Shapes /\ UNCHANGED starts
  BY DEF Claim, TInv, IInv, Shapes
<1>2. d.pc = "exec" /\ d.at = c.at /\ d.visits = c.visits /\ d.stopped = c.stopped
  BY <1>1 DEF FrameFields
<1>3. \/ old /\ rows[s].done /\ rows' = rows /\ Route(f, rows[s].res)
      \/ Fail(f, c.at)
      \/ UNCHANGED <<status, cur, asked, aborted>> /\ SetFrame(f, d)
  BY DEF Claim
<1>4. Under(f) = {}
  BY <1>1, Alone
<1> HIDE DEF d
<1>5. CASE UNCHANGED <<status, cur, asked, aborted>> /\ SetFrame(f, d)
  <2>1. Rebuilds(f) /\ frames'[f] = d /\ Awaited(f, frames'[f]) = {}
    BY <1>1, <1>2, <1>4, <1>5, TurnIs
  <2> QED BY <1>1, <1>2, <1>5, <2>1 DEF Turns, SameVisits
<1> QED BY <1>1, <1>3, <1>5 DEF Fail, Fails

LEMMA ExecuteIs ==
  ASSUME TInv, NEW f \in DOMAIN frames, Execute(f), frames[f].at \in Nodes
  PROVE  /\ frames[f].pc = "exec" /\ UNCHANGED starts
         /\ \/ Fails(f)
            \/ /\ Turns(f, "commit") /\ SameVisits(f, frames[f]) /\ UNCHANGED cur
               /\ Kind[frames[f].at] # "join" /\ frames'[f].res \in Outcomes(frames[f].at)
<1> DEFINE c == frames[f]
           d(r) == [c EXCEPT !.pc = "commit", !.res = r]
<1>1. c.pc = "exec" /\ DOMAIN c = FrameFields /\ Shapes /\ UNCHANGED starts
  BY DEF Execute, TInv, IInv, Shapes
<1>2. \A r : d(r).pc = "commit" /\ d(r).at = c.at /\ d(r).visits = c.visits /\ d(r).stopped = c.stopped /\ d(r).res = r
  BY <1>1 DEF FrameFields
<1>3. \/ Fail(f, c.at)
      \/ Kind[c.at] # "join" /\ \E r \in Outcomes(c.at) : SetFrame(f, d(r)) /\ UNCHANGED <<status, cur, asked, aborted>>
  BY DEF Execute
<1>4. Under(f) = {}
  BY <1>1, Alone
<1> HIDE DEF d
<1>5. ASSUME Kind[c.at] # "join", NEW r \in Outcomes(c.at), SetFrame(f, d(r)), UNCHANGED <<status, cur, asked, aborted>>
      PROVE  /\ Turns(f, "commit") /\ SameVisits(f, c) /\ UNCHANGED cur
             /\ Kind[c.at] # "join" /\ frames'[f].res \in Outcomes(c.at)
  <2>1. Rebuilds(f) /\ frames'[f] = d(r) /\ Awaited(f, frames'[f]) = {}
    BY <1>1, <1>2, <1>4, <1>5, TurnIs
  <2> QED BY <1>2, <1>5, <2>1 DEF Turns, SameVisits
<1> QED BY <1>1, <1>3, <1>5 DEF Fail, Fails

LEMMA BodyEndsIs ==
  ASSUME TInv, NEW f \in DOMAIN frames, BodyEnds(f)
  PROVE  LET n == frames[f].at  i == frames[f].item + 1 IN
         /\ frames[f].pc = "items" /\ UNCHANGED <<status, cur, rows, asked, aborted, starts>>
         /\ \E b \in DOMAIN frames : /\ Under(f) = {b} /\ frames[b].pc = "ret" /\ ~IsBranch(b)
                                     /\ StopAsked(b) = StopAsked(f)
         /\ Rebuilds(f) /\ SameVisits(f, frames[f])
         /\ LeavesLoop(f, n, i) \/ TakesItem(f, n, i)
<1>0. PICK it : it = Items[frames[f].at][frames[f].item]
  OBVIOUS
<1> DEFINE c == frames[f]  x == <<"item", it>>  b == Append(f, x)  fr == Without({b})
           d == [c EXCEPT !.known = frames[b].known]
<1>1. /\ c.pc = "items" /\ frames[b].pc = "ret" /\ UNCHANGED <<status, cur, rows, asked, aborted, starts>>
      /\ frames' = NextItem(fr, f, d, c.item + 1)
  BY <1>0 DEF BodyEnds
<1>2. IsSequence(f) /\ DOMAIN c = FrameFields /\ Tree /\ Shapes
  BY DEF TInv, IInv, Shapes, Named
<1>3. DOMAIN d = FrameFields /\ d.at = c.at /\ d.visits = c.visits /\ d.stopped = c.stopped
  BY <1>2 DEF FrameFields
<1>4. Awaited(f, c) = {b}
  BY <1>0, <1>1 DEF Awaited
<1>5. b \in DOMAIN frames /\ Under(f) = {b}
  <2>1. Awaited(f, c) \subseteq DOMAIN frames
    BY <1>2 DEF Tree
  <2>2. \A g \in Awaited(f, c) : frames[g].pc = "ret"
    BY <1>1, <1>4
  <2>3. Under(f) = Awaited(f, c)
    BY <2>2, UnderResting
  <2> QED BY <1>4, <2>1, <2>3
<1>6. DOMAIN fr = DOMAIN frames \ {b} /\ \A g \in DOMAIN fr : fr[g] = frames[g]
  BY DEF Without
<1>7. x[1] # "fork" /\ x[1] = "item"
  OBVIOUS
<1>8. ~IsBranch(b) /\ StopAsked(b) = StopAsked(f)
  <2>1. Len(f) \in Nat /\ Len(b) = Len(f) + 1 /\ b[Len(f) + 1] = x
    BY <1>2, AppendInitials
  <2>2. b[Len(b)] = x
    BY <2>1
  <2>3. StopAsked(b) = StopAsked(f)
    BY <1>2, <1>7, StopBelow
  <2> HIDE DEF x, b
  <2> QED BY <1>7, <2>2, <2>3 DEF IsBranch
<1> HIDE DEF b, d, fr
<1>9. DOMAIN fr = DOMAIN frames \ Under(f) /\ \A g \in DOMAIN fr \ {f} : fr[g] = frames[g]
  BY <1>5, <1>6
<1>10. Rebuilds(f) /\ SameVisits(f, d) /\ (LeavesLoop(f, d.at, c.item + 1) \/ TakesItem(f, d.at, c.item + 1))
  BY <1>1, <1>2, <1>3, <1>9, NextItemIs
<1>11. LeavesLoop(f, c.at, c.item + 1) \/ TakesItem(f, c.at, c.item + 1)
  BY <1>3, <1>10
<1>12. SameVisits(f, c)
  BY <1>3, <1>10 DEF SameVisits
<1> QED BY <1>1, <1>5, <1>8, <1>10, <1>11, <1>12

(* Every branch of f rests, at j or with nothing left to do.               *)
Meets(f, j) ==
  /\ Rebuilds(f) /\ Awaited(f, frames'[f]) = {} /\ SameVisits(f, frames[f]) /\ j # None
  /\ frames'[f].pc = "enter" /\ frames'[f].at = Next_(j, "next")
  /\ \A b \in Awaited(f, frames[f]) : frames[b].pc = "ret" /\ ~frames[b].aborted /\ frames[b].stopped \in {None, j}
  /\ \E b \in Awaited(f, frames[f]) : frames[b].stopped = j
  /\ UNCHANGED <<status, cur, asked, aborted>>

LEMMA JoinIs ==
  ASSUME FInv, NEW f \in DOMAIN frames, Join(f), frames[f].at \in Nodes
  PROVE  /\ frames[f].pc = "branches" /\ UNCHANGED <<rows, starts>>
         /\ \/ Fails(f)
            \/ Abort(f)
            \/ Under(f) = Awaited(f, frames[f]) /\ \E j : Meets(f, j)
<1> DEFINE c == frames[f]
           B == {Branch(f, l) : l \in DOMAIN Edges[c.at]}
           ids == {frames[b].stopped : b \in B} \ {None}
           d(j) == [c EXCEPT !.known = @ \cup {j}, !.at = Next_(j, "next"), !.pc = "enter"]
<1>1. c.pc = "branches" /\ (\A b \in B : frames[b].pc = "ret") /\ UNCHANGED <<rows, starts>>
  BY DEF Join
<1>2. \/ Abort(f) \/ Fail(f, c.at)
      \/ /\ \A b \in B : ~frames[b].aborted
         /\ Cardinality(ids) = 1 /\ UNCHANGED <<status, cur, asked, aborted>>
         /\ frames' = [Without(B) EXCEPT ![f] = d(CHOOSE n \in ids : TRUE)]
  BY DEF Join
<1>3. DOMAIN c = FrameFields
  BY DEF FInv, TInv, IInv, Shapes
<1>4. \A j : d(j).pc = "enter" /\ d(j).at = Next_(j, "next") /\ d(j).visits = c.visits /\ d(j).stopped = c.stopped
  BY <1>3 DEF FrameFields
<1>5. Awaited(f, c) = B
  BY <1>1 DEF Awaited
<1>6. Under(f) = B
  <2> HIDE DEF B
  <2> QED BY <1>1, <1>5, UnderResting DEF FInv, c
<1>7. DOMAIN Without(B) = DOMAIN frames \ B /\ \A g \in DOMAIN frames \ B : Without(B)[g] = frames[g]
  BY DEF Without
<1>8. f \notin B
  BY <1>6 DEF Under
<1>9. Tree
  BY DEF FInv, TInv
<1>10. ASSUME \A b \in B : ~frames[b].aborted, Cardinality(ids) = 1, UNCHANGED <<status, cur, asked, aborted>>,
             NEW j, j = CHOOSE n \in ids : TRUE, frames' = [Without(B) EXCEPT ![f] = d(j)]
      PROVE  Meets(f, j)
  <2>1. ids = {j}
    <3>1. \A b \in B : b \in DOMAIN frames
      BY <1>5, <1>9 DEF Tree
    <3>2. ids \subseteq Nodes
      <4> HIDE DEF B
      <4> QED BY <3>1 DEF FInv, Fits, FrameFits
    <3>3. IsFiniteSet(Nodes)
      BY GraphAssumption DEF FInv, RunFits, Nodes
    <3> HIDE DEF ids
    <3>4. IsFiniteSet(ids)
      BY <3>2, <3>3, FS_Subset
    <3>5. PICK x : ids = {x}
      BY <1>10, <3>4, FS_Singleton
    <3> QED BY <1>10, <3>5
  <2> HIDE DEF d
  <2>2. j # None /\ (\A b \in B : frames[b].stopped \in {None, j}) /\ \E b \in B : frames[b].stopped = j
    <3>1. \A b \in B : frames[b].stopped # None => frames[b].stopped \in ids
      OBVIOUS
    <3>2. j # None /\ \E b \in B : frames[b].stopped = j
      BY <2>1
    <3> HIDE DEF ids, B
    <3> QED BY <2>1, <3>1, <3>2
  <2> HIDE DEF B, ids
  <2>3. /\ DOMAIN frames' = DOMAIN frames \ B /\ frames'[f] = d(j)
        /\ \A g \in DOMAIN frames \ (B \cup {f}) : frames'[g] = frames[g]
    BY <1>7, <1>8, <1>10
  <2>4. Awaited(f, frames'[f]) = {}
    BY <1>4, <2>3 DEF Awaited
  <2>5. Rebuilds(f)
    BY <1>6, <1>8, <2>3, <2>4 DEF Rebuilds
  <2> QED BY <1>1, <1>4, <1>5, <1>10, <2>2, <2>3, <2>4, <2>5 DEF Meets, SameVisits
<1> HIDE DEF B, d, ids
<1> QED BY <1>1, <1>2, <1>5, <1>6, <1>10 DEF Fail, Fails

-----------------------------------------------------------------------------
(* Every step keeps what fits                                              *)

LEMMA NodesFit ==
  ASSUME FInv
  PROVE  /\ \A n \in Nodes : \A l : Next_(n, l) \in Nodes \cup {None}
         /\ \A n \in Nodes : \A l \in DOMAIN Edges[n] : l # "stop" /\ Edges[n][l] \in Nodes
         /\ \A n \in Nodes : /\ Stop[n].action \in {"none", "abort", "goto"}
                             /\ Stop[n].action = "goto" => Stop[n].target \in Nodes
                             /\ Stop[n].action # "goto" => Stop[n].target = None
                             /\ Len(Items[n]) \in Nat
                             /\ "stop" \in Outcomes(n) => Stop[n].action # "none"
         /\ Entry \in Nodes /\ None \notin Nodes
<1>1. graph \in Graphs
  BY DEF FInv, RunFits
<1>2. /\ graph.entry \in graph.nodes /\ None \notin graph.nodes
      /\ \A n \in graph.nodes : \A l \in DOMAIN graph.edges[n] : l # "stop" /\ graph.edges[n][l] \in graph.nodes
      /\ \A n \in graph.nodes : /\ graph.stop[n].action \in {"none", "abort", "goto"}
                                /\ graph.stop[n].target \in IF graph.stop[n].action = "goto" THEN graph.nodes ELSE {None}
                                /\ Len(graph.items[n]) \in Nat
  BY <1>1, GraphAssumption
<1>3. \A n \in Nodes : \A l \in DOMAIN Edges[n] : l # "stop" /\ Edges[n][l] \in Nodes
  BY <1>2 DEF Nodes, Edges
<1>4. \A n \in Nodes : \A l : Next_(n, l) \in Nodes \cup {None}
  BY <1>3 DEF Next_
<1>5. \A n \in Nodes : /\ Stop[n].action \in {"none", "abort", "goto"}
                       /\ Stop[n].action = "goto" => Stop[n].target \in Nodes
                       /\ Stop[n].action # "goto" => Stop[n].target = None
                       /\ Len(Items[n]) \in Nat
  BY <1>2 DEF Nodes, Stop, Items, Kind, Edges
<1>6. \A n \in Nodes : "stop" \in Outcomes(n) => Stop[n].action # "none"
  BY <1>3 DEF Outcomes
<1> QED BY <1>2, <1>3, <1>4, <1>5, <1>6 DEF Nodes, Entry

(* A frame that goes on from n, which led back to n if that is where it is. *)
LEMMA ComesTo ==
  ASSUME FInv, Settled, Ordered', asked \subseteq asked', NEW f \in DOMAIN frames, NEW n \in Nodes, NEW l, NEW d,
         NEW v \in Times, frames[f].at = n, frames[f].visits[n] = v,
         d.pc = "enter", d.at = Next_(n, l), d.visits = frames[f].visits, d.stopped = frames[f].stopped,
         Key(n, f, v) \in DOMAIN rows', Next_(n, l) = n => Repeats(n, f, v)'
  PROVE  FrameFits(f, d)'
<1> DEFINE c == frames[f]
<1>0. PICK t : t = Next_(n, l)
  OBVIOUS
<1>1. FrameFits(f, c) /\ Named(f) /\ graph \in Graphs
  BY DEF FInv, Fits, RunFits, TInv, IInv, Shapes
<1>2. t \in Nodes \cup {None} /\ None \notin Nodes
  BY <1>0, NodesFit
<1>3. c.stopped # None => c.stopped \in Nodes /\ (IsBranch(f) \/ StopAsked(f)')
  BY <1>1 DEF FrameFits, StopAsked
<1>4. c.visits \in [Nodes -> Nat]
  BY <1>1 DEF FrameFits
<1>5. UNCHANGED graph /\ Nodes' = Nodes
  BY GraphStays DEF Settled
<1>6. ASSUME ~WentBack' PROVE Forward(d) /\ Again(f, d)'
  <2>1. ~WentBack
    BY <1>6, BackStays DEF FInv
  <2>2. \A m \in Nodes : c.visits[m] >= 1 => Reaches(m, n)
    BY <1>1, <1>2, <2>1 DEF FrameFits, Forward
  <2>3. Forward(d)
    BY <1>0, <2>2, ReachesNext DEF Forward
  <2>4. ASSUME t # None, NEW u \in Times, u <= c.visits[t] PROVE Repeats(t, f, u)'
    <3>1. c.visits[t] \in Nat /\ t \in Nodes
      BY <1>2, <1>4, <2>4
    <3>2. c.visits[t] >= 1
      <4>1. u \in Nat /\ u >= 1
        BY DEF Times
      <4> QED BY <2>4, <3>1, <4>1
    <3>3. Reaches(t, n) /\ Reaches(n, t)
      BY <1>0, <2>2, <2>4, <3>1, <3>2, ReachesSelf, ReachesNext
    <3>4. t = n
      BY <1>1, <3>1, <3>3, NoWayBack
    <3>5. CASE u = v
      BY <1>0, <3>4, <3>5
    <3>6. CASE u # v
      <4>1. u < v
        BY <2>4, <3>1, <3>4, <3>6 DEF Times
      <4>2. n \in Nodes' /\ Key(n, f, v) \in DOMAIN rows' /\ v \in Times
        BY <1>5
      <4>3. Repeats(n, f, u)'
        BY <1>1, <1>6, <4>1, <4>2 DEF Ordered
      <4> QED BY <3>4, <4>3
    <3> QED BY <3>5, <3>6
  <2>5. Again(f, d)'
    BY <1>0, <2>4 DEF Again
  <2> QED BY <2>3, <2>5
<1> HIDE DEF c
<1>7. d.visits = c.visits /\ d.stopped = c.stopped
  BY DEF c
<1> QED BY <1>0, <1>2, <1>3, <1>4, <1>5, <1>6, <1>7, FitsAfter DEF Inside

(* A frame that stays at its node.                                         *)
LEMMA StaysFit ==
  ASSUME FInv, Settled, asked \subseteq asked', NEW f \in DOMAIN frames, NEW d,
         d.at = frames[f].at, d.visits = frames[f].visits,
         d.stopped = frames[f].stopped \/ (d.stopped = d.at /\ (d.at # None => IsBranch(f) \/ StopAsked(f)')),
         \/ d.pc = "ret"
         \/ frames[f].pc \in Inside /\ d.pc \in Inside /\ (d.pc = "commit" => Kind[d.at] # "join" /\ d.res \in Outcomes(d.at))
  PROVE  FrameFits(f, d)'
<1> DEFINE c == frames[f]
<1>1. FrameFits(f, c) /\ UNCHANGED graph
  BY DEF FInv, Fits, Settled
<1>2. ~WentBack' => ~WentBack
  BY BackStays DEF FInv
<1>3. ~WentBack => Forward(d)
  BY <1>1 DEF FrameFits, Forward
<1>4. d.pc = "ret" => Again(f, d)'
  BY DEF Again, Inside
<1>5. ASSUME ~WentBack, d.pc # "ret" PROVE Again(f, d)'
  <2>1. Counts(f, c)
    BY <1>5 DEF Counts
  <2>2. Again(f, c)
    BY <1>1, <1>5, <2>1 DEF FrameFits
  <2>3. Again(f, d)
    BY <1>5, <2>2 DEF Again, Inside
  <2> QED BY <2>3, AgainStays
<1>6. c.stopped # None => c.stopped \in Nodes /\ (IsBranch(f) \/ StopAsked(f)')
  BY <1>1 DEF FrameFits, StopAsked
<1>7. c.visits \in [Nodes -> Nat] /\ c.at \in Nodes \cup {None}
  BY <1>1 DEF FrameFits
<1>8. c.pc \in Inside => c.at # None /\ c.visits[c.at] \in Times
  BY <1>1 DEF FrameFits
<1>9. d.stopped # None => d.stopped \in Nodes /\ (IsBranch(f) \/ StopAsked(f)')
  BY <1>6, <1>7
<1>10. d.pc # "items" /\ d.pc # "branches" /\ (d.pc \in Inside => c.pc \in Inside)
       /\ (d.pc = "commit" => Kind[d.at] # "join" /\ d.res \in Outcomes(d.at))
  BY DEF Inside
<1> QED BY <1>1, <1>2, <1>3, <1>4, <1>5, <1>7, <1>8, <1>9, <1>10, FitsAfter

LEMMA RepeatsNow ==
  ASSUME UNCHANGED graph, NEW n, NEW f, NEW v, NEW res, Key(n, f, v) \in DOMAIN rows',
         rows'[Key(n, f, v)].done, rows'[Key(n, f, v)].res = res, <<n, f>> \in Targets(n, f, res)
  PROVE  Repeats(n, f, v)'
<1> PICK s : s = Key(n, f, v)
  OBVIOUS
<1>1. s \in DOMAIN rows' /\ rows'[s].done /\ rows'[s].res = res
  OBVIOUS
<1>2. <<n, f>> \in Targets(n, f, rows[s].res)'
  BY <1>1, TargetsStay
<1> QED BY <1>1, <1>2 DEF Repeats

(* A frame that stays at n to wait for frames of its own.                  *)
LEMMA WaitsFit ==
  ASSUME FInv, Settled, asked \subseteq asked', NEW f \in DOMAIN frames, NEW n \in Nodes, NEW v \in Times,
         frames[f].at = n, frames[f].visits[n] = v, NEW d,
         d.at = n, d.visits = frames[f].visits, d.stopped = frames[f].stopped,
         \/ d.pc = "branches" /\ Kind[n] = "fork"
         \/ d.pc = "items" /\ Loops(n) /\ d.item \in Times /\ Routed(Key(n, f, v))'
  PROVE  FrameFits(f, d)'
<1> DEFINE c == frames[f]
<1>1. FrameFits(f, c) /\ UNCHANGED graph /\ None \notin Nodes
  BY NodesFit DEF FInv, Fits, Settled
<1>2. ~WentBack' => ~WentBack
  BY BackStays DEF FInv
<1>3. ~WentBack => Forward(d)
  BY <1>1 DEF FrameFits, Forward
<1>4. Again(f, d)'
  BY DEF Again, Inside
<1>5. c.stopped # None => c.stopped \in Nodes /\ (IsBranch(f) \/ StopAsked(f)')
  BY <1>1 DEF FrameFits, StopAsked
<1>6. c.visits \in [Nodes -> Nat]
  BY <1>1 DEF FrameFits
<1> QED BY <1>1, <1>2, <1>3, <1>4, <1>5, <1>6, FitsAfter

LEMMA LoopFits ==
  ASSUME FInv, Settled, Ordered', asked \subseteq asked', NEW f \in DOMAIN frames, NEW n \in Nodes, NEW v \in Times,
         frames[f].at = n, frames[f].visits[n] = v, SameVisits(f, frames[f]),
         Loops(n), Routed(Key(n, f, v))', NEW i \in Times, LeavesLoop(f, n, i) \/ TakesItem(f, n, i)
  PROVE  FrameFits(f, frames[f])' /\ Starts(f) /\ Advances(f)
<1>0. PICK d : d = frames'[f]
  OBVIOUS
<1>1. d.visits = frames[f].visits /\ d.stopped = frames[f].stopped
  BY <1>0 DEF SameVisits
<1>2. None \notin Nodes /\ Edges[n]["body"] \in Nodes /\ "body" \in DOMAIN Edges[n]
  BY NodesFit DEF Loops
<1>3. CASE LeavesLoop(f, n, i)
  <2>1. d.pc = "enter" /\ d.at = Next_(n, "after") /\ Awaited(f, frames'[f]) = {}
    BY <1>0, <1>3 DEF LeavesLoop
  <2>2. ASSUME Next_(n, "after") = n PROVE Repeats(n, f, v)'
    <3>1. PICK res : res = rows'[Key(n, f, v)].res
      OBVIOUS
    <3>2. Key(n, f, v) \in DOMAIN rows' /\ rows'[Key(n, f, v)].done /\ res # "stop"
      BY <3>1 DEF Routed
    <3>3. <<n, f>> \in Targets(n, f, res)
      BY <2>2, <3>2 DEF Targets, Loops
    <3> QED BY <3>1, <3>2, <3>3, RepeatsNow DEF Settled
  <2>3. Key(n, f, v) \in DOMAIN rows'
    BY DEF Routed
  <2>4. FrameFits(f, d)'
    BY <1>1, <2>1, <2>2, <2>3, ComesTo
  <2>5. Advances(f)
    <3>1. Next_(n, "after") # None => Reaches(n, Next_(n, "after"))
      BY ReachesSelf, ReachesNext
    <3> QED BY <1>0, <1>1, <1>2, <2>1, <3>1 DEF Advances
  <2>6. Starts(f)
    BY <2>1 DEF Starts
  <2> QED BY <1>0, <2>4, <2>5, <2>6
<1>4. CASE TakesItem(f, n, i)
  <2> PICK b : b = Append(f, <<"item", Items[n][i]>>)
    OBVIOUS
  <2>1. /\ d.pc = "items" /\ d.at = n /\ d.item = i /\ Awaited(f, frames'[f]) = {b}
        /\ \E known : frames'[b] = Frame(Edges[n]["body"], known)
    BY <1>0, <1>4 DEF TakesItem
  <2>2. FrameFits(f, d)'
    BY <1>1, <2>1, WaitsFit
  <2>3. Advances(f)
    BY <1>0, <1>1, <1>2, <2>1, ReachesSelf DEF Advances
  <2>4. Starts(f)
    <3>1. Reaches(n, Edges[n]["body"])
      BY <1>2, ReachesSelf, ReachesEdge
    <3> QED BY <1>0, <1>2, <2>1, <3>1 DEF Starts
  <2> QED BY <1>0, <2>2, <2>3, <2>4
<1> QED BY <1>3, <1>4

LEMMA RouteFits ==
  ASSUME FInv, Settled, Ordered', asked \subseteq asked', NEW f \in DOMAIN frames, NEW n \in Nodes, NEW v \in Times,
         frames[f].at = n, frames[f].visits[n] = v, NEW res \in Outcomes(n),
         Key(n, f, v) \in DOMAIN rows', rows'[Key(n, f, v)].done, rows'[Key(n, f, v)].res = res,
         SameVisits(f, frames[f]), GoesOn(f, n, res)
  PROVE  FrameFits(f, frames[f])' /\ Starts(f) /\ (~WentBack' => Advances(f))
<1>0. PICK d : d = frames'[f]
  OBVIOUS
<1>1. d.visits = frames[f].visits /\ d.stopped = frames[f].stopped
  BY <1>0 DEF SameVisits
<1>2. None \notin Nodes
  BY NodesFit
<1>3. CASE d.pc = "enter" /\ Awaited(f, frames'[f]) = {} /\ res = "stop" /\ Stop[n].action # "abort" /\ d.at = Stop[n].target
  <2>1. Stop[n].action = "goto" /\ d.at \in Nodes
    BY <1>3, NodesFit
  <2>2. WentBack'
    <3> PICK s : s = Key(n, f, v)
      OBVIOUS
    <3>1. s[1] = n /\ Stop' = Stop
      BY GraphStays DEF Key, Settled
    <3> QED BY <1>3, <2>1, <3>1 DEF WentBack
  <2>3. FrameFits(f, frames[f])
    BY DEF FInv, Fits
  <2>4. frames[f].visits \in [Nodes -> Nat]
        /\ (frames[f].stopped # None => frames[f].stopped \in Nodes /\ (IsBranch(f) \/ StopAsked(f)'))
    BY <2>3 DEF FrameFits, StopAsked
  <2>5. FrameFits(f, d)'
    BY <1>1, <1>3, <2>1, <2>2, <2>4, FitsAfter DEF Settled, Inside
  <2> QED BY <1>0, <1>3, <2>2, <2>5 DEF Starts
<1>4. CASE /\ d.pc = "enter" /\ Awaited(f, frames'[f]) = {}
           /\ res # "stop" /\ Kind[n] \notin {"fork", "fanout"} /\ d.at = Next_(n, res)
  <2>1. ASSUME Next_(n, res) = n PROVE Repeats(n, f, v)'
    <3>1. <<n, f>> \in Targets(n, f, res)
      BY <1>4, <2>1 DEF Targets
    <3> QED BY <3>1, RepeatsNow DEF Settled
  <2>2. FrameFits(f, d)'
    BY <1>1, <1>4, <2>1, ComesTo
  <2>3. Advances(f)
    <3>1. Next_(n, res) # None => Reaches(n, Next_(n, res))
      BY ReachesSelf, ReachesNext
    <3> QED BY <1>0, <1>1, <1>2, <1>4, <3>1 DEF Advances
  <2> QED BY <1>0, <1>4, <2>2, <2>3 DEF Starts
<1>5. CASE res # "stop" /\ Kind[n] = "fork" /\ StartsAll(f, n)
  <2>1. /\ d.pc = "branches" /\ d.at = n /\ Awaited(f, frames'[f]) = {Branch(f, l) : l \in DOMAIN Edges[n]}
        /\ \A l \in DOMAIN Edges[n] : \E known : frames'[Branch(f, l)] = Frame(Edges[n][l], known)
    BY <1>0, <1>5 DEF StartsAll
  <2>2. FrameFits(f, d)'
    BY <1>1, <1>5, <2>1, WaitsFit
  <2>3. Advances(f)
    BY <1>0, <1>1, <1>2, <2>1, ReachesSelf DEF Advances
  <2>4. Starts(f)
    <3>1. \A l \in DOMAIN Edges[n] : Edges[n][l] \in Nodes /\ Reaches(n, Edges[n][l])
      BY NodesFit, ReachesSelf, ReachesEdge
    <3> QED BY <1>0, <2>1, <3>1 DEF Starts
  <2> QED BY <1>0, <2>2, <2>3, <2>4
<1>6. CASE res # "stop" /\ Loops(n) /\ (LeavesLoop(f, n, 1) \/ TakesItem(f, n, 1))
  <2>1. Routed(Key(n, f, v))' /\ 1 \in Times
    BY <1>6 DEF Routed, Times
  <2> QED BY <1>6, <2>1, LoopFits
<1> QED BY <1>0, <1>3, <1>4, <1>5, <1>6 DEF GoesOn

LEMMA RunKept ==
  ASSUME FInv, UNCHANGED <<graph, starts>>, frames # <<>>, status' \in {"running", "completed", "failed"},
         frames' # <<>> => status' = "running", cur' \in Nodes \cup {None}, asked' # {} => aborted'
  PROVE  RunFits'
<1>1. Nodes' = Nodes
  BY GraphStays
<1> QED BY <1>1 DEF FInv, RunFits

LEMMA NobodyFits == ASSUME frames' = <<>> PROVE Fits' /\ Below'
<1>1. DOMAIN frames' = {}
  OBVIOUS
<1> QED BY <1>1 DEF Fits, Below

LEMMA Builds ==
  ASSUME FInv, TInv', Settled, RowsFit', Ordered', asked \subseteq asked', UNCHANGED <<status, starts>>,
         cur' \in Nodes \cup {None}, asked' # {} => aborted',
         NEW f, Rebuilds(f), FrameFits(f, frames[f])', Starts(f), ~WentBack' => Advances(f)
  PROVE  FInv'
<1>1. Fits' /\ Below'
  BY FitsKept, BelowKept
<1>2. frames # <<>>
  BY DEF Rebuilds
<1>3. status = "running"
  BY <1>2 DEF FInv, RunFits
<1>4. RunFits'
  BY <1>2, <1>3, RunKept DEF Settled
<1> QED BY <1>1, <1>4 DEF FInv

LEMMA Stays ==
  ASSUME FInv, Settled, asked \subseteq asked', NEW f \in DOMAIN frames, Awaited(f, frames'[f]) = {},
         frames'[f].at = frames[f].at, frames'[f].visits = frames[f].visits,
         \/ frames'[f].stopped = frames[f].stopped
         \/ frames'[f].stopped = frames[f].at /\ (frames[f].at # None => IsBranch(f) \/ StopAsked(f)'),
         \/ frames'[f].pc = "ret"
         \/ /\ frames[f].pc \in Inside /\ frames'[f].pc \in Inside
            /\ frames'[f].pc = "commit" => Kind[frames[f].at] # "join" /\ frames'[f].res \in Outcomes(frames[f].at)
  PROVE  FrameFits(f, frames[f])' /\ Starts(f) /\ Advances(f)
<1> PICK d : d = frames'[f]
  OBVIOUS
<1>1. FrameFits(f, d)'
  BY StaysFit
<1>2. Starts(f)
  BY DEF Starts
<1>3. Advances(f)
  BY ReachesSelf DEF Advances
<1> QED BY <1>1, <1>2, <1>3

LEMMA AbortKeeps ==
  ASSUME FInv, TInv', Settled, RowsFit', Ordered', UNCHANGED starts, NEW f \in DOMAIN frames, Abort(f)
  PROVE  FInv'
<1>1. TInv /\ frames # <<>> /\ cur \in Nodes \cup {None}
  BY DEF FInv, RunFits
<1>2. CASE Finish /\ aborted'
  <2>1. RunFits'
    BY <1>1, <1>2, RunKept DEF Finish, Settled
  <2>2. Fits' /\ Below'
    BY <1>2, NobodyFits DEF Finish
  <2> QED BY <2>1, <2>2 DEF FInv
<1>3. ASSUME NEW b \in DOMAIN frames, Rested(b) PROVE FInv'
  <2>1. /\ Rebuilds(b) /\ Awaited(b, frames'[b]) = {} /\ aborted' /\ asked \subseteq asked'
        /\ frames'[b].pc = "ret" /\ frames'[b].at = frames[b].at
        /\ frames'[b].visits = frames[b].visits /\ frames'[b].stopped = frames[b].stopped
        /\ UNCHANGED <<status, cur>>
    BY <1>3 DEF Rested, SameVisits
  <2>2. FrameFits(b, frames[b])' /\ Starts(b) /\ Advances(b)
    BY <1>3, <2>1, Stays
  <2> QED BY <1>1, <2>1, <2>2, Builds
<1> QED BY <1>1, <1>2, <1>3, AbortIs

LEMMA FailKeeps ==
  ASSUME FInv, TInv', Settled, RowsFit', Ordered', UNCHANGED starts, NEW f \in DOMAIN frames, Fails(f)
  PROVE  FInv'
<1>1. RunFits'
  <2>1. frames # <<>> /\ (asked # {} => aborted)
    BY DEF FInv, RunFits
  <2> QED BY <2>1, RunKept DEF Fails, Settled
<1> QED BY <1>1, NobodyFits DEF FInv, Fails

LEMMA RouteKeeps ==
  ASSUME FInv, TInv', Settled, RowsFit', Ordered', UNCHANGED starts,
         NEW f \in DOMAIN frames, frames[f].pc \in Inside, NEW res \in Outcomes(frames[f].at),
         StepOf(f) \in DOMAIN rows', rows'[StepOf(f)].done, rows'[StepOf(f)].res = res, Route(f, res)
  PROVE  FInv'
<1>1. PICK n, v : n = frames[f].at /\ v = frames[f].visits[frames[f].at]
  OBVIOUS
<1>2. FrameFits(f, frames[f])
  BY DEF FInv, Fits
<1>3. n \in Nodes /\ v \in Times /\ frames[f].visits[n] = v
  BY <1>1, <1>2 DEF FrameFits
<1>4. Key(n, f, v) = StepOf(f)
  BY <1>1 DEF Key, StepOf
<1>5. Under(f) = {} /\ Shapes
  <2>1. frames[f].pc \notin {"items", "branches"}
    BY DEF Inside
  <2> QED BY <2>1, Alone DEF FInv, TInv, IInv
<1>6. CASE Abort(f)
  BY <1>6, AbortKeeps
<1>7. CASE /\ UNCHANGED <<status, cur, asked, aborted>>
           /\ Rebuilds(f) /\ SameVisits(f, frames[f]) /\ GoesOn(f, n, res)
  <2>1. FrameFits(f, frames[f])' /\ Starts(f) /\ (~WentBack' => Advances(f))
    BY <1>1, <1>3, <1>4, <1>7, RouteFits
  <2>2. cur \in Nodes \cup {None} /\ (asked # {} => aborted)
    BY DEF FInv, RunFits
  <2> QED BY <1>7, <2>1, <2>2, Builds
<1>8. CASE Fail(f, n)
  BY <1>1, <1>3, <1>8, FailKeeps DEF Fail, Fails
<1> QED BY <1>1, <1>5, <1>6, <1>7, <1>8, RouteIs

LEMMA MeetsFits ==
  ASSUME FInv, Settled, NEW f \in DOMAIN frames, frames[f].pc = "branches", NEW j, Meets(f, j)
  PROVE  FrameFits(f, frames[f])' /\ Starts(f) /\ (~WentBack' => Advances(f))
<1>0. PICK d : d = frames'[f]
  OBVIOUS
<1> DEFINE c == frames[f]  n == c.at
<1>1. /\ Awaited(f, d) = {} /\ d.visits = c.visits /\ d.stopped = c.stopped /\ j # None
      /\ d.pc = "enter" /\ d.at = Next_(j, "next") /\ UNCHANGED asked
      /\ \A b \in Awaited(f, c) : frames[b].pc = "ret" /\ ~frames[b].aborted
  BY <1>0 DEF Meets, SameVisits
<1>2. PICK b \in Awaited(f, c) : frames[b].stopped = j
  BY DEF Meets
<1>3. FrameFits(f, c) /\ TInv /\ graph \in Graphs
  BY DEF FInv, Fits, RunFits
<1>4. b \in DOMAIN frames
  BY <1>3 DEF TInv, Tree
<1>5. j \in Nodes /\ n \in Nodes /\ Kind[n] = "fork"
  <2>1. FrameFits(b, frames[b])
    BY <1>4 DEF FInv, Fits
  <2> QED BY <1>1, <1>2, <1>3, <2>1 DEF FrameFits
<1>6. Next_(j, "next") \in Nodes \cup {None}
  BY <1>5, NodesFit
<1>7. c.visits \in [Nodes -> Nat]
      /\ (c.stopped # None => c.stopped \in Nodes /\ (IsBranch(f) \/ StopAsked(f)'))
  BY <1>1, <1>3 DEF FrameFits, StopAsked
<1>8. ASSUME ~WentBack' PROVE /\ Reaches(n, j)
                              /\ \A m \in Nodes : c.visits[m] >= 1 => Reaches(m, n)
  <2>1. ~WentBack
    BY <1>8, BackStays DEF FInv
  <2>2. Reaches(n, j)
    BY <1>1, <1>2, <2>1 DEF FInv, Below
  <2>3. n # None
    BY <1>5, NodesFit
  <2> QED BY <1>3, <2>1, <2>2, <2>3 DEF FrameFits, Forward
<1>9. ASSUME ~WentBack' PROVE Forward(d)
  <2>1. \A m \in Nodes : d.visits[m] >= 1 => Reaches(m, j)
    BY <1>1, <1>8, <1>9, ReachesOn
  <2> QED BY <1>1, <2>1, ReachesNext DEF Forward
<1>10. ASSUME ~WentBack', ~StopAsked(f) PROVE Again(f, d)'
  <2>1. Kind[j] = "join"
    BY <1>1, <1>2, <1>3, <1>10, StopsAtJoin
  <2>2. PICK t : t = d.at
    OBVIOUS
  <2>3. ASSUME t # None, NEW u \in Times, u <= d.visits[t] PROVE FALSE
    <3>1. t \in Nodes /\ c.visits[t] \in Nat
      BY <1>1, <1>6, <1>7, <2>2, <2>3
    <3>2. c.visits[t] >= 1
      <4>1. u \in Nat /\ u >= 1
        BY DEF Times
      <4> QED BY <1>1, <2>3, <3>1, <4>1
    <3>3. Reaches(j, t)
      BY <1>1, <2>2, <2>3, ReachesSelf, ReachesNext
    <3>4. Reaches(j, n) /\ Reaches(n, j)
      BY <1>8, <1>10, <3>1, <3>2, <3>3, ReachesOn
    <3>5. j = n
      BY <1>3, <1>5, <3>4, NoWayBack
    <3> QED BY <1>5, <2>1, <3>5
  <2> QED BY <2>2, <2>3 DEF Again
<1>11. Counts(f, d)' => ~StopAsked(f)
  BY <1>1 DEF Counts, StopAsked, Inside
<1>12. FrameFits(f, d)'
  <2> HIDE DEF c
  <2> QED BY <1>1, <1>6, <1>7, <1>9, <1>10, <1>11, FitsAfter DEF Settled, Inside
<1>13. ASSUME ~WentBack' PROVE Advances(f)
  <2>1. Next_(j, "next") # None => Reaches(n, Next_(j, "next"))
    BY <1>8, <1>13, ReachesNext
  <2>2. n # None
    BY <1>5, NodesFit
  <2> QED BY <1>0, <1>1, <2>1, <2>2 DEF Advances
<1> QED BY <1>0, <1>1, <1>12, <1>13 DEF Starts

(* The frame at rest, or in its step, that Enter, Claim and Execute leave. *)
LEMMA TurnKeeps ==
  ASSUME FInv, TInv', Settled, RowsFit', Ordered', UNCHANGED starts, cur' \in Nodes \cup {None},
         NEW f \in DOMAIN frames, NEW pc, Turns(f, pc), FrameFits(f, frames[f])', Advances(f)
  PROVE  FInv'
<1>1. Starts(f)
  BY DEF Turns, Starts
<1>2. asked # {} => aborted
  BY DEF FInv, RunFits
<1> QED BY <1>1, <1>2, Builds DEF Turns

LEMMA VisitsFit ==
  ASSUME FInv, Settled, NEW f \in DOMAIN frames, frames[f].pc = "enter", Visits(f)
  PROVE  FrameFits(f, frames[f])' /\ Advances(f)
<1>0. PICK n, d : n = frames[f].at /\ d = frames'[f]
  OBVIOUS
<1> DEFINE c == frames[f]
<1>1. /\ d.pc = "claim" /\ d.at = n /\ d.stopped = c.stopped /\ d.visits = [c.visits EXCEPT ![n] = @ + 1]
      /\ n # None /\ ~StopAsked(f) /\ UNCHANGED asked
  BY <1>0 DEF Visits, Turns
<1>2. FrameFits(f, c)
  BY DEF FInv, Fits
<1>3. n \in Nodes /\ c.visits \in [Nodes -> Nat]
  BY <1>0, <1>1, <1>2 DEF FrameFits
<1>4. /\ d.visits \in [Nodes -> Nat] /\ d.visits[n] = c.visits[n] + 1 /\ c.visits[n] \in Nat
      /\ \A m \in Nodes \ {n} : d.visits[m] = c.visits[m]
  BY <1>1, <1>3
<1>5. c.stopped # None => c.stopped \in Nodes /\ (IsBranch(f) \/ StopAsked(f)')
  BY <1>1, <1>2 DEF FrameFits, StopAsked
<1>6. ASSUME ~WentBack' PROVE Forward(d) /\ Again(f, d)'
  <2>1. ~WentBack
    BY <1>6, BackStays DEF FInv
  <2>2. Forward(c) /\ Again(f, c)
    BY <1>1, <1>2, <2>1 DEF FrameFits, Counts
  <2>3. Forward(d)
    <3>1. ASSUME NEW m \in Nodes, d.visits[m] >= 1 PROVE Reaches(m, n)
      <4>1. CASE m = n
        BY <4>1, ReachesSelf
      <4>2. CASE m # n
        BY <1>0, <1>1, <1>4, <2>2, <3>1, <4>2 DEF Forward
      <4> QED BY <4>1, <4>2
    <3> QED BY <1>1, <3>1 DEF Forward
  <2>4. ASSUME NEW u \in Times, u <= d.visits[n], u # d.visits[n] PROVE Repeats(n, f, u)'
    <3>1. u <= c.visits[n]
      BY <1>4, <2>4 DEF Times
    <3>2. Repeats(n, f, u)
      BY <1>0, <1>1, <2>2, <3>1 DEF Again
    <3> QED BY <3>2, RepeatsStays
  <2>5. Again(f, d)'
    BY <1>1, <2>4 DEF Again
  <2> QED BY <2>3, <2>5
<1>7. d.visits[n] \in Times
  BY <1>4 DEF Times
<1>8. FrameFits(f, d)'
  <2> HIDE DEF c
  <2> QED BY <1>1, <1>3, <1>4, <1>5, <1>6, <1>7, FitsAfter DEF Settled
<1>9. Advances(f)
  BY <1>0, <1>1, ReachesSelf DEF Advances
<1> QED BY <1>0, <1>8, <1>9

LEMMA EnterFits ==
  ASSUME FInv, TInv', Settled, RowsFit', Ordered', NEW f \in DOMAIN frames, Enter(f) PROVE FInv'
<1>1. TInv /\ frames[f].at \in Nodes \cup {None} /\ cur \in Nodes \cup {None} /\ (asked # {} => aborted)
  BY DEF FInv, Fits, FrameFits, RunFits
<1>2. /\ frames[f].pc = "enter" /\ UNCHANGED <<rows, starts>>
      /\ \/ Fails(f)
         \/ Finish /\ f = <<>> /\ frames[f].at = None /\ UNCHANGED <<asked, aborted>>
         \/ Rests(f)
         \/ Visits(f)
  BY <1>1, EnterIs
<1>3. CASE Finish /\ UNCHANGED <<asked, aborted>>
  <2>1. RunFits'
    <3>1. frames # <<>>
      OBVIOUS
    <3> QED BY <1>1, <1>2, <1>3, <3>1, RunKept DEF Finish, Settled
  <2> QED BY <1>3, <2>1, NobodyFits DEF Finish, FInv
<1>4. CASE Rests(f)
  <2>1. /\ Turns(f, "ret") /\ UNCHANGED cur /\ frames'[f].at = frames[f].at /\ frames'[f].pc = "ret"
        /\ Awaited(f, frames'[f]) = {} /\ UNCHANGED asked
        /\ frames'[f].visits = frames[f].visits /\ frames'[f].stopped = frames[f].at
        /\ frames[f].at # None => StopAsked(f) \/ IsBranch(f)
    BY <1>4 DEF Rests, Turns
  <2>2. StopAsked(f)' = StopAsked(f)
    BY <2>1 DEF StopAsked
  <2>3. FrameFits(f, frames[f])' /\ Advances(f)
    BY <2>1, <2>2, Stays
  <2> QED BY <1>1, <1>2, <2>1, <2>3, TurnKeeps
<1>5. CASE Visits(f)
  <2>1. FrameFits(f, frames[f])' /\ Advances(f)
    BY <1>2, <1>5, VisitsFit
  <2>2. Turns(f, "claim") /\ cur' \in Nodes \cup {None}
    BY <1>1, <1>5 DEF Visits
  <2> QED BY <1>2, <2>1, <2>2, TurnKeeps
<1> QED BY <1>2, <1>3, <1>4, <1>5, FailKeeps

LEMMA StepFits ==
  ASSUME FInv, TInv', Settled, RowsFit', Ordered', NEW f \in DOMAIN frames, Claim(f) \/ Execute(f)
  PROVE  FInv'
<1>1. /\ TInv /\ cur \in Nodes \cup {None} /\ FrameFits(f, frames[f])
  BY DEF FInv, Fits, RunFits
<1>2. frames[f].pc \in Inside
  BY DEF Claim, Execute, Inside
<1>3. frames[f].at \in Nodes
  BY <1>1, <1>2 DEF FrameFits
<1>4. ASSUME NEW pc \in Inside, Turns(f, pc), SameVisits(f, frames[f]), UNCHANGED <<cur, starts>>,
             pc = "commit" => Kind[frames[f].at] # "join" /\ frames'[f].res \in Outcomes(frames[f].at)
      PROVE  FInv'
  <2>1. /\ frames'[f].at = frames[f].at /\ frames'[f].pc = pc /\ Awaited(f, frames'[f]) = {} /\ UNCHANGED asked
        /\ frames'[f].visits = frames[f].visits /\ frames'[f].stopped = frames[f].stopped
    BY <1>4 DEF Turns, SameVisits
  <2>2. FrameFits(f, frames[f])' /\ Advances(f)
    BY <1>2, <1>4, <2>1, Stays
  <2> QED BY <1>1, <1>4, <2>2, TurnKeeps
<1>5. CASE Claim(f)
  <2>1. /\ UNCHANGED starts
        /\ \/ Fails(f)
           \/ Turns(f, "exec") /\ SameVisits(f, frames[f]) /\ UNCHANGED cur
           \/ /\ StepOf(f) \in DOMAIN rows /\ rows[StepOf(f)].done /\ UNCHANGED rows
              /\ Route(f, rows[StepOf(f)].res)
    BY <1>1, <1>3, <1>5, ClaimIs
  <2>2. ASSUME StepOf(f) \in DOMAIN rows, rows[StepOf(f)].done, UNCHANGED rows, Route(f, rows[StepOf(f)].res)
        PROVE  FInv'
    <3>1. PICK res : res = rows[StepOf(f)].res
      OBVIOUS
    <3>2. StepOf(f)[1] = frames[f].at
      BY DEF StepOf
    <3>3. res \in Outcomes(frames[f].at)
      BY <2>2, <3>1, <3>2 DEF FInv, RowsFit
    <3>4. PICK s : s = StepOf(f)
      OBVIOUS
    <3> QED BY <1>2, <2>1, <2>2, <3>1, <3>3, <3>4, RouteKeeps
  <2> QED BY <1>4, <2>1, <2>2, FailKeeps DEF Inside
<1>6. CASE Execute(f)
  BY <1>1, <1>3, <1>4, <1>6, ExecuteIs, FailKeeps DEF Inside
<1> QED BY <1>5, <1>6

LEMMA CommitFits ==
  ASSUME FInv, TInv', Settled, RowsFit', Ordered', NEW f \in DOMAIN frames, Commit(f) PROVE FInv'
<1>1. TInv /\ FrameFits(f, frames[f]) /\ frames[f].pc = "commit"
  BY DEF FInv, Fits, Commit
<1>2. frames[f].res \in Outcomes(frames[f].at)
  BY <1>1 DEF FrameFits
<1>3. PICK s : s = StepOf(f)
  OBVIOUS
<1>4. s \in DOMAIN rows /\ DOMAIN rows[s] = RowFields
  BY <1>1, <1>3 DEF TInv, IInv, Shapes, Uncommitted, Busy
<1>5. rows' = [rows EXCEPT ![s] = [@ EXCEPT !.done = TRUE, !.res = frames[f].res]]
      /\ Route(f, frames[f].res) /\ UNCHANGED starts
  BY <1>3 DEF Commit
<1>6. s \in DOMAIN rows' /\ rows'[s] = [rows[s] EXCEPT !.done = TRUE, !.res = frames[f].res]
  BY <1>4, <1>5
<1>7. rows'[s].done /\ rows'[s].res = frames[f].res
  BY <1>4, <1>6 DEF RowFields
<1> QED BY <1>1, <1>2, <1>3, <1>5, <1>6, <1>7, RouteKeeps DEF Inside

LEMMA BodyEndsFits ==
  ASSUME FInv, TInv', Settled, RowsFit', Ordered', NEW f \in DOMAIN frames, BodyEnds(f) PROVE FInv'
<1>1. TInv /\ FrameFits(f, frames[f]) /\ cur \in Nodes \cup {None} /\ (asked # {} => aborted)
  BY DEF FInv, Fits, RunFits
<1>2. PICK n, i, v : n = frames[f].at /\ i = frames[f].item + 1 /\ v = frames[f].visits[frames[f].at]
  OBVIOUS
<1>3. /\ frames[f].pc = "items" /\ UNCHANGED <<status, cur, rows, asked, aborted, starts>>
      /\ Rebuilds(f) /\ SameVisits(f, frames[f])
      /\ LeavesLoop(f, n, i) \/ TakesItem(f, n, i)
  BY <1>1, <1>2, BodyEndsIs
<1>4. n \in Nodes /\ v \in Times /\ Loops(n) /\ i \in Times /\ Routed(Key(n, f, v))
  <2>1. n \in Nodes /\ v \in Times /\ Loops(n) /\ frames[f].item \in Times /\ Routed(Key(n, f, v))
    BY <1>1, <1>2, <1>3 DEF FrameFits
  <2> QED BY <1>2, <2>1 DEF Times
<1>5. Routed(Key(n, f, v))'
  BY <1>4, RoutedStays
<1>6. FrameFits(f, frames[f])' /\ Starts(f) /\ Advances(f)
  BY <1>2, <1>3, <1>4, <1>5, LoopFits
<1> QED BY <1>1, <1>3, <1>6, Builds

LEMMA JoinFits ==
  ASSUME FInv, TInv', Settled, RowsFit', Ordered', NEW f \in DOMAIN frames, Join(f) PROVE FInv'
<1>1. FrameFits(f, frames[f]) /\ cur \in Nodes \cup {None} /\ (asked # {} => aborted) /\ frames[f].pc = "branches"
  BY DEF FInv, Fits, RunFits, Join
<1>2. frames[f].at \in Nodes
  BY <1>1 DEF FrameFits
<1>3. UNCHANGED <<rows, starts>> /\ (Fails(f) \/ Abort(f) \/ \E j : Meets(f, j))
  BY <1>2, JoinIs
<1>4. ASSUME NEW j, Meets(f, j) PROVE FInv'
  <2>1. FrameFits(f, frames[f])' /\ Starts(f) /\ (~WentBack' => Advances(f))
    BY <1>1, <1>4, MeetsFits
  <2>2. Rebuilds(f) /\ UNCHANGED <<status, cur, asked, aborted>>
    BY <1>4 DEF Meets
  <2> QED BY <1>1, <1>3, <2>1, <2>2, Builds
<1> QED BY <1>3, <1>4, AbortKeeps, FailKeeps

LEMMA WalkFits ==
  ASSUME FInv, NEW f \in DOMAIN frames, Walk(f), UNCHANGED graph PROVE FInv' /\ Settled /\ Records(f)
<1>1. TInv /\ [Next]_vars
  BY DEF FInv, Next
<1>2. TInv' /\ Settled
  <2>1. IInv' /\ CommittedKept
    BY <1>1, InvStep DEF TInv
  <2> QED BY <1>1, <2>1, TInvStep, WalkSettles DEF TInv
<1>3. Records(f)
  BY <1>1, WalkRecords
<1>4. RowsFit' /\ Ordered'
  BY <1>2, <1>3, RowsFitKept, OrderedKept DEF Settled
<1>5. FInv'
  BY <1>2, <1>4, EnterFits, StepFits, CommitFits, BodyEndsFits, JoinFits DEF Walk
<1> QED BY <1>2, <1>3, <1>5

(* What a step that leaves the rows and the run's history alone keeps.     *)
LEMMA RowsAlone ==
  ASSUME FInv, Settled, UNCHANGED rows PROVE RowsFit' /\ Ordered'
<1>1. RowsFit'
  <2>1. \A n : Outcomes(n)' = Outcomes(n)
    BY GraphStays DEF Outcomes, Settled
  <2> QED BY <2>1, GraphStays DEF FInv, RowsFit, Settled
<1>2. Ordered'
  <2>1. ~WentBack' => ~WentBack
    BY BackStays DEF FInv
  <2> QED BY <2>1, RepeatsStays, GraphStays DEF FInv, Ordered, Settled
<1> QED BY <1>1, <1>2

LEMMA StartFits == ASSUME FInv, Start, UNCHANGED graph PROVE FInv' /\ Settled
<1>1. TInv /\ [Next]_vars /\ UNCHANGED rows
  BY DEF FInv, Next, Start
<1>2. IInv' /\ CommittedKept
  BY <1>1, InvStep DEF TInv
<1>3. TInv' /\ Settled
  <2>1. Settled
    BY <1>1, <1>2, Settles DEF TInv
  <2> QED BY <1>1, <2>1, TInvStep
<1>4. PICK m : m = IF cur = None THEN Entry ELSE cur
  OBVIOUS
<1>5. m \in Nodes
  BY <1>4, NodesFit DEF FInv, RunFits
<1>6. DOMAIN frames' = {<<>>} /\ frames'[<<>>] = Frame(m, {}) /\ frames = <<>>
  BY <1>4 DEF Start, Put
<1>7. /\ status' = "running" /\ starts' = starts + 1 /\ asked' = {} /\ UNCHANGED cur
  BY DEF Start
<1>8. RunFits'
  <2>1. starts \in Nat /\ graph \in Graphs /\ cur \in Nodes \cup {None}
    BY DEF FInv, RunFits
  <2>2. starts' \in Nat /\ starts' > 0 /\ starts' # 0
    BY <1>7, <2>1
  <2> QED BY <1>7, <2>1, <2>2, GraphStays DEF RunFits
<1>9. RowsFit' /\ Ordered'
  BY <1>1, <1>3, RowsAlone
<1>10. Fits' /\ Below'
  <2>1. PICK d : d = frames'[<<>>]
    OBVIOUS
  <2>2. FrameFits(<<>>, d)'
    <3>1. d.visits = [x \in Nodes |-> 0] /\ d.at \in Nodes /\ d.pc = "enter" /\ d.stopped = None
      BY <1>5, <1>6, <2>1 DEF Frame
    <3>2. Forward(d)
      BY <3>1 DEF Forward
    <3>3. ASSUME NEW u \in Times, u <= d.visits[d.at] PROVE FALSE
      <4>1. d.visits[d.at] = 0 /\ u \in Nat /\ u > 0
        BY <3>1 DEF Times
      <4> QED BY <3>3, <4>1
    <3>4. Again(<<>>, d)'
      BY <3>3 DEF Again
    <3>5. d.visits \in [Nodes -> Nat]
      BY <3>1
    <3> QED BY <3>1, <3>2, <3>4, <3>5, FitsAfter DEF Inside
  <2>3. Fits'
    BY <1>6, <2>1, <2>2 DEF Fits
  <2>4. frames'[<<>>].pc = "enter"
    BY <1>6 DEF Frame
  <2>5. Awaited(<<>>, frames[<<>>])' = {}
    BY <2>4 DEF Awaited
  <2> QED BY <1>6, <2>3, <2>5 DEF Below
<1> QED BY <1>3, <1>8, <1>9, <1>10 DEF FInv

LEMMA CrashFits == ASSUME FInv, Crash, UNCHANGED graph PROVE FInv' /\ Settled
<1>1. TInv /\ [Next]_vars /\ UNCHANGED rows
  BY DEF FInv, Next, Crash
<1>2. IInv' /\ CommittedKept
  BY <1>1, InvStep DEF TInv
<1>3. TInv' /\ Settled
  <2>1. Settled
    BY <1>1, <1>2, Settles DEF TInv
  <2> QED BY <1>1, <2>1, TInvStep
<1>4. RunFits'
  <2>1. Nodes' = Nodes
    BY GraphStays
  <2>2. frames' = <<>>
    BY DEF Crash
  <2> QED BY <2>1, <2>2 DEF FInv, RunFits, Crash
<1>5. Fits' /\ Below'
  BY NobodyFits DEF Crash
<1> QED BY <1>1, <1>3, <1>4, <1>5, RowsAlone DEF FInv

LEMMA StutterFits == ASSUME FInv, UNCHANGED vars PROVE FInv' /\ Settled
<1>1. TInv /\ [Next]_vars /\ UNCHANGED <<graph, status, cur, rows, frames, asked, aborted, starts>>
  BY DEF FInv, vars
<1>2. IInv' /\ CommittedKept
  BY <1>1, InvStep DEF TInv
<1>3. TInv' /\ Settled
  <2>1. Settled
    BY <1>1, <1>2, Settles DEF TInv
  <2> QED BY <1>1, <2>1, TInvStep
<1>4. RunFits'
  BY <1>1, GraphStays DEF FInv, RunFits
<1>5. Fits'
  <2>1. ASSUME NEW f \in DOMAIN frames PROVE FrameFits(f, frames[f])'
    <3>1. PICK d : d = frames[f]
      OBVIOUS
    <3>2. FrameFits(f, d)'
      BY <1>1, <1>3, <3>1, FitStays DEF FInv, Fits
    <3> QED BY <1>1, <3>1, <3>2
  <2> QED BY <1>1, <2>1 DEF Fits
<1>6. Below'
  <2>1. ~WentBack' => ~WentBack
    BY <1>3, BackStays DEF FInv
  <2>2. /\ \A x, t : Reaches(x, t)' = Reaches(x, t)
        /\ \A x : Awaited(x, frames[x])' = Awaited(x, frames[x])
    BY <1>1, ReachesStays DEF Awaited, Branch, Items, Edges
  <2> QED BY <1>1, <2>1, <2>2 DEF FInv, Below
<1> QED BY <1>1, <1>3, <1>4, <1>5, <1>6, RowsAlone DEF FInv

LEMMA FInvInit == ASSUME Init PROVE FInv
<1>1. /\ graph \in Graphs /\ status = "pending" /\ cur = None /\ rows = <<>> /\ frames = <<>>
      /\ asked = {} /\ starts = 0
  BY DEF Init
<1>2. DOMAIN rows = {} /\ DOMAIN frames = {}
  BY <1>1
<1>3. TInv
  BY TInvInit
<1>4. RunFits
  BY <1>1 DEF RunFits
<1>5. RowsFit /\ Ordered /\ Fits /\ Below
  BY <1>2 DEF RowsFit, Ordered, Fits, Below
<1> QED BY <1>3, <1>4, <1>5 DEF FInv

-----------------------------------------------------------------------------
(* What is owed, from one step to the next                                 *)

LEMMA LeadsStay ==
  ASSUME Settled, NEW s \in DOMAIN rows, rows[s].done
  PROVE  s \in DOMAIN rows' /\ rows'[s].done /\ rows'[s].res = rows[s].res /\ Leads(s)' = Leads(s)
<1>1. s \in DOMAIN rows' /\ rows'[s] = rows[s]
  BY DEF Settled, RowsGrow
<1>2. PICK n, k, r : n = s[1] /\ k = Base(s[2]) /\ r = rows[s].res
  OBVIOUS
<1>3. Targets(n, k, r)' = Targets(n, k, r)
  BY TargetsStay DEF Settled
<1>4. Targets(n, k, rows[s].res)' = Targets(n, k, rows[s].res)
  BY <1>1, <1>2, <1>3
<1> QED BY <1>1, <1>2, <1>4 DEF Leads

LEMMA VisitedStays ==
  ASSUME Settled, NEW n, NEW k, Visited(n, k) PROVE Visited(n, k)'
  BY GraphStays DEF Visited, Settled, RowsGrow

(* A step that commits nothing leaves owed what was.                       *)
LEMMA Alike ==
  ASSUME FInv, RowsFit', Settled, \A s \in DOMAIN rows' : rows'[s].done => s \in DOMAIN rows /\ rows[s].done
  PROVE  /\ WentBack' <=> WentBack
         /\ \A S : RowsIn(S)' <=> RowsIn(S)
         /\ \A p : Owed(p)' <=> Owed(p)
         /\ \A S : Covers(S)' <=> Covers(S)
<1>1. \A s \in DOMAIN rows : rows[s].done =>
        s \in DOMAIN rows' /\ rows'[s].done /\ rows'[s].res = rows[s].res /\ Leads(s)' = Leads(s)
  BY LeadsStay
<1>2. Stop' = Stop /\ Entry' = Entry /\ Kind' = Kind /\ \A p : AtJoin(p)' = AtJoin(p) /\ Beyond(p)' = Beyond(p)
  BY GraphStays, TargetsStay DEF Settled
<1>3. WentBack' <=> WentBack
  <2>1. WentBack => WentBack'
    <3>1. \A s \in DOMAIN rows : rows[s].res = "stop" => rows[s].done
      BY DEF FInv, RowsFit
    <3> QED BY <1>1, <1>2, <3>1 DEF WentBack
  <2>2. WentBack' => WentBack
    <3>1. \A s \in DOMAIN rows' : rows'[s].res = "stop" => rows'[s].done
      BY DEF RowsFit
    <3> QED BY <1>1, <1>2, <3>1 DEF WentBack
  <2> QED BY <2>1, <2>2
<1>4. ASSUME NEW S PROVE RowsIn(S)' <=> RowsIn(S)
  BY <1>1 DEF RowsIn
<1>5. ASSUME NEW p PROVE Owed(p)' <=> Owed(p)
  <2>1. Wanted(p)' <=> Wanted(p)
    BY <1>1, <1>2 DEF Wanted
  <2>2. \A n, k : Visited(n, k)' <=> Visited(n, k)
    BY <1>1, <1>2 DEF Visited
  <2> QED BY <2>1, <2>2 DEF Owed
<1>6. ASSUME NEW S PROVE Covers(S)' <=> Covers(S)
  BY <1>5 DEF Covers
<1> QED BY <1>3, <1>4, <1>5, <1>6

(* The positions of f and of its own frames after its step.                *)
After(f) == Holds(f, frames'[f]) \cup UNION {Holds(b, frames'[b]) : b \in Awaited(f, frames'[f])}

LEMMA LiveAfter ==
  ASSUME UNCHANGED graph, NEW f, Rebuilds(f), NEW S, LiveIn(S)' PROVE \A p \in After(f) : In(p, S)
<1>1. \A g, c : Holds(g, c)' = Holds(g, c)
  BY TargetsStay
<1>2. f \in DOMAIN frames' /\ Awaited(f, frames'[f]) \subseteq DOMAIN frames'
  BY DEF Rebuilds
<1>3. \A g \in DOMAIN frames' : \A p \in Holds(g, frames'[g]) : In(p, S)
  BY <1>1 DEF LiveIn
<1> QED BY <1>2, <1>3 DEF After

LEMMA LiveBack ==
  ASSUME UNCHANGED graph, NEW f, Rebuilds(f), NEW S, NEW T, S \subseteq T, LiveIn(S)',
         \A g \in Under(f) \cup {f} : \A p \in Holds(g, frames[g]) : In(p, T)
  PROVE  LiveIn(T)
<1>1. \A g, c : Holds(g, c)' = Holds(g, c)
  BY TargetsStay
<1>2. \A g \in DOMAIN frames \ (Under(f) \cup {f}) : g \in DOMAIN frames' /\ frames'[g] = frames[g]
  BY DEF Rebuilds
<1>3. \A g \in DOMAIN frames' : \A p \in Holds(g, frames'[g]) : In(p, S)
  BY <1>1 DEF LiveIn
<1>4. \A p : In(p, S) => In(p, T)
  BY DEF In
<1>5. ASSUME NEW g \in DOMAIN frames, g \notin Under(f) \cup {f}, NEW p \in Holds(g, frames[g]) PROVE In(p, T)
  BY <1>2, <1>3, <1>4, <1>5
<1> QED BY <1>5 DEF LiveIn

(* Nothing of f counts any more.                                           *)
Quiet(f) == StopAsked(f)' /\ frames'[f].pc \notin Inside /\ \A b \in Awaited(f, frames'[f]) : StopAsked(b)'

LEMMA CountedOn ==
  ASSUME UNCHANGED graph, asked \subseteq asked', NEW f, Rebuilds(f), NEW S, CountedIn(S),
         Quiet(f) \/ \A p \in After(f) : In(p, S)
  PROVE  CountedIn(S)'
<1>1. \A g, c : Holds(g, c)' = Holds(g, c)
  BY TargetsStay
<1>2. /\ DOMAIN frames' = (DOMAIN frames \ Under(f)) \cup Awaited(f, frames'[f])
      /\ \A g \in DOMAIN frames \ (Under(f) \cup {f}) : frames'[g] = frames[g]
      /\ \A g \in Awaited(f, frames'[f]) : frames'[g].pc = "enter"
  BY DEF Rebuilds
<1>3. SUFFICES ASSUME NEW g \in DOMAIN frames', Counts(g, frames[g])', NEW p \in Holds(g, frames'[g])
               PROVE  In(p, S)
  <2>1. \A g : Holds(g, frames[g])' = Holds(g, frames'[g])
    BY <1>1
  <2> QED BY <1>3, <2>1 DEF CountedIn
<1>4. CASE g = f \/ g \in Awaited(f, frames'[f])
  <2>1. ~Quiet(f)
    BY <1>2, <1>3, <1>4 DEF Quiet, Counts, Inside
  <2> QED BY <1>3, <1>4, <2>1 DEF After
<1>5. CASE g # f /\ g \notin Awaited(f, frames'[f])
  <2>1. g \in DOMAIN frames /\ frames'[g] = frames[g]
    BY <1>2, <1>5
  <2>2. StopAsked(g) => StopAsked(g)'
    BY DEF StopAsked
  <2>3. Counts(g, frames[g])
    BY <1>3, <2>1, <2>2 DEF Counts
  <2> QED BY <1>3, <2>1, <2>3 DEF CountedIn
<1> QED BY <1>4, <1>5

(* What is left of the loop at n from item i on.                           *)
Loop(f, n, i) == {<<Next_(n, "after"), f>>} \cup
  {<<Edges[n]["body"], Append(f, <<"item", Items[n][j]>>)>> : j \in i..Len(Items[n])}

LEMMA LoopHolds ==
  ASSUME NEW f, NEW n, NEW i \in Times, Len(Items[n]) \in Nat, LeavesLoop(f, n, i) \/ TakesItem(f, n, i)
  PROVE  After(f) \subseteq Loop(f, n, i) /\ (~StopAsked(f) => After(f) = Loop(f, n, i))
<1>1. CASE LeavesLoop(f, n, i)
  <2>1. After(f) = {<<Next_(n, "after"), f>>}
    BY <1>1 DEF LeavesLoop, After, Holds
  <2>2. ~StopAsked(f) => i..Len(Items[n]) = {}
    BY <1>1 DEF LeavesLoop, Times
  <2> QED BY <2>1, <2>2 DEF Loop
<1>2. CASE TakesItem(f, n, i)
  <2> DEFINE P(j) == <<Edges[n]["body"], Append(f, <<"item", Items[n][j]>>)>>
  <2>1. PICK b : b = Append(f, <<"item", Items[n][i]>>)
    OBVIOUS
  <2>2. /\ frames'[f].pc = "items" /\ frames'[f].at = n /\ frames'[f].item = i
        /\ Awaited(f, frames'[f]) = {b} /\ ~(i > Len(Items[n]))
        /\ \E known : frames'[b] = Frame(Edges[n]["body"], known)
    BY <1>2, <2>1 DEF TakesItem
  <2>3. frames'[b].pc = "enter" /\ frames'[b].at = Edges[n]["body"]
    BY <2>2 DEF Frame
  <2>4. Holds(b, frames'[b]) = {P(i)}
    BY <2>1, <2>3 DEF Holds
  <2>5. Holds(f, frames'[f]) = {<<Next_(n, "after"), f>>} \cup {P(j) : j \in (i + 1)..Len(Items[n])}
    BY <2>2 DEF Holds
  <2>6. i..Len(Items[n]) = {i} \cup ((i + 1)..Len(Items[n]))
    BY <2>2 DEF Times
  <2>7. Loop(f, n, i) = {<<Next_(n, "after"), f>>} \cup {P(j) : j \in i..Len(Items[n])}
    BY DEF Loop
  <2>8. After(f) = Holds(f, frames'[f]) \cup Holds(b, frames'[b])
    BY <2>2 DEF After
  <2> HIDE DEF P
  <2>9. {P(j) : j \in i..Len(Items[n])} = {P(i)} \cup {P(j) : j \in (i + 1)..Len(Items[n])}
    BY <2>6
  <2> QED BY <2>4, <2>5, <2>7, <2>8, <2>9
<1> QED BY <1>1, <1>2

LEMMA RouteHolds ==
  ASSUME NEW f, NEW n, NEW res, Len(Items[n]) \in Nat, GoesOn(f, n, res)
  PROVE  After(f) \subseteq Targets(n, f, res) /\ (~StopAsked(f) => After(f) = Targets(n, f, res))
<1>1. ASSUME NEW t, frames'[f].pc = "enter", frames'[f].at = t, Awaited(f, frames'[f]) = {}
      PROVE  After(f) = {<<t, f>>}
  BY <1>1 DEF After, Holds
<1>2. CASE res # "stop" /\ Kind[n] = "fork" /\ StartsAll(f, n)
  <2>1. /\ frames'[f].pc = "branches" /\ Awaited(f, frames'[f]) = {Branch(f, l) : l \in DOMAIN Edges[n]}
        /\ \A l \in DOMAIN Edges[n] : \E known : frames'[Branch(f, l)] = Frame(Edges[n][l], known)
    BY <1>2 DEF StartsAll
  <2>2. Holds(f, frames'[f]) = {}
    BY <2>1 DEF Holds
  <2>3. ASSUME NEW l \in DOMAIN Edges[n] PROVE Holds(Branch(f, l), frames'[Branch(f, l)]) = {<<Edges[n][l], Branch(f, l)>>}
    <3>1. PICK known : frames'[Branch(f, l)] = Frame(Edges[n][l], known)
      BY <2>1
    <3>2. PICK b, c : b = Branch(f, l) /\ c = Frame(Edges[n][l], known)
      OBVIOUS
    <3>3. c.pc = "enter" /\ c.at = Edges[n][l]
      BY <3>2 DEF Frame
    <3>4. Holds(b, c) = {<<Edges[n][l], b>>}
      BY <3>3 DEF Holds
    <3> QED BY <3>1, <3>2, <3>4
  <2>4. After(f) = {<<Edges[n][l], Branch(f, l)>> : l \in DOMAIN Edges[n]}
    BY <2>1, <2>2, <2>3 DEF After
  <2> QED BY <1>2, <2>4 DEF Targets
<1>3. CASE res # "stop" /\ Loops(n) /\ (LeavesLoop(f, n, 1) \/ TakesItem(f, n, 1))
  <2>1. 1 \in Times
    BY DEF Times
  <2>2. After(f) \subseteq Loop(f, n, 1) /\ (~StopAsked(f) => After(f) = Loop(f, n, 1))
    BY <1>3, <2>1, LoopHolds
  <2>3. Loop(f, n, 1) = Targets(n, f, res)
    BY <1>3 DEF Loop, Loops, Targets
  <2> QED BY <2>2, <2>3
<1>4. CASE res = "stop" /\ frames'[f].pc = "enter" /\ Awaited(f, frames'[f]) = {} /\ frames'[f].at = Stop[n].target
  BY <1>1, <1>4 DEF Targets
<1>5. CASE /\ res # "stop" /\ Kind[n] \notin {"fork", "fanout"}
           /\ frames'[f].pc = "enter" /\ Awaited(f, frames'[f]) = {} /\ frames'[f].at = Next_(n, res)
  BY <1>1, <1>5 DEF Targets
<1> QED BY <1>2, <1>3, <1>4, <1>5 DEF GoesOn

-----------------------------------------------------------------------------
(* What is owed is ahead                                                   *)

Covered == Ahead /\ Anew /\ Paid
NothingNew == \A s \in DOMAIN rows' : rows'[s].done => s \in DOMAIN rows /\ rows[s].done

LEMMA NothingNewBy ==
  ASSUME FInv, NEW f \in DOMAIN frames, Records(f), frames[f].pc # "commit" PROVE NothingNew
  BY DEF Records, NothingNew

LEMMA Running == ASSUME FInv, NEW f \in DOMAIN frames PROVE frames # <<>> /\ status = "running" /\ starts # 0
<1>1. frames # <<>>
  OBVIOUS
<1>2. starts \in Nat /\ (frames # <<>> => status = "running" /\ starts > 0)
  BY DEF FInv, RunFits
<1> QED BY <1>1, <1>2

(* A step of f that commits nothing.  What S does not hold of what was     *)
(* live before it, T does, and nobody is owed it.                          *)
LEMMA StepCovers ==
  ASSUME FInv, FInv', Settled, Covered, NothingNew, UNCHANGED <<status, cur, starts>>,
         asked \subseteq asked', aborted => aborted', NEW f \in DOMAIN frames, Rebuilds(f),
         \A S : ~aborted' /\ JoinsIn(S) /\ LiveIn(S)' =>
           \E T : JoinsIn(T) /\ (RowsIn(S) => RowsIn(T)) /\ LiveIn(T) /\ (Covers(T) => Covers(S)),
         \A S : JoinsIn(S) /\ CountedIn(S) => Quiet(f) \/ \A p \in After(f) : In(p, S)
  PROVE  Covered'
<1>1. frames # <<>> /\ status = "running"
  BY Running
<1>2. /\ WentBack' <=> WentBack
      /\ \A S : RowsIn(S)' <=> RowsIn(S)
      /\ \A S : Covers(S)' <=> Covers(S)
  BY Alike DEF FInv, NothingNew
<1>3. UNCHANGED graph /\ \A S : JoinsIn(S)' <=> JoinsIn(S)
  BY TargetsStay DEF Settled
<1>4. Home' = Home
  BY <1>3, GraphStays DEF Home
<1>5. Ahead'
  <2>1. SUFFICES ASSUME ~aborted', NEW S, JoinsIn(S), starts = 1 \/ (~WentBack /\ RowsIn(S)), LiveIn(S)'
                 PROVE  Covers(S)
    BY <1>2, <1>3 DEF Ahead
  <2>2. PICK T : JoinsIn(T) /\ (RowsIn(S) => RowsIn(T)) /\ LiveIn(T) /\ (Covers(T) => Covers(S))
    BY <2>1
  <2>3. Ahead /\ ~aborted
    BY <2>1 DEF Covered
  <2> QED BY <1>1, <2>1, <2>2, <2>3 DEF Ahead
<1>6. Anew'
  <2>1. SUFFICES ASSUME ~WentBack, NEW S, JoinsIn(S), RowsIn(S), Home \in S
                 PROVE  Covers(S) /\ CountedIn(S)'
    BY <1>2, <1>3, <1>4 DEF Anew
  <2>2. Covers(S) /\ CountedIn(S)
    BY <1>1, <2>1 DEF Covered, Anew
  <2>3. Quiet(f) \/ \A p \in After(f) : In(p, S)
    BY <2>1, <2>2
  <2> QED BY <1>3, <2>2, <2>3, CountedOn
<1>7. Paid'
  BY <1>1 DEF Paid
<1> QED BY <1>5, <1>6, <1>7 DEF Covered

(* A frame that stays at its node.                                         *)
LEMMA TurnCovers ==
  ASSUME FInv, FInv', Settled, Covered, NothingNew, UNCHANGED <<cur, starts>>,
         NEW f \in DOMAIN frames, NEW pc, Turns(f, pc), Under(f) = {},
         Holds(f, frames'[f]) = Holds(f, frames[f]), Counts(f, frames[f]) \/ Quiet(f)
  PROVE  Covered'
<1>1. Rebuilds(f) /\ UNCHANGED <<graph, status, asked, aborted>> /\ After(f) = Holds(f, frames[f])
  BY DEF Turns, After, Settled
<1>2. ASSUME NEW S, LiveIn(S)' PROVE LiveIn(S)
  <2>1. \A p \in After(f) : In(p, S)
    BY <1>1, <1>2, LiveAfter
  <2> QED BY <1>1, <1>2, <2>1, LiveBack
<1>3. ASSUME NEW S, CountedIn(S) PROVE Quiet(f) \/ \A p \in After(f) : In(p, S)
  BY <1>1, <1>3 DEF CountedIn
<1> QED BY <1>1, <1>2, <1>3, StepCovers

LEMMA AbortCovers ==
  ASSUME FInv, FInv', Settled, Covered, NothingNew, UNCHANGED starts, NEW b \in DOMAIN frames, Rested(b)
  PROVE  Covered'
<1>1. /\ Rebuilds(b) /\ aborted' /\ asked \subseteq asked' /\ UNCHANGED <<status, cur>>
      /\ frames'[b].pc = "ret" /\ Awaited(b, frames'[b]) = {} /\ StopAsked(b)'
  BY DEF Rested
<1>2. Quiet(b)
  BY <1>1 DEF Quiet, Inside
<1> QED BY <1>1, <1>2, StepCovers

(* A run that completes because it was asked to.                           *)
LEMMA OverCovers == ASSUME frames' = <<>>, status' = "completed", aborted' PROVE Covered'
  BY DEF Covered, Ahead, Anew, Paid

LEMMA OnlyRoot ==
  ASSUME TInv, <<>> \in DOMAIN frames, Under(<<>>) = {} PROVE DOMAIN frames = {<<>>}
<1>1. ASSUME NEW g \in DOMAIN frames PROVE Prefix(<<>>, g)
  <2>1. IsSequence(g)
    BY DEF TInv, IInv, Shapes, Named
  <2>2. Len(g) \in Nat
    BY <2>1, Initials
  <2>3. 0 \in 0..Len(g) /\ 0 <= Len(g) /\ Len(<<>>) = 0
    BY <2>2
  <2>4. SubSeq(g, 1, 0) = [j \in 1..0 |-> g[j]]
    BY <2>1, <2>3, Initials
  <2>5. 1..0 = {}
    OBVIOUS
  <2>6. [j \in 1..0 |-> g[j]] = <<>>
    BY <2>5
  <2> QED BY <2>3, <2>4, <2>6 DEF Prefix
<1> QED BY <1>1 DEF Under

(* The top chain comes to its end: nothing was ahead of it.                *)
LEMMA FinishCovers ==
  ASSUME FInv, FInv', Settled, Covered, NothingNew, UNCHANGED <<starts, aborted>>, Finish,
         <<>> \in DOMAIN frames, frames[<<>>].pc = "enter", frames[<<>>].at = None
  PROVE  Covered'
<1>1. DOMAIN frames = {<<>>} /\ frames # <<>>
  <2>1. Under(<<>>) = {}
    BY Alone DEF FInv
  <2> QED BY <2>1, OnlyRoot DEF FInv
<1>2. (WentBack' <=> WentBack) /\ \A p : Owed(p)' <=> Owed(p)
  BY Alike DEF FInv, NothingNew
<1>3. Paid'
  <2>1. SUFFICES ASSUME ~aborted, starts = 1 \/ ~WentBack, NEW p PROVE ~Owed(p)
    BY <1>2 DEF Paid
  <2>2. JoinsIn({}) /\ RowsIn({})
    BY DEF JoinsIn, RowsIn
  <2>3. Holds(<<>>, frames[<<>>]) = {<<None, <<>>>>}
    BY DEF Holds
  <2>4. LiveIn({})
    BY <1>1, <2>3 DEF LiveIn, In
  <2>5. Covers({})
    BY <1>1, <2>1, <2>2, <2>4 DEF Covered, Ahead
  <2> QED BY <2>5 DEF Covers
<1>4. Ahead' /\ Anew'
  BY DEF Finish, Ahead, Anew
<1> QED BY <1>3, <1>4 DEF Covered

(* The top chain takes up its next node: all that is owed is ahead of it.  *)
LEMMA HomeCovers ==
  ASSUME FInv, FInv', Settled, Covered, NothingNew, UNCHANGED starts,
         <<>> \in DOMAIN frames, frames[<<>>].pc = "enter", Visits(<<>>)
  PROVE  Covered'
<1>1. PICK n : n = frames[<<>>].at
  OBVIOUS
<1>2. /\ Rebuilds(<<>>) /\ Awaited(<<>>, frames'[<<>>]) = {} /\ UNCHANGED <<graph, status, asked, aborted>>
      /\ frames'[<<>>].pc = "claim" /\ frames'[<<>>].at = n /\ n # None /\ cur' = n /\ ~StopAsked(<<>>)
  BY <1>1 DEF Visits, Turns, Settled
<1>3. DOMAIN frames = {<<>>} /\ frames # <<>> /\ Under(<<>>) = {}
  <2>1. Under(<<>>) = {}
    BY Alone DEF FInv
  <2> QED BY <2>1, OnlyRoot DEF FInv
<1>4. Holds(<<>>, frames[<<>>]) = {<<n, <<>>>>} /\ Holds(<<>>, frames'[<<>>]) = {<<n, <<>>>>}
  BY <1>1, <1>2 DEF Holds
<1>5. ~aborted /\ status = "running"
  BY <1>2, EveryoneIsAsked, Running DEF FInv
<1>6. /\ WentBack' <=> WentBack
      /\ \A S : RowsIn(S)' <=> RowsIn(S)
      /\ \A S : Covers(S)' <=> Covers(S)
      /\ \A S : JoinsIn(S)' <=> JoinsIn(S)
  BY Alike, TargetsStay DEF FInv, NothingNew, Settled
<1>7. After(<<>>) = {<<n, <<>>>>}
  BY <1>2, <1>4 DEF After
<1>8. Ahead'
  <2>1. SUFFICES ASSUME NEW S, JoinsIn(S), starts = 1 \/ (~WentBack /\ RowsIn(S)), LiveIn(S)'
                 PROVE  Covers(S)
    BY <1>6 DEF Ahead
  <2>2. In(<<n, <<>>>>, S)
    BY <1>2, <1>7, <2>1, LiveAfter
  <2>3. LiveIn(S)
    BY <1>3, <1>4, <2>2 DEF LiveIn
  <2> QED BY <1>3, <1>5, <2>1, <2>3 DEF Covered, Ahead
<1>9. Anew'
  <2>1. Home' = <<n, <<>>>>
    BY <1>2 DEF Home
  <2>2. SUFFICES ASSUME ~WentBack, NEW S, JoinsIn(S), RowsIn(S), <<n, <<>>>> \in S
                 PROVE  Covers(S) /\ CountedIn(S)'
    BY <1>6, <2>1 DEF Anew
  <2>3. In(<<n, <<>>>>, S)
    BY <2>2 DEF In
  <2>4. LiveIn(S) /\ CountedIn(S)
    BY <1>3, <1>4, <2>3 DEF LiveIn, CountedIn
  <2>5. Covers(S)
    BY <1>3, <1>5, <2>2, <2>4 DEF Covered, Ahead
  <2>6. CountedIn(S)'
    BY <1>2, <1>7, <2>3, <2>4, CountedOn
  <2> QED BY <2>5, <2>6
<1>10. Paid'
  BY <1>2, <1>5 DEF Paid
<1> QED BY <1>8, <1>9, <1>10 DEF Covered

(* A result that leads back to where it came from.                         *)
LEMMA LeadsBack ==
  ASSUME NEW n, NEW f, IsSequence(f), NEW r, r # "stop", <<n, f>> \in Targets(n, f, r)
  PROVE  \/ Kind[n] = "fanout" /\ Next_(n, "after") = n
         \/ Kind[n] # "fanout" /\ Targets(n, f, r) = {<<n, f>>}
<1>1. \A x : Append(f, x) # f
  <2>1. ASSUME NEW x PROVE Append(f, x) # f
    <3>1. Len(f) \in Nat /\ Len(Append(f, x)) = Len(f) + 1
      BY AppendInitials
    <3> QED BY <3>1
  <2> QED BY <2>1
<1>2. CASE Kind[n] = "fork"
  <2>1. PICK l \in DOMAIN Edges[n] : <<n, f>> = <<Edges[n][l], Branch(f, l)>>
    BY <1>2 DEF Targets
  <2> QED BY <1>1, <2>1 DEF Branch
<1>3. CASE Kind[n] = "fanout"
  <2>1. \/ <<n, f>> = <<Next_(n, "after"), f>>
        \/ \E j \in 1..Len(Items[n]) : <<n, f>> = <<Edges[n]["body"], Append(f, <<"item", Items[n][j]>>)>>
    BY <1>3 DEF Targets
  <2>2. ASSUME NEW j, <<n, f>> = <<Edges[n]["body"], Append(f, <<"item", Items[n][j]>>)>> PROVE FALSE
    <3>1. f = Append(f, <<"item", Items[n][j]>>)
      BY <2>2
    <3> QED BY <1>1, <3>1
  <2> QED BY <1>3, <2>1, <2>2
<1>4. CASE Kind[n] \notin {"fork", "fanout"}
  BY <1>4 DEF Targets
<1> QED BY <1>2, <1>3, <1>4

(* f has the result res of n, which is committed, and goes on from n.      *)
Results(f, n, v, res) ==
  /\ frames[f].pc \in Inside /\ frames[f].at = n /\ frames[f].visits[n] = v
  /\ Key(n, f, v) \in DOMAIN rows' /\ rows'[Key(n, f, v)].done /\ rows'[Key(n, f, v)].res = res
  /\ \A x \in DOMAIN rows' : rows'[x].done => x = Key(n, f, v) \/ (x \in DOMAIN rows /\ rows[x].done)
Routes(f, n, v, res) == Results(f, n, v, res) /\ Rebuilds(f) /\ GoesOn(f, n, res) /\ Kind[n] # "join"

LEMMA ResultsIs ==
  ASSUME FInv, Settled, NEW f \in DOMAIN frames, NEW n \in Nodes, NEW v \in Times, NEW res, Results(f, n, v, res)
  PROVE  /\ Named(f) /\ Place(Key(n, f, v)) = <<n, f>> /\ Leads(Key(n, f, v))' = Targets(n, f, res)
         /\ Visited(n, f)' /\ Under(f) = {} /\ Holds(f, frames[f]) = {<<n, f>>}
<1>1. Named(f)
  BY DEF FInv, TInv, IInv, Shapes
<1>2. PICK s : s = Key(n, f, v)
  OBVIOUS
<1>3. s[1] = n /\ s[2] = VisitKey(f, v)
  BY <1>2 DEF Key
<1>4. Base(s[2]) = f
  BY <1>1, <1>3, BaseOfKey
<1>5. s \in DOMAIN rows' /\ rows'[s].done /\ rows'[s].res = res
  BY <1>2 DEF Results
<1>6. Leads(s)' = Targets(n, f, res)
  <2>1. Targets(n, f, rows[s].res)' = Targets(n, f, res)
    BY <1>5, TargetsStay DEF Settled
  <2> QED BY <1>3, <1>4, <2>1 DEF Leads
<1>7. Visited(n, f)'
  BY <1>3, <1>4, <1>5 DEF Visited
<1>8. Under(f) = {} /\ Holds(f, frames[f]) = {<<n, f>>}
  <2>1. frames[f].pc \notin {"items", "branches"}
    BY DEF Results, Inside
  <2>2. Under(f) = {}
    BY <2>1, Alone DEF FInv
  <2> QED BY <2>2 DEF Holds, Results, Inside
<1> QED BY <1>1, <1>2, <1>3, <1>4, <1>6, <1>7, <1>8 DEF Place

(* What becomes owed is where the result leads.                            *)
LEMMA RouteOwes ==
  ASSUME FInv, Settled, NEW f \in DOMAIN frames, NEW n \in Nodes, NEW v \in Times, NEW res, Results(f, n, v, res),
         NEW S, JoinsIn(S), \A q \in Targets(n, f, res) : In(q, S), Covers(S \cup {<<n, f>>})
  PROVE  Covers(S)'
<1>1. PICK s : s = Key(n, f, v)
  OBVIOUS
<1>2. /\ Leads(s)' = Targets(n, f, res) /\ Visited(n, f)'
      /\ \A x \in DOMAIN rows' : rows'[x].done => x = s \/ (x \in DOMAIN rows /\ rows[x].done)
  BY <1>1, ResultsIs DEF Results
<1>3. \A x \in DOMAIN rows : rows[x].done =>
        x \in DOMAIN rows' /\ rows'[x].done /\ rows'[x].res = rows[x].res /\ Leads(x)' = Leads(x)
  BY LeadsStay
<1>4. Entry' = Entry /\ \A p : AtJoin(p)' = AtJoin(p) /\ Beyond(p)' = Beyond(p)
  BY GraphStays, TargetsStay DEF Settled
<1>5. SUFFICES ASSUME NEW p, Wanted(p)', ~Visited(p[1], p[2])' PROVE p \in S
  BY DEF Covers, Owed
<1>6. p[1] # None /\ p # <<n, f>> /\ ~Visited(p[1], p[2])
  <2>1. p[1] # None
    BY <1>5 DEF Visited
  <2>2. p # <<n, f>>
    BY <1>2, <1>5
  <2>3. ~Visited(p[1], p[2])
    <3>1. PICK a, k : a = p[1] /\ k = p[2]
      OBVIOUS
    <3> QED BY <1>5, <3>1, VisitedStays
  <2> QED BY <2>1, <2>2, <2>3
<1>7. CASE Wanted(p)
  BY <1>6, <1>7 DEF Covers, Owed
<1>8. CASE \E q \in Targets(n, f, res) : p = q \/ (AtJoin(q) /\ p = Beyond(q))
  <2>1. PICK q \in Targets(n, f, res) : p = q \/ (AtJoin(q) /\ p = Beyond(q))
    BY <1>8
  <2>2. AtJoin(q) => q[1] # None
    BY DEF AtJoin
  <2>3. In(p, S)
    BY <2>1, <2>2 DEF JoinsIn, In
  <2> QED BY <1>6, <2>3 DEF In
<1>9. Wanted(p) \/ \E q \in Targets(n, f, res) : p = q \/ (AtJoin(q) /\ p = Beyond(q))
  <2>1. \/ p = <<Entry', <<>>>>
        \/ \E x \in DOMAIN rows' : rows'[x].done /\ \E q \in Leads(x)' : p = q \/ (AtJoin(q)' /\ p = Beyond(q)')
    BY <1>5 DEF Wanted
  <2> QED BY <1>2, <1>3, <1>4, <2>1 DEF Wanted
<1> QED BY <1>7, <1>8, <1>9

(* The rows of the visits of f to n lead where this visit does, or to n.   *)
LEMMA RouteRows ==
  ASSUME FInv, RowsFit', Settled, NEW f \in DOMAIN frames, NEW n \in Nodes, NEW v \in Times, NEW res \in Outcomes(n),
         Routes(f, n, v, res), NEW S, \A q \in Targets(n, f, res) : In(q, S), ~WentBack', RowsIn(S)'
  PROVE  RowsIn(S \cup {<<n, f>>})
<1> DEFINE T == S \cup {<<n, f>>}
<1>1. PICK s : s = Key(n, f, v)
  OBVIOUS
<1>2. Named(f) /\ IsSequence(f) /\ Leads(s)' = Targets(n, f, res) /\ n # None
  BY <1>1, ResultsIs, NodesFit DEF Named, Routes
<1>3. ~WentBack /\ Ordered /\ FrameFits(f, frames[f])
  BY BackStays DEF FInv, Fits
<1>4. /\ s \in DOMAIN rows' /\ rows'[s].done /\ rows'[s].res = res /\ GoesOn(f, n, res)
      /\ frames[f].pc \in Inside /\ frames[f].at = n /\ frames[f].visits[n] = v
  BY <1>1 DEF Routes, Results
<1>5. res # "stop"
  <2>1. SUFFICES ASSUME res = "stop" PROVE FALSE
    OBVIOUS
  <2>2. Stop[n].action = "goto"
    BY <1>4, <2>1, NodesFit DEF GoesOn
  <2>3. s[1] = n /\ Stop' = Stop
    BY <1>1, GraphStays DEF Key, Settled
  <2> QED BY <1>4, <2>1, <2>2, <2>3 DEF WentBack
<1>6. <<n, f>> \in Targets(n, f, res) => <<n, f>> \in S
  BY <1>2 DEF In
<1>7. SUFFICES ASSUME NEW x \in DOMAIN rows, rows[x].done, Place(x) \in T, NEW p \in Leads(x) PROVE In(p, T)
  BY DEF RowsIn
<1>8. x \in DOMAIN rows' /\ rows'[x].done /\ rows'[x].res = rows[x].res /\ Leads(x)' = Leads(x)
  BY <1>7, LeadsStay
<1>9. \A q : In(q, S) => In(q, T)
  BY DEF In
<1>10. CASE Place(x) \in S
  BY <1>7, <1>8, <1>9, <1>10 DEF RowsIn
<1>11. CASE Place(x) = <<n, f>>
  <2>0. PICK k : Named(k) /\ \E w \in Times : x = Key(x[1], k, w)
    BY DEF FInv, RowsFit
  <2>1. PICK w \in Times : x = Key(x[1], k, w)
    BY <2>0
  <2>2. x[2] = VisitKey(k, w)
    BY <2>1 DEF Key
  <2>3. Base(x[2]) = k
    BY <2>0, <2>2, BaseOfKey
  <2>4. x[1] = n /\ k = f
    BY <1>11, <2>3 DEF Place
  <2>5. x = Key(n, f, w)
    BY <2>1, <2>4
  <2>6. CASE w = v
    <3>1. Leads(x) = Targets(n, f, res)
      BY <1>1, <1>2, <1>8, <2>5, <2>6
    <3> QED BY <1>7, <1>9, <3>1
  <2>7. CASE v < w
    <3>1. Repeats(n, f, v)
      BY <1>2, <1>3, <2>5, <2>7 DEF Ordered
    <3>2. s \in DOMAIN rows /\ rows[s].done /\ <<n, f>> \in Targets(n, f, rows[s].res)
      BY <1>1, <3>1 DEF Repeats
    <3>3. rows[s].res = res
      BY <1>4, <3>2, LeadsStay
    <3> QED BY <1>6, <1>10, <1>11, <3>2, <3>3
  <2>8. CASE w < v
    <3>1. Again(f, frames[f])
      BY <1>3, <1>4 DEF FrameFits, Counts
    <3>2. w <= v /\ w # v
      BY <2>8 DEF Times
    <3>3. Repeats(n, f, w)
      BY <1>2, <1>4, <3>1, <3>2 DEF Again, Inside
    <3>4. PICK r : r = rows[x].res
      OBVIOUS
    <3>5. <<n, f>> \in Targets(n, f, r)
      BY <2>5, <3>3, <3>4 DEF Repeats
    <3>6. r \in Outcomes(n)
      BY <1>7, <2>4, <3>4 DEF FInv, RowsFit
    <3>7. r # "stop"
      <4>1. SUFFICES ASSUME r = "stop" PROVE FALSE
        OBVIOUS
      <4>2. Stop[n].action # "goto"
        BY <1>3, <2>4, <3>4, <4>1 DEF WentBack
      <4>3. Stop[n].target = None
        BY <4>2, NodesFit
      <4> QED BY <1>2, <3>5, <4>1, <4>3 DEF Targets
    <3>8. CASE Kind[n] = "fanout" /\ Next_(n, "after") = n
      <4>1. <<n, f>> \in Targets(n, f, res)
        BY <1>5, <3>8 DEF Targets
      <4> QED BY <1>6, <1>10, <1>11, <4>1
    <3>9. CASE Targets(n, f, r) = {<<n, f>>}
      <4>1. Leads(x) = Targets(n, f, r)
        BY <2>3, <2>4, <3>4 DEF Leads
      <4> QED BY <1>7, <3>9, <4>1 DEF In
    <3> QED BY <1>2, <3>5, <3>7, <3>8, <3>9, LeadsBack
  <2> QED BY <2>6, <2>7, <2>8 DEF Times
<1> QED BY <1>7, <1>10, <1>11

LEMMA RouteCovers ==
  ASSUME FInv, FInv', Settled, Covered, UNCHANGED <<status, cur, starts, asked, aborted>>,
         NEW f \in DOMAIN frames, NEW n \in Nodes, NEW v \in Times, NEW res \in Outcomes(n), Routes(f, n, v, res)
  PROVE  Covered'
<1> DEFINE T(S) == S \cup {<<n, f>>}
<1>1. /\ Holds(f, frames[f]) = {<<n, f>>} /\ Under(f) = {} /\ n # None /\ ~AtJoin(<<n, f>>)
      /\ Place(Key(n, f, v)) = <<n, f>>
  <2>1. ~AtJoin(<<n, f>>)
    BY DEF AtJoin, Routes
  <2> QED BY <2>1, ResultsIs, NodesFit DEF Routes
<1>2. frames # <<>> /\ status = "running" /\ frames[f].pc \in Inside
  BY Running DEF Routes, Results
<1>3. After(f) \subseteq Targets(n, f, res) /\ (~StopAsked(f) => After(f) = Targets(n, f, res))
  BY RouteHolds, NodesFit DEF Routes, Results
<1>4. UNCHANGED graph /\ (\A S : JoinsIn(S)' <=> JoinsIn(S)) /\ Home' = Home /\ RowsFit'
  BY TargetsStay, GraphStays DEF Settled, Home, FInv
<1>5. ~WentBack' => ~WentBack
  BY BackStays DEF FInv
<1>6. Rebuilds(f)
  BY DEF Routes, Results
<1>7. Ahead'
  <2>1. SUFFICES ASSUME ~aborted, NEW S, JoinsIn(S), starts = 1 \/ (~WentBack' /\ RowsIn(S)'), LiveIn(S)'
                 PROVE  Covers(S)'
    BY <1>4 DEF Ahead
  <2>2. ~StopAsked(f)
    BY <2>1 DEF FInv, RunFits, StopAsked
  <2>3. \A q \in Targets(n, f, res) : In(q, S)
    BY <1>3, <1>4, <1>6, <2>1, <2>2, LiveAfter
  <2>4. JoinsIn(T(S))
    BY <1>1, <2>1 DEF JoinsIn, In
  <2>5. LiveIn(T(S))
    <3>1. \A p \in Holds(f, frames[f]) : In(p, T(S))
      BY <1>1 DEF In
    <3>2. S \subseteq T(S)
      OBVIOUS
    <3> HIDE DEF T
    <3> QED BY <1>1, <1>4, <1>6, <2>1, <3>1, <3>2, LiveBack
  <2>6. starts = 1 \/ (~WentBack /\ RowsIn(T(S)))
    BY <1>4, <1>5, <2>1, <2>3, RouteRows
  <2>7. Covers(T(S))
    <3> HIDE DEF T
    <3> QED BY <1>2, <2>1, <2>4, <2>5, <2>6 DEF Covered, Ahead
  <2> QED BY <2>1, <2>3, <2>7, RouteOwes DEF Routes
<1>8. Anew'
  <2>1. SUFFICES ASSUME ~WentBack', NEW S, JoinsIn(S), RowsIn(S)', Home \in S
                 PROVE  Covers(S)' /\ CountedIn(S)'
    BY <1>4 DEF Anew
  <2>2. RowsIn(S)
    BY <2>1, LeadsStay DEF RowsIn
  <2>3. Covers(S) /\ CountedIn(S)
    BY <1>2, <1>5, <2>1, <2>2 DEF Covered, Anew
  <2>4. <<n, f>> \in S
    BY <1>1, <1>2, <2>3 DEF CountedIn, Counts, In
  <2>5. \A q \in Targets(n, f, res) : In(q, S)
    <3>1. PICK s : s = Key(n, f, v)
      OBVIOUS
    <3>2. s \in DOMAIN rows' /\ rows'[s].done /\ Leads(s)' = Targets(n, f, res) /\ Place(s) \in S
      BY <1>1, <2>4, <3>1, ResultsIs DEF Routes, Results
    <3> QED BY <2>1, <3>2 DEF RowsIn
  <2>6. Covers(S)'
    <3>1. S \cup {<<n, f>>} = S
      BY <2>4
    <3> QED BY <2>1, <2>3, <2>5, <3>1, RouteOwes DEF Routes
  <2>7. CountedIn(S)'
    BY <1>3, <1>4, <1>6, <2>3, <2>5, CountedOn
  <2> QED BY <2>6, <2>7
<1>9. Paid'
  BY <1>2 DEF Paid
<1> QED BY <1>7, <1>8, <1>9 DEF Covered

-----------------------------------------------------------------------------
(* What the run row names                                                  *)

LEMMA RebuiltIsTouched ==
  ASSUME FInv, Touched, NEW f \in DOMAIN frames, Rebuilds(f), UNCHANGED cur,
         \/ f # <<>> \/ frames'[f].pc = "enter"
         \/ frames[f].pc # "enter" /\ frames'[f].at = frames[f].at
  PROVE  Touched'
<1>1. SUFFICES ASSUME <<>> \in DOMAIN frames', frames'[<<>>].pc # "enter" PROVE cur = frames'[<<>>].at
  BY DEF Touched
<1>2. CASE f = <<>>
  BY <1>1, <1>2 DEF Touched
<1>3. CASE f # <<>>
  <2>1. IsSequence(f)
    BY DEF FInv, TInv, IInv, Shapes, Named
  <2>2. <<>> \notin Under(f)
    <3>1. SUFFICES ASSUME Len(f) <= 0, SubSeq(<<>>, 1, Len(f)) = f PROVE FALSE
      BY <1>3 DEF Under, Prefix
    <3>2. Len(f) = 0
      BY <2>1, <3>1, Initials
    <3> QED BY <1>3, <3>1, <3>2
  <2>3. <<>> \notin Awaited(f, frames'[f])
    <3>1. ASSUME NEW g \in Awaited(f, frames'[f]) PROVE Len(g) # 0
      BY <2>1, <3>1, AwaitedExtends
    <3> QED BY <3>1
  <2>4. <<>> \in DOMAIN frames /\ frames'[<<>>] = frames[<<>>]
    BY <1>1, <1>3, <2>2, <2>3 DEF Rebuilds
  <2> QED BY <1>1, <2>4 DEF Touched
<1> QED BY <1>2, <1>3

LEMMA OverIsTouched == ASSUME frames' = <<>> PROVE Touched'
<1>1. DOMAIN frames' = {}
  OBVIOUS
<1> QED BY <1>1 DEF Touched

LEMMA AbortTouches ==
  ASSUME FInv, Touched, NEW f \in DOMAIN frames, Abort(f) PROVE Touched'
<1>1. ASSUME NEW b \in DOMAIN frames, Rested(b) PROVE Touched'
  <2>1. b # <<>>
    <3>1. StopAsked(b)'
      BY <1>1 DEF Rested
    <3>2. ForkParts(<<>>) = {}
      BY DEF ForkParts
    <3> QED BY <3>1, <3>2 DEF StopAsked
  <2> QED BY <1>1, <2>1, RebuiltIsTouched DEF Rested
<1>2. CASE Finish
  BY <1>2, OverIsTouched DEF Finish
<1> QED BY <1>1, <1>2, AbortIs DEF FInv

LEMMA RouteTouches ==
  ASSUME FInv, Touched, NEW f \in DOMAIN frames, frames[f].pc \in Inside, NEW res, Route(f, res)
  PROVE  Touched'
<1>1. Under(f) = {} /\ Shapes /\ frames[f].pc # "enter"
  <2>1. frames[f].pc \notin {"items", "branches"}
    BY DEF Inside
  <2> QED BY <2>1, Alone DEF FInv, TInv, IInv, Inside
<1>2. CASE Abort(f)
  BY <1>2, AbortTouches
<1>3. CASE Fail(f, frames[f].at)
  BY <1>3, OverIsTouched DEF Fail
<1>4. CASE UNCHANGED cur /\ Rebuilds(f) /\ GoesOn(f, frames[f].at, res)
  <2>1. frames'[f].pc = "enter" \/ frames'[f].at = frames[f].at
    BY <1>4 DEF GoesOn, StartsAll, LeavesLoop, TakesItem
  <2> QED BY <1>1, <1>4, <2>1, RebuiltIsTouched
<1> QED BY <1>1, <1>2, <1>3, <1>4, RouteIs

LEMMA WalkTouches ==
  ASSUME FInv, Touched, NEW f \in DOMAIN frames, Walk(f) PROVE Touched'
<1>1. TInv /\ FrameFits(f, frames[f]) /\ frames[f].at \in Nodes \cup {None}
  BY DEF FInv, Fits, FrameFits
<1>2. ASSUME Fails(f) PROVE Touched'
  BY <1>2, OverIsTouched DEF Fails
<1>3. CASE Enter(f)
  <2>1. CASE Rests(f)
    BY <2>1, RebuiltIsTouched DEF Rests, Turns
  <2>2. CASE Visits(f)
    <3>1. CASE f = <<>>
      BY <2>2, <3>1 DEF Visits, Turns, Touched
    <3>2. CASE f # <<>>
      BY <2>2, <3>2, RebuiltIsTouched DEF Visits, Turns
    <3> QED BY <3>1, <3>2
  <2>3. CASE Finish
    BY <2>3, OverIsTouched DEF Finish
  <2> QED BY <1>1, <1>2, <1>3, <2>1, <2>2, <2>3, EnterIs
<1>4. CASE Claim(f)
  <2>1. frames[f].pc = "claim" /\ frames[f].at \in Nodes
    BY <1>1, <1>4 DEF Claim, FrameFits, Inside
  <2>2. CASE Turns(f, "exec") /\ UNCHANGED cur
    BY <2>1, <2>2, RebuiltIsTouched DEF Turns
  <2>3. ASSUME Route(f, rows[StepOf(f)].res) PROVE Touched'
    BY <2>1, <2>3, RouteTouches DEF Inside
  <2> QED BY <1>1, <1>2, <1>4, <2>1, <2>2, <2>3, ClaimIs
<1>5. CASE Execute(f)
  <2>1. frames[f].pc = "exec" /\ frames[f].at \in Nodes
    BY <1>1, <1>5 DEF Execute, FrameFits, Inside
  <2>2. CASE Turns(f, "commit") /\ UNCHANGED cur
    BY <2>1, <2>2, RebuiltIsTouched DEF Turns
  <2> QED BY <1>1, <1>2, <1>5, <2>1, <2>2, ExecuteIs
<1>6. CASE Commit(f)
  <2>1. frames[f].pc \in Inside /\ Route(f, frames[f].res)
    BY <1>6 DEF Commit, Inside
  <2> QED BY <2>1, RouteTouches
<1>7. CASE BodyEnds(f)
  <2>1. PICK n, i : n = frames[f].at /\ i = frames[f].item + 1
    OBVIOUS
  <2>2. /\ frames[f].pc = "items" /\ UNCHANGED cur /\ Rebuilds(f)
        /\ LeavesLoop(f, n, i) \/ TakesItem(f, n, i)
    BY <1>1, <1>7, <2>1, BodyEndsIs
  <2>3. frames'[f].pc = "enter" \/ frames'[f].at = frames[f].at
    BY <2>1, <2>2 DEF LeavesLoop, TakesItem
  <2> QED BY <2>2, <2>3, RebuiltIsTouched
<1>8. CASE Join(f)
  <2>1. frames[f].at \in Nodes
    BY <1>1, <1>8 DEF Join, FrameFits
  <2>2. ASSUME NEW j, Meets(f, j) PROVE Touched'
    BY <2>2, RebuiltIsTouched DEF Meets
  <2>3. CASE Abort(f)
    BY <2>3, AbortTouches
  <2> QED BY <1>2, <1>8, <2>1, <2>2, <2>3, JoinIs
<1> QED BY <1>3, <1>4, <1>5, <1>6, <1>7, <1>8 DEF Walk

(* A failure of the top chain: whoever takes the run up starts at the node *)
(* it failed at.                                                           *)
LEMMA FailCovers ==
  ASSUME FInv, Settled, <<>> \in DOMAIN frames, Fails(<<>>),
         \A S : ~WentBack' /\ JoinsIn(S) /\ RowsIn(S)' /\ <<frames[<<>>].at, <<>>>> \in S => Covers(S)'
  PROVE  Covered'
<1>1. /\ frames' = <<>> /\ DOMAIN frames' = {} /\ status' = "failed"
      /\ cur' = frames[<<>>].at /\ cur' \in Nodes
  BY DEF Fails
<1>2. Home' = <<frames[<<>>].at, <<>>>>
  <2>1. cur' # None
    BY <1>1, GraphAssumption DEF FInv, RunFits, Nodes
  <2> QED BY <1>1, <2>1 DEF Home
<1>3. \A S : JoinsIn(S)' <=> JoinsIn(S)
  BY TargetsStay DEF Settled
<1>4. Anew'
  <2>1. SUFFICES ASSUME ~WentBack', NEW S, JoinsIn(S), RowsIn(S)', Home' \in S PROVE Covers(S)' /\ CountedIn(S)'
    BY <1>3 DEF Anew
  <2> QED BY <1>1, <1>2, <2>1 DEF CountedIn
<1> QED BY <1>1, <1>4 DEF Covered, Ahead, Paid

(* It fails on its way to a node.                                          *)
LEMMA EnterFailCovers ==
  ASSUME FInv, FInv', Settled, Covered, NothingNew, UNCHANGED starts, <<>> \in DOMAIN frames,
         frames[<<>>].pc = "enter", Fails(<<>>)
  PROVE  Covered'
<1>1. PICK n : n = frames[<<>>].at
  OBVIOUS
<1>2. DOMAIN frames = {<<>>} /\ frames # <<>>
  <2>1. Under(<<>>) = {}
    BY Alone DEF FInv
  <2> QED BY <2>1, OnlyRoot DEF FInv
<1>3. Holds(<<>>, frames[<<>>]) = {<<n, <<>>>>}
  BY <1>1 DEF Holds
<1>4. ~aborted
  BY EveryoneIsAsked, RootIsNoBranch DEF FInv
<1>5. /\ WentBack' <=> WentBack
      /\ \A S : RowsIn(S)' <=> RowsIn(S)
      /\ \A S : Covers(S)' <=> Covers(S)
  BY Alike DEF FInv, NothingNew
<1>6. ASSUME NEW S, ~WentBack', JoinsIn(S), RowsIn(S)', <<n, <<>>>> \in S PROVE Covers(S)'
  <2>1. LiveIn(S)
    BY <1>2, <1>3, <1>6 DEF LiveIn, In
  <2> QED BY <1>2, <1>4, <1>5, <1>6, <2>1 DEF Covered, Ahead
<1> QED BY <1>1, <1>6, FailCovers

(* It fails at the node the row names.                                     *)
LEMMA HereFailCovers ==
  ASSUME FInv, FInv', Settled, Covered, Touched, NothingNew, <<>> \in DOMAIN frames,
         frames[<<>>].pc # "enter", Fails(<<>>)
  PROVE  Covered'
<1>1. status = "running" /\ Home = <<frames[<<>>].at, <<>>>>
  <2>1. cur = frames[<<>>].at /\ cur # None
    <3>1. cur = frames[<<>>].at
      BY DEF Touched
    <3>2. frames[<<>>].at \in Nodes
      BY DEF Fails
    <3> QED BY <3>1, <3>2, GraphAssumption DEF FInv, RunFits, Nodes
  <2> QED BY <2>1, Running DEF Home
<1>2. /\ WentBack' <=> WentBack
      /\ \A S : RowsIn(S)' <=> RowsIn(S)
      /\ \A S : Covers(S)' <=> Covers(S)
  BY Alike DEF FInv, NothingNew
<1>3. ASSUME NEW S, ~WentBack', JoinsIn(S), RowsIn(S)', <<frames[<<>>].at, <<>>>> \in S PROVE Covers(S)'
  BY <1>1, <1>2, <1>3 DEF Covered, Anew
<1> QED BY <1>3, FailCovers

(* It fails where it routes a result that is committed.                    *)
LEMMA RouteFailCovers ==
  ASSUME FInv, FInv', Settled, Covered, Touched, <<>> \in DOMAIN frames, NEW n \in Nodes, NEW v \in Times,
         NEW res, Results(<<>>, n, v, res), Fails(<<>>)
  PROVE  Covered'
<1>1. status = "running" /\ Home = <<n, <<>>>> /\ frames[<<>>].at = n
  <2>1. frames[<<>>].at = n /\ frames[<<>>].pc # "enter"
    BY DEF Results, Inside
  <2>2. cur = n /\ n # None
    BY <2>1, NodesFit DEF Touched
  <2> QED BY <2>1, <2>2, Running DEF Home
<1>2. ASSUME NEW S, ~WentBack', JoinsIn(S), RowsIn(S)', <<n, <<>>>> \in S PROVE Covers(S)'
  <2>1. ~WentBack /\ RowsIn(S)
    BY <1>2, BackStays, LeadsStay DEF FInv, RowsIn
  <2>2. Covers(S)
    BY <1>1, <1>2, <2>1 DEF Covered, Anew
  <2>3. \A q \in Targets(n, <<>>, res) : In(q, S)
    <3>1. PICK s : s = Key(n, <<>>, v)
      OBVIOUS
    <3>2. s \in DOMAIN rows' /\ rows'[s].done /\ Leads(s)' = Targets(n, <<>>, res) /\ Place(s) \in S
      BY <1>2, <3>1, ResultsIs DEF Results
    <3> QED BY <1>2, <3>2 DEF RowsIn
  <2>4. S \cup {<<n, <<>>>>} = S
    BY <1>2
  <2> QED BY <1>2, <2>2, <2>3, <2>4, RouteOwes
<1> QED BY <1>1, <1>2, FailCovers

-----------------------------------------------------------------------------
(* Every step keeps what is owed ahead                                     *)

LEMMA AskedStays == ASSUME UNCHANGED asked PROVE \A g : StopAsked(g)' = StopAsked(g)
  BY DEF StopAsked

LEMMA EnterCovers ==
  ASSUME FInv, FInv', Settled, Covered, Touched, ~astray', NEW f \in DOMAIN frames, Records(f), Enter(f) PROVE Covered'
<1>0. PICK n : n = frames[f].at
  OBVIOUS
<1>1. TInv /\ n \in Nodes \cup {None}
  BY <1>0 DEF FInv, Fits, FrameFits
<1>2. /\ frames[f].pc = "enter" /\ UNCHANGED <<rows, starts>>
      /\ \/ Fails(f)
         \/ Finish /\ f = <<>> /\ n = None /\ UNCHANGED <<asked, aborted>>
         \/ Rests(f)
         \/ Visits(f)
  BY <1>0, <1>1, EnterIs
<1>3. NothingNew /\ Under(f) = {}
  BY <1>1, <1>2, NothingNewBy, Alone
<1>4. Holds(f, frames[f]) = {<<n, f>>}
  BY <1>0, <1>2 DEF Holds
<1>5. CASE Rests(f)
  <2>1. /\ Turns(f, "ret") /\ UNCHANGED <<cur, asked>> /\ frames'[f].pc = "ret" /\ frames'[f].stopped = n
        /\ Awaited(f, frames'[f]) = {}
    BY <1>0, <1>5 DEF Rests, Turns
  <2>2. Holds(f, frames'[f]) = {<<n, f>>}
    BY <2>1 DEF Holds
  <2>3. Counts(f, frames[f]) \/ Quiet(f)
    BY <2>1, AskedStays DEF Counts, Quiet, Inside
  <2> QED BY <1>2, <1>3, <1>4, <2>1, <2>2, <2>3, TurnCovers
<1>6. CASE Visits(f)
  <2>1. CASE f = <<>>
    BY <1>2, <1>3, <1>6, <2>1, HomeCovers
  <2>2. CASE f # <<>>
    <3>1. Turns(f, "claim") /\ UNCHANGED cur /\ ~StopAsked(f) /\ frames'[f].pc = "claim" /\ frames'[f].at = n
      BY <1>0, <1>6, <2>2 DEF Visits, Turns
    <3>2. Holds(f, frames'[f]) = {<<n, f>>} /\ Counts(f, frames[f])
      BY <3>1 DEF Holds, Counts
    <3> QED BY <1>2, <1>3, <1>4, <3>1, <3>2, TurnCovers
  <2> QED BY <2>1, <2>2
<1>7. CASE Fails(f)
  <2>1. f = <<>>
    BY <1>7 DEF Fails
  <2> QED BY <1>2, <1>3, <1>7, <2>1, EnterFailCovers
<1>8. CASE Finish /\ f = <<>> /\ n = None /\ UNCHANGED <<asked, aborted>>
  BY <1>0, <1>2, <1>3, <1>8, FinishCovers
<1> QED BY <1>2, <1>5, <1>6, <1>7, <1>8

(* A frame inside its step.                                                *)
LEMMA InsideCovers ==
  ASSUME FInv, FInv', Settled, Covered, NothingNew, UNCHANGED <<cur, starts>>, NEW f \in DOMAIN frames,
         frames[f].pc \in Inside, NEW pc \in Inside, Turns(f, pc)
  PROVE  Covered'
<1>1. PICK n : n = frames[f].at
  OBVIOUS
<1>2. Under(f) = {}
  <2>1. frames[f].pc \notin {"items", "branches"}
    BY DEF Inside
  <2> QED BY <2>1, Alone DEF FInv
<1>3. Holds(f, frames[f]) = {<<n, f>>}
  BY <1>1 DEF Holds, Inside
<1>4. frames'[f].pc = pc /\ frames'[f].at = n
  BY <1>1 DEF Turns
<1>5. Holds(f, frames'[f]) = {<<n, f>>}
  BY <1>4 DEF Holds, Inside
<1>6. Counts(f, frames[f])
  BY DEF Counts
<1> QED BY <1>2, <1>3, <1>5, <1>6, TurnCovers

(* A commit that aborts: its row leads nowhere.                            *)
LEMMA StopCovers ==
  ASSUME FInv, FInv', Settled, Covered, UNCHANGED starts, NEW b \in DOMAIN frames, Rested(b),
         NEW f, Named(f), NEW n \in Nodes, NEW v, Stop[n].action = "abort",
         Key(n, f, v) \in DOMAIN rows', rows'[Key(n, f, v)].res = "stop",
         \A x \in DOMAIN rows' : rows'[x].done => x = Key(n, f, v) \/ (x \in DOMAIN rows /\ rows[x].done)
  PROVE  Covered'
<1>1. PICK s : s = Key(n, f, v)
  OBVIOUS
<1>2. /\ Rebuilds(b) /\ aborted' /\ asked \subseteq asked' /\ UNCHANGED <<status, cur>> /\ Quiet(b)
  BY DEF Rested, Quiet, Inside
<1>3. status = "running" /\ UNCHANGED graph /\ Home' = Home /\ (\A S : JoinsIn(S)' <=> JoinsIn(S))
      /\ Entry' = Entry /\ \A p : AtJoin(p)' = AtJoin(p) /\ Beyond(p)' = Beyond(p)
  <2>1. UNCHANGED graph /\ UNCHANGED cur /\ status = "running"
    BY <1>2, Running DEF Settled
  <2> QED BY <2>1, GraphStays, TargetsStay DEF Home
<1>4. Leads(s)' = {<<None, f>>}
  <2>1. s[1] = n /\ s[2] = VisitKey(f, v) /\ rows'[s].res = "stop"
    BY <1>1 DEF Key
  <2>2. Base(s[2]) = f
    BY <2>1, BaseOfKey
  <2>3. Targets(n, f, rows[s].res)' = Targets(n, f, "stop")
    BY <1>3, <2>1, TargetsStay
  <2>4. Stop[n].target = None
    BY NodesFit
  <2>5. Targets(n, f, "stop") = {<<None, f>>}
    BY <2>4 DEF Targets
  <2> QED BY <2>1, <2>2, <2>3, <2>5 DEF Leads
<1>5. Anew'
  <2>1. SUFFICES ASSUME ~WentBack', NEW S, JoinsIn(S), RowsIn(S)', Home \in S PROVE Covers(S)' /\ CountedIn(S)'
    BY <1>3 DEF Anew
  <2>2. ~WentBack /\ RowsIn(S)
    BY <2>1, BackStays, LeadsStay DEF FInv, RowsIn
  <2>3. Covers(S) /\ CountedIn(S)
    BY <1>3, <2>1, <2>2 DEF Covered, Anew
  <2>4. CountedIn(S)'
    BY <1>2, <1>3, <2>3, CountedOn
  <2>5. ASSUME NEW p, Wanted(p)', ~Visited(p[1], p[2])' PROVE p \in S
    <3>1. p[1] # None /\ ~Visited(p[1], p[2])
      <4>1. PICK a, k : a = p[1] /\ k = p[2]
        OBVIOUS
      <4>2. a # None
        BY <2>5, <4>1 DEF Visited
      <4>3. ~Visited(a, k)
        BY <2>5, <4>1, VisitedStays
      <4> QED BY <4>1, <4>2, <4>3
    <3>2. \/ p = <<Entry, <<>>>>
          \/ \E x \in DOMAIN rows' : rows'[x].done /\ \E q \in Leads(x)' : p = q \/ (AtJoin(q) /\ p = Beyond(q))
      BY <1>3, <2>5 DEF Wanted
    <3>3. ASSUME NEW q \in Leads(s)' PROVE ~(p = q \/ (AtJoin(q) /\ p = Beyond(q)))
      <4>1. q[1] = None
        BY <1>4, <3>3
      <4> QED BY <3>1, <4>1 DEF AtJoin
    <3>4. \A x \in DOMAIN rows : rows[x].done => Leads(x)' = Leads(x)
      BY LeadsStay
    <3>5. Wanted(p)
      BY <1>1, <3>2, <3>3, <3>4 DEF Wanted
    <3> QED BY <2>3, <3>1, <3>5 DEF Covers, Owed
  <2>6. Covers(S)'
    BY <2>5 DEF Covers, Owed
  <2> QED BY <2>4, <2>6
<1> QED BY <1>2, <1>3, <1>5 DEF Covered, Ahead, Paid

LEMMA StepCommits ==
  ASSUME FInv, FInv', Settled, Covered, Touched, ~astray', UNCHANGED starts, NEW f \in DOMAIN frames, Records(f),
         frames[f].pc \in Inside, NEW res \in Outcomes(frames[f].at), Kind[frames[f].at] # "join",
         StepOf(f) \in DOMAIN rows', rows'[StepOf(f)].done, rows'[StepOf(f)].res = res, Route(f, res)
  PROVE  Covered'
<1>1. PICK n, v : n = frames[f].at /\ v = frames[f].visits[frames[f].at]
  OBVIOUS
<1>2. FrameFits(f, frames[f]) /\ Shapes /\ Named(f)
  BY DEF FInv, Fits, TInv, IInv, Shapes
<1>3. n \in Nodes /\ v \in Times /\ frames[f].visits[n] = v
  BY <1>1, <1>2 DEF FrameFits
<1>4. PICK s : s = Key(n, f, v) /\ s = StepOf(f)
  BY <1>1 DEF Key, StepOf
<1>5. /\ s \in DOMAIN rows' /\ rows'[s].done /\ rows'[s].res = res
      /\ \A x \in DOMAIN rows' : rows'[x].done => x = s \/ (x \in DOMAIN rows /\ rows[x].done)
  BY <1>4 DEF Records
<1>6. Under(f) = {}
  <2>1. frames[f].pc \notin {"items", "branches"}
    BY DEF Inside
  <2> QED BY <2>1, Alone DEF FInv
<1>7. CASE Abort(f) /\ res = "stop" /\ Stop[n].action = "abort"
  <2>1. CASE Finish /\ aborted'
    BY <2>1, OverCovers DEF Finish
  <2>2. ASSUME NEW b \in DOMAIN frames, Rested(b) PROVE Covered'
    BY <1>2, <1>3, <1>4, <1>5, <1>7, <2>2, StopCovers
  <2> QED BY <1>7, <2>1, <2>2, AbortIs DEF FInv
<1>8. CASE /\ UNCHANGED <<status, cur, asked, aborted>>
           /\ Rebuilds(f) /\ SameVisits(f, frames[f]) /\ GoesOn(f, n, res)
  <2>1. Routes(f, n, v, res)
    BY <1>1, <1>3, <1>4, <1>5, <1>8 DEF Routes, Results
  <2> QED BY <1>1, <1>3, <1>8, <2>1, RouteCovers
<1>9. CASE Fail(f, n)
  <2>1. f = <<>> /\ Fails(f)
    BY <1>1, <1>3, <1>9 DEF Fail, Fails
  <2>2. Results(f, n, v, res)
    BY <1>1, <1>3, <1>4, <1>5 DEF Results
  <2> QED BY <1>3, <2>1, <2>2, RouteFailCovers
<1> QED BY <1>1, <1>2, <1>6, <1>7, <1>8, <1>9, RouteIs

LEMMA ClaimCovers ==
  ASSUME FInv, FInv', Settled, Covered, Touched, ~astray', NEW f \in DOMAIN frames, Records(f),
         Claim(f) \/ Execute(f)
  PROVE  Covered'
<1>1. TInv /\ FrameFits(f, frames[f])
  BY DEF FInv, Fits
<1>2. frames[f].pc \in Inside /\ frames[f].pc # "commit"
  BY DEF Claim, Execute, Inside
<1>3. frames[f].at \in Nodes /\ NothingNew
  BY <1>1, <1>2, NothingNewBy DEF FrameFits
<1>4. ASSUME Fails(f) PROVE Covered'
  <2>1. f = <<>> /\ frames[f].pc # "enter"
    BY <1>2, <1>4 DEF Fails, Inside
  <2> QED BY <1>3, <1>4, <2>1, HereFailCovers
<1>5. CASE Execute(f)
  BY <1>1, <1>2, <1>3, <1>4, <1>5, ExecuteIs, InsideCovers DEF Inside
<1>6. CASE Claim(f)
  <2>1. /\ UNCHANGED starts
        /\ \/ Fails(f)
           \/ Turns(f, "exec") /\ SameVisits(f, frames[f]) /\ UNCHANGED cur
           \/ /\ StepOf(f) \in DOMAIN rows /\ rows[StepOf(f)].done /\ UNCHANGED rows
              /\ Route(f, rows[StepOf(f)].res)
    BY <1>1, <1>3, <1>6, ClaimIs
  <2>2. ASSUME StepOf(f) \in DOMAIN rows, rows[StepOf(f)].done, UNCHANGED rows, Route(f, rows[StepOf(f)].res)
        PROVE  Covered'
    <3>1. PICK res : res = rows[StepOf(f)].res
      OBVIOUS
    <3>2. StepOf(f)[1] = frames[f].at
      BY DEF StepOf
    <3>3. res \in Outcomes(frames[f].at) /\ Kind[frames[f].at] # "join"
      BY <2>2, <3>1, <3>2 DEF FInv, RowsFit
    <3>4. PICK s : s = StepOf(f)
      OBVIOUS
    <3> QED BY <1>2, <2>1, <2>2, <3>1, <3>3, <3>4, StepCommits
  <2>3. CASE Turns(f, "exec") /\ UNCHANGED cur
    BY <1>2, <1>3, <2>1, <2>3, InsideCovers DEF Inside
  <2> QED BY <1>4, <2>1, <2>2, <2>3
<1> QED BY <1>5, <1>6

LEMMA CommitCovers ==
  ASSUME FInv, FInv', Settled, Covered, Touched, ~astray', NEW f \in DOMAIN frames, Records(f), Commit(f) PROVE Covered'
<1>1. TInv /\ FrameFits(f, frames[f]) /\ frames[f].pc = "commit"
  BY DEF FInv, Fits, Commit
<1>2. frames[f].res \in Outcomes(frames[f].at) /\ Kind[frames[f].at] # "join"
  BY <1>1 DEF FrameFits
<1>3. PICK s : s = StepOf(f)
  OBVIOUS
<1>4. s \in DOMAIN rows /\ DOMAIN rows[s] = RowFields
  BY <1>1, <1>3 DEF TInv, IInv, Shapes, Uncommitted, Busy
<1>5. rows' = [rows EXCEPT ![s] = [@ EXCEPT !.done = TRUE, !.res = frames[f].res]]
      /\ Route(f, frames[f].res) /\ UNCHANGED starts
  BY <1>3 DEF Commit
<1>6. s \in DOMAIN rows' /\ rows'[s] = [rows[s] EXCEPT !.done = TRUE, !.res = frames[f].res]
  BY <1>4, <1>5
<1>7. rows'[s].done /\ rows'[s].res = frames[f].res
  BY <1>4, <1>6 DEF RowFields
<1> QED BY <1>1, <1>2, <1>3, <1>5, <1>6, <1>7, StepCommits DEF Inside

LEMMA BodyEndsCovers ==
  ASSUME FInv, FInv', Settled, Covered, NEW f \in DOMAIN frames, Records(f), BodyEnds(f) PROVE Covered'
<1>1. PICK n, i : n = frames[f].at /\ i = frames[f].item + 1
  OBVIOUS
<1>2. TInv /\ FrameFits(f, frames[f]) /\ IsSequence(f)
  BY DEF FInv, Fits, TInv, IInv, Shapes, Named
<1>3. /\ frames[f].pc = "items" /\ UNCHANGED <<status, cur, rows, asked, aborted, starts>>
      /\ \E b \in DOMAIN frames : /\ Under(f) = {b} /\ frames[b].pc = "ret" /\ ~IsBranch(b)
                                  /\ StopAsked(b) = StopAsked(f)
      /\ Rebuilds(f) /\ (LeavesLoop(f, n, i) \/ TakesItem(f, n, i))
  BY <1>1, <1>2, BodyEndsIs
<1>4. n \in Nodes /\ i \in Times
  <2>1. n \in Nodes /\ frames[f].item \in Times
    BY <1>1, <1>2, <1>3 DEF FrameFits
  <2> QED BY <1>1, <2>1 DEF Times
<1>5. NothingNew /\ UNCHANGED graph
  BY <1>3, NothingNewBy DEF Settled
<1>6. Holds(f, frames[f]) = Loop(f, n, i)
  BY <1>1, <1>3 DEF Holds, Loop
<1>7. After(f) \subseteq Loop(f, n, i) /\ (~StopAsked(f) => After(f) = Loop(f, n, i))
  BY <1>3, <1>4, NodesFit, LoopHolds
<1>8. ASSUME ~aborted', NEW S, LiveIn(S)' PROVE LiveIn(S)
  <2>1. PICK b \in DOMAIN frames : /\ Under(f) = {b} /\ frames[b].pc = "ret" /\ ~IsBranch(b)
                                   /\ StopAsked(b) = StopAsked(f)
    BY <1>3
  <2>2. ~StopAsked(f)
    BY <1>3, <1>8 DEF FInv, RunFits, StopAsked
  <2>3. frames[b].stopped = None
    <3>1. FrameFits(b, frames[b])
      BY DEF FInv, Fits
    <3> QED BY <2>1, <2>2, <3>1 DEF FrameFits
  <2>4. Holds(b, frames[b]) = {<<None, b>>}
    BY <2>1, <2>3 DEF Holds
  <2>5. \A p \in Loop(f, n, i) : In(p, S)
    BY <1>3, <1>5, <1>7, <1>8, <2>2, LiveAfter
  <2>6. \A g \in Under(f) \cup {f} : \A p \in Holds(g, frames[g]) : In(p, S)
    BY <1>6, <2>1, <2>4, <2>5 DEF In
  <2> QED BY <1>3, <1>5, <1>8, <2>6, LiveBack
<1>9. ASSUME NEW S, CountedIn(S) PROVE Quiet(f) \/ \A p \in After(f) : In(p, S)
  <2>1. CASE StopAsked(f)
    <3>1. \A g : StopAsked(g)' = StopAsked(g)
      BY <1>3, AskedStays
    <3>2. frames'[f].pc \notin Inside
      BY <1>3 DEF LeavesLoop, TakesItem, Inside
    <3>3. ASSUME NEW b \in Awaited(f, frames'[f]) PROVE StopAsked(b)
      <4>1. PICK x : b = Append(f, x)
        BY <1>3, <3>3 DEF LeavesLoop, TakesItem
      <4> QED BY <1>2, <2>1, <4>1, StopBelow
    <3> QED BY <2>1, <3>1, <3>2, <3>3 DEF Quiet
  <2>2. CASE ~StopAsked(f)
    <3>1. Counts(f, frames[f])
      BY <2>2 DEF Counts
    <3> QED BY <1>6, <1>7, <1>9, <3>1 DEF CountedIn
  <2> QED BY <2>1, <2>2
<1> QED BY <1>3, <1>5, <1>8, <1>9, StepCovers

LEMMA MeetsCovers ==
  ASSUME FInv, FInv', Settled, Covered, NothingNew, UNCHANGED starts, NEW f \in DOMAIN frames,
         frames[f].pc = "branches", Under(f) = Awaited(f, frames[f]), NEW j, Meets(f, j)
  PROVE  Covered'
<1> DEFINE A == Awaited(f, frames[f])
           T(S) == S \cup {<<j, b>> : b \in A}
           onward == <<Next_(j, "next"), f>>
<1>1. /\ Rebuilds(f) /\ Awaited(f, frames'[f]) = {} /\ j # None
      /\ frames'[f].pc = "enter" /\ frames'[f].at = Next_(j, "next")
      /\ \A b \in A : frames[b].pc = "ret" /\ ~frames[b].aborted /\ frames[b].stopped \in {None, j}
      /\ \E b \in A : frames[b].stopped = j
      /\ UNCHANGED <<status, cur, asked, aborted>>
  BY DEF Meets
<1>2. TInv /\ IsSequence(f) /\ Tree /\ UNCHANGED graph
  BY DEF FInv, TInv, IInv, Shapes, Named, Settled
<1>3. After(f) = {onward}
  BY <1>1 DEF After, Holds
<1>4. Holds(f, frames[f]) = {} /\ \A b \in A : Holds(b, frames[b]) = {<<frames[b].stopped, b>>}
  BY <1>1 DEF Holds
<1>5. ASSUME NEW b \in A PROVE IsBranch(b) /\ Beyond(<<j, b>>) = onward /\ b \in DOMAIN frames
  <2>1. PICK l \in DOMAIN Edges[frames[f].at] : b = Branch(f, l)
    BY <1>5 DEF Awaited
  <2>2. PICK x : x = <<"fork", l>>
    OBVIOUS
  <2>3. b = Append(f, x) /\ x[1] = "fork"
    BY <2>1, <2>2 DEF Branch
  <2>4. /\ Len(f) \in Nat /\ Len(b) = Len(f) + 1 /\ b[Len(f) + 1] = x /\ SubSeq(b, 1, Len(f)) = f
    BY <1>2, <2>3, AppendInitials
  <2>5. Len(b) # 0 /\ b # <<>>
    BY <2>4
  <2>6. IsBranch(b)
    BY <2>3, <2>4, <2>5 DEF IsBranch
  <2>7. Len(b) - 1 = Len(f)
    BY <2>4
  <2>8. Beyond(<<j, b>>) = onward
    BY <2>4, <2>7 DEF Beyond
  <2> QED BY <1>2, <2>6, <2>8 DEF Tree
<1>6. ASSUME ~StopAsked(f) PROVE Kind[j] = "join" /\ \A b \in A : frames[b].stopped = j => ~StopAsked(b)
  <2>1. ASSUME NEW b \in A, frames[b].stopped = j PROVE Kind[j] = "join" /\ ~StopAsked(b)
    BY <1>1, <1>2, <1>6, <2>1, StopsAtJoin
  <2> QED BY <1>1, <2>1
<1> HIDE DEF A, onward
<1>7. ASSUME NEW S, ~aborted', JoinsIn(S), LiveIn(S)'
      PROVE  JoinsIn(T(S)) /\ (RowsIn(S) => RowsIn(T(S))) /\ LiveIn(T(S)) /\ (Covers(T(S)) => Covers(S))
  <2>1. ~StopAsked(f)
    BY <1>1, <1>7 DEF FInv, RunFits, StopAsked
  <2>2. Kind[j] = "join"
    BY <1>6, <2>1
  <2>3. In(onward, S)
    BY <1>1, <1>2, <1>3, <1>7, LiveAfter
  <2>4. S \subseteq T(S) /\ \A q : In(q, S) => In(q, T(S))
    BY DEF In
  <2>5. \A p \in T(S) : p \in S \/ \E b \in A : p = <<j, b>>
    OBVIOUS
  <2>6. \A b \in A : <<j, b>> \in T(S)
    OBVIOUS
  <2> HIDE DEF T
  <2>7. JoinsIn(T(S))
    <3>1. SUFFICES ASSUME NEW p \in T(S), AtJoin(p) PROVE In(Beyond(p), T(S))
      BY DEF JoinsIn
    <3>2. CASE p \in S
      BY <1>7, <2>4, <3>1, <3>2 DEF JoinsIn
    <3>3. ASSUME NEW b \in A, p = <<j, b>> PROVE In(Beyond(p), T(S))
      BY <1>5, <2>3, <2>4, <3>3
    <3> QED BY <2>5, <3>2, <3>3
  <2>8. ASSUME RowsIn(S) PROVE RowsIn(T(S))
    <3>1. SUFFICES ASSUME NEW s \in DOMAIN rows, rows[s].done, Place(s) \in T(S), NEW p \in Leads(s)
                   PROVE  In(p, T(S))
      BY DEF RowsIn
    <3>2. Kind[s[1]] # "join"
      BY <3>1 DEF FInv, RowsFit
    <3>3. Place(s) \in S
      BY <2>2, <2>5, <3>1, <3>2 DEF Place
    <3> QED BY <2>4, <2>8, <3>1, <3>3 DEF RowsIn
  <2>9. LiveIn(T(S))
    <3>1. ASSUME NEW b \in A, NEW p \in Holds(b, frames[b]) PROVE In(p, T(S))
      <4>1. p = <<None, b>> \/ p = <<j, b>>
        BY <1>1, <1>4, <3>1
      <4> QED BY <2>6, <4>1 DEF In
    <3>2. \A g \in Under(f) \cup {f} : \A p \in Holds(g, frames[g]) : In(p, T(S))
      BY <1>4, <3>1 DEF A
    <3> QED BY <1>1, <1>2, <1>7, <2>4, <3>2, LiveBack
  <2>10. ASSUME Covers(T(S)) PROVE Covers(S)
    <3>1. SUFFICES ASSUME NEW p, Owed(p) PROVE p \in S
      BY DEF Covers
    <3>2. p \in T(S) /\ ~Visited(p[1], p[2])
      BY <2>10, <3>1 DEF Covers, Owed
    <3>3. Kind[p[1]] # "join"
      BY <3>2 DEF Visited
    <3> QED BY <2>2, <2>5, <3>2, <3>3
  <2> QED BY <2>7, <2>8, <2>9, <2>10
<1>8. ASSUME NEW S, JoinsIn(S), CountedIn(S) PROVE Quiet(f) \/ \A p \in After(f) : In(p, S)
  <2>1. CASE StopAsked(f)
    BY <1>1, <2>1, AskedStays DEF Quiet, Inside
  <2>2. CASE ~StopAsked(f)
    <3>1. PICK b \in A : frames[b].stopped = j
      BY <1>1
    <3>2. Kind[j] = "join" /\ ~StopAsked(b)
      BY <1>6, <2>2, <3>1
    <3>3. In(<<j, b>>, S)
      BY <1>4, <1>5, <1>8, <3>1, <3>2 DEF CountedIn, Counts
    <3>4. AtJoin(<<j, b>>) /\ <<j, b>> \in S
      BY <1>1, <1>5, <3>2, <3>3 DEF AtJoin, In
    <3>5. In(Beyond(<<j, b>>), S)
      BY <1>8, <3>4 DEF JoinsIn
    <3> QED BY <1>3, <1>5, <3>5
  <2> QED BY <2>1, <2>2
<1> HIDE DEF T
<1> QED BY <1>1, <1>7, <1>8, StepCovers

LEMMA JoinCovers ==
  ASSUME FInv, FInv', Settled, Covered, Touched, ~astray', NEW f \in DOMAIN frames, Records(f), Join(f) PROVE Covered'
<1>1. TInv /\ FrameFits(f, frames[f]) /\ frames[f].pc = "branches"
  BY DEF FInv, Fits, Join
<1>2. frames[f].at \in Nodes
  BY <1>1 DEF FrameFits
<1>3. /\ UNCHANGED <<rows, starts>>
      /\ Fails(f) \/ Abort(f) \/ (Under(f) = Awaited(f, frames[f]) /\ \E j : Meets(f, j))
  BY <1>2, JoinIs
<1>4. NothingNew
  BY <1>1, NothingNewBy
<1>5. CASE Abort(f)
  <2>1. CASE Finish /\ aborted'
    BY <2>1, OverCovers DEF Finish
  <2>2. ASSUME NEW b \in DOMAIN frames, Rested(b) PROVE Covered'
    BY <1>3, <1>4, <2>2, AbortCovers
  <2> QED BY <1>1, <1>5, <2>1, <2>2, AbortIs
<1>6. CASE Fails(f)
  <2>1. f = <<>> /\ frames[f].pc # "enter"
    BY <1>1, <1>6 DEF Fails
  <2> QED BY <1>4, <1>6, <2>1, HereFailCovers
<1> QED BY <1>1, <1>3, <1>4, <1>5, <1>6, MeetsCovers

LEMMA WalkCovers ==
  ASSUME FInv, FInv', Settled, Covered, Touched, ~astray', NEW f \in DOMAIN frames, Records(f), Walk(f) PROVE Covered'
  BY EnterCovers, ClaimCovers, CommitCovers, BodyEndsCovers, JoinCovers DEF Walk

(* Once astray, a run remains so.                                          *)
LEMMA WentAstray ==
  ASSUME NEW f \in DOMAIN frames, Walk(f) PROVE ~astray' => ~astray
<1>1. ASSUME NEW n, Fail(f, n) PROVE ~astray' => ~astray
  BY <1>1 DEF Fail
<1>2. ASSUME Abort(f) PROVE UNCHANGED astray
  BY <1>2 DEF Abort, Finish
<1>3. ASSUME NEW res, Route(f, res) PROVE ~astray' => ~astray
  BY <1>1, <1>2, <1>3 DEF Route
<1>4. CASE Enter(f)
  BY <1>1, <1>4 DEF Enter, Finish
<1>5. CASE Claim(f)
  BY <1>1, <1>3, <1>5 DEF Claim
<1>6. CASE Execute(f)
  BY <1>1, <1>6 DEF Execute
<1>7. CASE Commit(f)
  BY <1>3, <1>7 DEF Commit
<1>8. CASE BodyEnds(f)
  BY <1>8 DEF BodyEnds
<1>9. CASE Join(f)
  BY <1>1, <1>2, <1>9 DEF Join
<1> QED BY <1>4, <1>5, <1>6, <1>7, <1>8, <1>9 DEF Walk

LEMMA StartCovers ==
  ASSUME FInv, FInv', Settled, Covered, Start, UNCHANGED graph PROVE Covered'
<1>1. /\ status # "completed" /\ status' = "running" /\ starts' = starts + 1 /\ UNCHANGED <<cur, rows>>
      /\ starts \in Nat /\ frames' = Put(<<>>, <<>>, Frame(Home[1], {}))
  BY DEF FInv, RunFits, Start, Home
<1>2. PICK h : h = Home[1]
  OBVIOUS
<1>3. Home = <<h, <<>>>> /\ h # None
  BY <1>2, NodesFit DEF Home
<1>4. DOMAIN frames' = {<<>>} /\ Holds(<<>>, frames'[<<>>]) = {Home}
  <2>1. DOMAIN frames' = {<<>>} /\ frames'[<<>>] = Frame(h, {})
    BY <1>1, <1>2 DEF Put
  <2>2. frames'[<<>>].pc = "enter" /\ frames'[<<>>].at = h
    BY <2>1 DEF Frame
  <2> QED BY <1>3, <2>1, <2>2 DEF Holds
<1>5. NothingNew
  BY <1>1 DEF NothingNew
<1>6. /\ WentBack' <=> WentBack
      /\ \A S : RowsIn(S)' <=> RowsIn(S)
      /\ \A S : Covers(S)' <=> Covers(S)
  BY <1>5, Alike DEF FInv, NothingNew
<1>7. (\A S : JoinsIn(S)' <=> JoinsIn(S)) /\ (\A f, c : Holds(f, c)' = Holds(f, c)) /\ Home' = Home
  BY <1>1, TargetsStay, GraphStays DEF Home
<1>8. ASSUME NEW S, ~WentBack, JoinsIn(S), RowsIn(S), Home \in S PROVE Covers(S)
  BY <1>1, <1>8 DEF Covered, Anew
<1>9. Ahead'
  <2>1. SUFFICES ASSUME NEW S, JoinsIn(S), starts' = 1 \/ (~WentBack /\ RowsIn(S)), LiveIn(S)' PROVE Covers(S)
    BY <1>6, <1>7 DEF Ahead
  <2>2. In(Home, S)
    BY <1>4, <1>7, <2>1 DEF LiveIn
  <2>3. Home \in S
    BY <1>3, <2>2 DEF In
  <2>4. CASE starts = 0
    <3>1. rows = <<>> /\ cur = None
      BY <2>4 DEF FInv, RunFits
    <3>2. DOMAIN rows = {} /\ Home = <<Entry, <<>>>>
      BY <3>1 DEF Home
    <3>3. \A p : Wanted(p) => p = Home
      BY <3>2 DEF Wanted
    <3> QED BY <2>3, <3>3 DEF Covers, Owed
  <2>5. CASE starts # 0
    <3>1. starts' # 1
      BY <1>1, <2>5
    <3> QED BY <1>8, <2>1, <2>3, <3>1
  <2> QED BY <2>4, <2>5
<1>10. Anew'
  <2>1. SUFFICES ASSUME ~WentBack, NEW S, JoinsIn(S), RowsIn(S), Home \in S PROVE Covers(S) /\ CountedIn(S)'
    BY <1>6, <1>7 DEF Anew
  <2>2. CountedIn(S)'
    BY <1>4, <1>7, <2>1 DEF CountedIn, In
  <2> QED BY <1>8, <2>1, <2>2
<1>11. Paid'
  BY <1>1 DEF Paid
<1> QED BY <1>9, <1>10, <1>11 DEF Covered

LEMMA CrashCovers ==
  ASSUME FInv, FInv', Settled, Covered, Crash, UNCHANGED graph PROVE Covered'
<1>1. status = "running" /\ UNCHANGED <<status, cur, rows, starts>> /\ frames' = <<>>
  BY DEF FInv, RunFits, Crash
<1>2. DOMAIN frames' = {}
  BY <1>1
<1>3. /\ WentBack' <=> WentBack
      /\ \A S : RowsIn(S)' <=> RowsIn(S)
      /\ \A S : Covers(S)' <=> Covers(S)
      /\ \A S : JoinsIn(S)' <=> JoinsIn(S)
      /\ Home' = Home
  BY <1>1, Alike, TargetsStay, GraphStays DEF FInv, Home
<1>4. Anew'
  <2>1. SUFFICES ASSUME ~WentBack, NEW S, JoinsIn(S), RowsIn(S), Home \in S PROVE Covers(S) /\ CountedIn(S)'
    BY <1>3 DEF Anew
  <2> QED BY <1>1, <1>2, <2>1 DEF Covered, Anew, CountedIn
<1>5. Ahead' /\ Paid'
  BY <1>1 DEF Ahead, Paid
<1> QED BY <1>4, <1>5 DEF Covered

LEMMA StutterCovers ==
  ASSUME FInv, FInv', Settled, Covered, UNCHANGED vars PROVE Covered'
<1>1. UNCHANGED <<graph, status, cur, rows, frames, asked, aborted, starts>>
  BY DEF vars
<1>2. /\ WentBack' <=> WentBack
      /\ \A S : RowsIn(S)' <=> RowsIn(S)
      /\ \A S : Covers(S)' <=> Covers(S)
      /\ \A p : Owed(p)' <=> Owed(p)
  BY <1>1, Alike DEF FInv
<1>3. (\A S : JoinsIn(S)' <=> JoinsIn(S)) /\ (\A f, c : Holds(f, c)' = Holds(f, c)) /\ Home' = Home
  BY <1>1, TargetsStay, GraphStays DEF Home
<1>4. ASSUME NEW S PROVE LiveIn(S)' <=> LiveIn(S)
  BY <1>1, <1>3 DEF LiveIn
<1>5. ASSUME NEW S PROVE CountedIn(S)' <=> CountedIn(S)
  <2>1. \A f, c : Counts(f, c)' = Counts(f, c)
    BY <1>1, AskedStays DEF Counts
  <2> QED BY <1>1, <1>3, <2>1 DEF CountedIn
<1>6. Ahead'
  BY <1>1, <1>2, <1>3, <1>4 DEF Covered, Ahead
<1>7. Anew'
  BY <1>1, <1>2, <1>3, <1>5 DEF Covered, Anew
<1>8. Paid'
  BY <1>1, <1>2 DEF Covered, Paid
<1> QED BY <1>6, <1>7, <1>8 DEF Covered

LEMMA CoveredInit == ASSUME Init PROVE Covered
<1>1. status = "pending" /\ cur = None /\ rows = <<>> /\ frames = <<>>
  BY DEF Init
<1>2. DOMAIN rows = {} /\ DOMAIN frames = {} /\ Home = <<Entry, <<>>>>
  BY <1>1 DEF Home
<1>3. \A p : Wanted(p) => p = Home
  BY <1>2 DEF Wanted
<1>4. Anew
  BY <1>2, <1>3 DEF Anew, Covers, Owed, CountedIn
<1> QED BY <1>1, <1>4 DEF Covered, Ahead, Paid

-----------------------------------------------------------------------------
(* What is paid is closed                                                  *)

LEMMA PaidIsClosed == ASSUME FInv, Paid PROVE CompletedIsClosed
<1>1. SUFFICES ASSUME \A p : ~Owed(p)
               PROVE  /\ Visited(Entry, <<>>)
                      /\ \A s \in DOMAIN rows : LET n == s[1]  k == Base(s[2])  r == rows[s].res IN
                           rows[s].done =>
                             CASE r = "stop" -> Visited(Stop[n].target, k)
                               [] r # "stop" /\ Kind[n] = "fork" -> \A l \in DOMAIN Edges[n] :
                                    Visited(Edges[n][l], Branch(k, l))
                               [] r # "stop" /\ Kind[n] = "fanout" ->
                                    /\ Visited(Next_(n, "after"), k)
                                    /\ \A i \in 1..Len(Items[n]) :
                                         Visited(Edges[n]["body"], Append(k, <<"item", Items[n][i]>>))
                               [] OTHER -> LET t == Next_(n, r) IN
                                    IF t # None /\ Kind[t] = "join" /\ IsBranch(k)
                                    THEN Visited(Next_(t, "next"), SubSeq(k, 1, Len(k) - 1))
                                    ELSE Visited(t, k)
  BY DEF Paid, CompletedIsClosed
<1>2. ASSUME NEW m, NEW k, Wanted(<<m, k>>) PROVE Visited(m, k)
  BY <1>1, <1>2 DEF Owed
<1>3. Visited(Entry, <<>>)
  BY <1>2 DEF Wanted
<1>4. ASSUME NEW s \in DOMAIN rows, rows[s].done,
             NEW n, NEW k, NEW r, n = s[1], k = Base(s[2]), r = rows[s].res
      PROVE  CASE r = "stop" -> Visited(Stop[n].target, k)
               [] r # "stop" /\ Kind[n] = "fork" -> \A l \in DOMAIN Edges[n] :
                    Visited(Edges[n][l], Branch(k, l))
               [] r # "stop" /\ Kind[n] = "fanout" ->
                    /\ Visited(Next_(n, "after"), k)
                    /\ \A i \in 1..Len(Items[n]) :
                         Visited(Edges[n]["body"], Append(k, <<"item", Items[n][i]>>))
               [] OTHER -> LET t == Next_(n, r) IN
                    IF t # None /\ Kind[t] = "join" /\ IsBranch(k)
                    THEN Visited(Next_(t, "next"), SubSeq(k, 1, Len(k) - 1))
                    ELSE Visited(t, k)
  <2>1. Leads(s) = Targets(n, k, r)
    BY <1>4 DEF Leads
  <2>2. ASSUME NEW m, NEW g, <<m, g>> \in Targets(n, k, r) PROVE Visited(m, g)
    BY <1>2, <1>4, <2>1, <2>2 DEF Wanted
  <2>3. CASE r = "stop"
    <3>1. Visited(Stop[n].target, k)
      BY <2>2, <2>3 DEF Targets
    <3> QED BY <2>3, <3>1
  <2>4. CASE r # "stop" /\ Kind[n] = "fork"
    <3>1. \A l \in DOMAIN Edges[n] : Visited(Edges[n][l], Branch(k, l))
      BY <2>2, <2>4 DEF Targets
    <3> QED BY <2>4, <3>1
  <2>5. CASE r # "stop" /\ Kind[n] = "fanout"
    <3>1. Visited(Next_(n, "after"), k)
      BY <2>2, <2>5 DEF Targets
    <3>2. \A i \in 1..Len(Items[n]) : Visited(Edges[n]["body"], Append(k, <<"item", Items[n][i]>>))
      BY <2>2, <2>5 DEF Targets
    <3> QED BY <2>5, <3>1, <3>2
  <2>6. CASE r # "stop" /\ Kind[n] # "fork" /\ Kind[n] # "fanout"
    <3>1. PICK t : t = Next_(n, r)
      OBVIOUS
    <3>2. <<t, k>> \in Targets(n, k, r)
      BY <2>6, <3>1 DEF Targets
    <3>3. Visited(t, k)
      BY <2>2, <3>2
    <3>4. ASSUME t # None, Kind[t] = "join", IsBranch(k) PROVE Visited(Next_(t, "next"), SubSeq(k, 1, Len(k) - 1))
      <4>1. PICK q : q = <<t, k>>
        OBVIOUS
      <4>2. AtJoin(q) /\ Beyond(q) = <<Next_(t, "next"), SubSeq(k, 1, Len(k) - 1)>>
        BY <3>4, <4>1 DEF AtJoin, Beyond
      <4>3. Wanted(Beyond(q))
        BY <1>4, <2>1, <3>2, <4>1, <4>2 DEF Wanted
      <4> QED BY <1>2, <4>2, <4>3
    <3> QED BY <2>6, <3>1, <3>3, <3>4
  <2> QED BY <2>3, <2>4, <2>5, <2>6
<1> QED BY <1>3, <1>4

(* What a completed run has committed is closed under its routing, for any *)
(* number of crashes and failures and any interleaving of the branches, on *)
(* every finite graph whose only cycles are its self-edges, unless it was  *)
(* taken up inside a body or a branch that failed (CompletedIsClosed): all *)
(* that is owed lies ahead of the walk, and ahead of whoever takes it up.  *)
THEOREM RunsAreClosed == Spec => []CompletedIsClosed
<1> DEFINE CInv == FInv /\ Touched /\ (~astray => Covered)
<1>1. Init => CInv
  <2>1. Init => Touched
    BY DEF Init, Touched
  <2> QED BY <2>1, FInvInit, CoveredInit
<1>2. CInv /\ [Next]_vars => CInv'
  <2>1. SUFFICES ASSUME FInv, Touched, ~astray => Covered, [Next]_vars
                 PROVE  FInv' /\ Touched' /\ (~astray' => Covered')
    OBVIOUS
  <2>2. CASE UNCHANGED graph /\ Start
    <3>1. frames' = Put(<<>>, <<>>, Frame(Home[1], {})) /\ UNCHANGED astray
      BY <2>2 DEF Start, Home
    <3>2. Touched'
      BY <3>1 DEF Touched, Put, Frame
    <3> QED BY <2>1, <2>2, <3>1, <3>2, StartFits, StartCovers
  <2>3. CASE UNCHANGED graph /\ Crash
    <3>1. frames' = <<>> /\ UNCHANGED astray
      BY <2>3 DEF Crash
    <3> QED BY <2>1, <2>3, <3>1, CrashFits, CrashCovers, OverIsTouched
  <2>4. ASSUME UNCHANGED graph, NEW f \in DOMAIN frames, Walk(f) PROVE FInv' /\ Touched' /\ (~astray' => Covered')
    <3>1. ~astray' => ~astray
      BY <2>4, WentAstray
    <3> QED BY <2>1, <2>4, <3>1, WalkFits, WalkCovers, WalkTouches
  <2>5. CASE UNCHANGED vars
    <3>1. UNCHANGED astray /\ Touched'
      BY <2>1, <2>5 DEF vars, Touched
    <3> QED BY <2>1, <2>5, <3>1, StutterFits, StutterCovers
  <2> QED BY <2>1, <2>2, <2>3, <2>4, <2>5 DEF Next
<1>3. CInv => CompletedIsClosed
  <2>1. astray => CompletedIsClosed
    BY DEF CompletedIsClosed
  <2> QED BY <2>1, PaidIsClosed DEF Covered
<1> HIDE DEF CInv
<1> QED BY <1>1, <1>2, <1>3, PTL DEF Spec
=============================================================================
