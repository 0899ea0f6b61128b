-------------------------- MODULE EffectNodesProofs --------------------------
(***************************************************************************)
(* EffectsAreNotRepeated for every scenario, any children, crashes, lost   *)
(* keys and answers: it rests on the place of the guard in the program of  *)
(* each node, before the one request that has an effect.                   *)
(***************************************************************************)
EXTENDS EffectNodes, TLAPS

(* The nodes that ask a guard.                                             *)
Submits == {"bump", "reprice", "thread", "relist", "dynamic", "batch", "buy", "reply"}

GuardAt == IF Kind \in {"relist", "batch"} THEN 3 ELSE IF Kind = "reprice" THEN 2 ELSE 1

(* Past the guard and not yet on the wire: the effect is about to happen.  *)
Armed(c) == pc = "running" /\ kid[c].mode = "next" /\ kid[c].at > GuardAt

KidFields == {"at", "mode", "note", "turn"}

Shapes ==
  /\ step \in Starts
  /\ DOMAIN took = Kids /\ \A c \in Kids : took[c] \in Nat
  /\ DOMAIN left = {"tries", "losses", "shifts"} /\ left.losses \in 0..step.losses
  /\ left.tries \in 0..(step.crashes + 1)
  /\ pc = "running" => left.tries <= step.crashes

(* Every child is at a place of its program, and waits at the last one.    *)
InPlace == Kind \in Submits =>
  /\ DOMAIN kid = Kids
  /\ \A c \in Kids : /\ DOMAIN kid[c] = KidFields /\ kid[c].at \in 1..Len(Program)
                     /\ kid[c].mode = "waiting" => kid[c].at = Len(Program)

ReadsTakeNothing == Kind \in Reads => \A c \in Kids : took[c] = 0

(* An effect done or about to be is paid for with a key: one that is held, *)
(* or one that was lost.                                                   *)
PaidFor == Kind \in Submits => \A c \in Kids :
  took[c] + (IF Armed(c) THEN 1 ELSE 0) <= (IF c \in keys THEN 1 ELSE 0) + step.losses - left.losses

(* A durable node does its effect in the first attempt or never.           *)
FirstAttemptOnly == Kind \in Durable => \A c \in Kids :
  /\ took[c] <= 1
  /\ left.tries = step.crashes + 1 => took[c] = 0
  /\ pc = "running" /\ ~replay /\ kid[c].mode = "next" => took[c] = 0
  /\ Armed(c) => ~replay

IInv == Shapes /\ InPlace /\ ReadsTakeNothing /\ PaidFor /\ FirstAttemptOnly

-----------------------------------------------------------------------------
(* Every program that has an effect asks its guard once, before the one    *)
(* request it makes, which is its last stage.                              *)
LEMMA ProgramShape ==
  ASSUME Kind \in Submits
  PROVE  /\ Len(Program) \in Nat /\ Len(Program) >= 2 /\ GuardAt \in 1..Len(Program)
         /\ \A i \in 1..Len(Program) :
              /\ Program[i] = "guard" <=> i = GuardAt
              /\ i = Len(Program) <=> Program[i] \in {"send", "skip"}
         /\ GuardAt < Len(Program)
<1> DEFINE P == Program  g == GuardAt
<1>1. CASE Kind = "bump"
  <2>1. P = <<"guard", "account", "send">> /\ g = 1
    BY <1>1 DEF Program, GuardAt, Bump
  <2> HIDE DEF P, g
  <2>2. Len(P) = 3 /\ P[1] = "guard" /\ P[2] = "account" /\ P[3] = "send"
    BY <2>1
  <2> QED BY <2>1, <2>2 DEF P, g
<1>2. CASE Kind = "thread"
  <2>1. P = <<"guard", "owner", "account", "send">> /\ g = 1
    BY <1>2 DEF Program, GuardAt, BumpThread
  <2> HIDE DEF P, g
  <2>2. Len(P) = 4 /\ P[1] = "guard" /\ P[2] = "owner" /\ P[3] = "account" /\ P[4] = "send"
    BY <2>1
  <2> QED BY <2>1, <2>2 DEF P, g
<1>3. CASE Kind = "reprice"
  <2>1. P = <<"target", "guard", "account", "send">> /\ g = 2
    BY <1>3 DEF Program, GuardAt, Reprice
  <2> HIDE DEF P, g
  <2>2. Len(P) = 4 /\ P[1] = "target" /\ P[2] = "guard" /\ P[3] = "account" /\ P[4] = "send"
    BY <2>1
  <2> QED BY <2>1, <2>2 DEF P, g
<1>4. CASE Kind = "reply"
  <2>1. P = <<"guard", "skip">> /\ g = 1
    BY <1>4 DEF Program, GuardAt, AutoReply
  <2> HIDE DEF P, g
  <2>2. Len(P) = 2 /\ P[1] = "guard" /\ P[2] = "skip"
    BY <2>1
  <2> QED BY <2>1, <2>2 DEF P, g
<1>5. CASE Kind = "relist"
  <2>1. P = <<"owner", "account", "guard", "send">> /\ g = 3
    BY <1>5 DEF Program, GuardAt, Relist
  <2> HIDE DEF P, g
  <2>2. Len(P) = 4 /\ P[1] = "owner" /\ P[2] = "account" /\ P[3] = "guard" /\ P[4] = "send"
    BY <2>1
  <2> QED BY <2>1, <2>2 DEF P, g
<1>6. CASE Kind = "batch"
  <2>1. P = <<"client", "inputs", "guard", "send">> /\ g = 3
    BY <1>6 DEF Program, GuardAt, Batch
  <2> HIDE DEF P, g
  <2>2. Len(P) = 4 /\ P[1] = "client" /\ P[2] = "inputs" /\ P[3] = "guard" /\ P[4] = "send"
    BY <2>1
  <2> QED BY <2>1, <2>2 DEF P, g
<1>7. CASE Kind = "dynamic"
  <2>1. P = <<"guard", "client", "method", "send">> /\ g = 1
    BY <1>7 DEF Program, GuardAt, DynamicCall
  <2> HIDE DEF P, g
  <2>2. Len(P) = 4 /\ P[1] = "guard" /\ P[2] = "client" /\ P[3] = "method" /\ P[4] = "send"
    BY <2>1
  <2> QED BY <2>1, <2>2 DEF P, g
<1>8. CASE Kind = "buy"
  <2>1. P = <<"guard", "account", "check", "send">> /\ g = 1
    BY <1>8 DEF Program, GuardAt, FastBuy
  <2> HIDE DEF P, g
  <2>2. Len(P) = 4 /\ P[1] = "guard" /\ P[2] = "account" /\ P[3] = "check" /\ P[4] = "send"
    BY <2>1
  <2> QED BY <2>1, <2>2 DEF P, g
<1> QED BY <1>1, <1>2, <1>3, <1>4, <1>5, <1>6, <1>7, <1>8 DEF Submits

LEMMA KindsDiffer ==
  /\ Submits \cap Reads = {} /\ "request" \notin Submits \cup Reads
  /\ Durable \subseteq Submits /\ "lots" \notin Submits
  BY DEF Submits, Reads, Durable

LEMMA KindIsKnown == ASSUME Shapes PROVE Kind \in Submits \/ Kind \in Reads \/ Kind = "request"
  BY EffectNodesAssumption DEF Shapes, Kind, Kinds, Submits, Reads

-----------------------------------------------------------------------------
(* How a child moves                                                       *)

(* Only c moves, keeps its place in the program, and is not armed anew.    *)
KidMoved(c) ==
  /\ DOMAIN kid' = Kids /\ \A d \in Kids \ {c} : kid'[d] = kid[d]
  /\ DOMAIN kid'[c] = KidFields /\ kid'[c].at \in 1..Len(Program)
  /\ kid'[c].mode = "waiting" => kid'[c].at = Len(Program)
  /\ kid'[c].mode = "next" => /\ kid[c].mode = "next"
                              /\ kid'[c].at > GuardAt => kid[c].at > GuardAt

LEMMA MoveKeeps ==
  ASSUME IInv, Kind \in Submits, NEW c \in Kids, KidMoved(c),
         UNCHANGED <<step, pc, replay, keys, took, left>>
  PROVE  IInv'
<1>1. UNCHANGED Kind /\ UNCHANGED GuardAt /\ UNCHANGED Program
  BY DEF Kind, GuardAt, Program
<1>2. \A d \in Kids : Armed(d)' => Armed(d)
  BY <1>1 DEF Armed, KidMoved
<1>3. Shapes'
  BY DEF IInv, Shapes
<1>4. InPlace'
  BY <1>1 DEF IInv, InPlace, KidMoved
<1>5. ReadsTakeNothing'
  BY <1>1 DEF IInv, ReadsTakeNothing
<1>6. PaidFor'
  <2> SUFFICES ASSUME NEW d \in Kids
               PROVE  took[d] + (IF Armed(d)' THEN 1 ELSE 0) <=
                        (IF d \in keys THEN 1 ELSE 0) + step.losses - left.losses
    BY <1>1 DEF PaidFor
  <2>1. took[d] + (IF Armed(d) THEN 1 ELSE 0) <= (IF d \in keys THEN 1 ELSE 0) + step.losses - left.losses
    BY DEF IInv, PaidFor
  <2>2. took[d] \in Nat /\ left.losses \in Nat /\ step.losses \in Nat
    BY EffectNodesAssumption DEF IInv, Shapes
  <2> QED BY <1>2, <2>1, <2>2
<1>7. FirstAttemptOnly'
  <2>1. \A d \in Kids : kid'[d].mode = "next" => kid[d].mode = "next"
    BY DEF KidMoved
  <2> QED BY <1>1, <1>2, <2>1 DEF IInv, FirstAttemptOnly
<1> QED BY <1>3, <1>4, <1>5, <1>6, <1>7 DEF IInv

LEMMA RaiseMoves ==
  ASSUME IInv, Kind \in Submits, NEW c \in Kids, NEW why, Raise(c, why) PROVE KidMoved(c)
<1>1. DOMAIN kid[c] = KidFields /\ DOMAIN kid = Kids /\ kid[c].at \in 1..Len(Program)
  BY DEF IInv, InPlace
<1> QED BY <1>1 DEF Raise, KidMoved, KidFields

LEMMA ReturnMoves ==
  ASSUME IInv, Kind \in Submits, NEW c \in Kids, NEW what, Return(c, what) PROVE KidMoved(c)
<1>1. DOMAIN kid[c] = KidFields /\ DOMAIN kid = Kids /\ kid[c].at \in 1..Len(Program)
  BY DEF IInv, InPlace
<1> QED BY <1>1 DEF Return, KidMoved, KidFields

(* From a stage that is neither the guard nor the last.                    *)
LEMMA AdvanceMoves ==
  ASSUME IInv, Kind \in Submits, NEW c \in Kids, NEW stage, stage \notin {"guard", "send", "skip"},
         At(c, stage), Advance(c)
  PROVE  KidMoved(c)
<1>1. DOMAIN kid[c] = KidFields /\ DOMAIN kid = Kids /\ kid[c].at \in 1..Len(Program)
  BY DEF IInv, InPlace
<1>2. kid[c].mode = "next" /\ kid[c].at # GuardAt /\ kid[c].at # Len(Program)
  BY <1>1, ProgramShape DEF At
<1>3. /\ DOMAIN kid' = Kids /\ \A d \in Kids \ {c} : kid'[d] = kid[d]
      /\ DOMAIN kid'[c] = KidFields /\ kid'[c].at = kid[c].at + 1 /\ kid'[c].mode = "next"
  BY <1>1, <1>2 DEF Advance, KidFields
<1>4. Len(Program) \in Nat /\ GuardAt \in Nat
  BY ProgramShape
<1> QED BY <1>1, <1>2, <1>3, <1>4 DEF KidMoved

LEMMA PlainKeeps ==
  ASSUME IInv, Kind \in Submits, NEW c \in Kids,
         \/ Owner(c) \/ LoadAccount(c) \/ OpenClient(c) \/ Inputs(c) \/ TargetPrice(c)
         \/ ResolveMethod(c) \/ Skip(c) \/ CheckPrice(c) \/ Resolve(c)
  PROVE  IInv'
<1>1. UNCHANGED <<step, pc, replay, keys, took, left>>
  BY DEF Owner, LoadAccount, OpenClient, Inputs, TargetPrice, ResolveMethod, Skip, CheckPrice, Resolve,
         Plain, Quiet
<1>2. \/ \E why : Raise(c, why)
      \/ \E what : Return(c, what)
      \/ Advance(c) /\ \E stage \in {"owner", "account", "client", "inputs", "target", "method",
                                     "check", "resolve"} : At(c, stage)
  BY DEF Owner, LoadAccount, OpenClient, Inputs, TargetPrice, ResolveMethod, Skip, CheckPrice, Resolve
<1>3. KidMoved(c)
  BY <1>2, RaiseMoves, ReturnMoves, AdvanceMoves
<1> QED BY <1>1, <1>3, MoveKeeps

(* An answer ends the child: the request was its last stage.               *)
LEMMA ReceiveKeeps ==
  ASSUME IInv, Kind \in Submits, NEW c \in Kids, Receive(c) PROVE IInv'
<1>1. Answer(c) \/ ChildAnswer(c)
  BY KindsDiffer DEF Receive, TurnPage, Respond
<1>2. UNCHANGED <<step, pc, replay, keys, took, left>>
  BY <1>1 DEF Answer, ChildAnswer, Plain, Quiet
<1>3. kid[c].at = Len(Program)
  BY <1>1 DEF Answer, ChildAnswer, Waiting, IInv, InPlace
<1>4. (\E why : Raise(c, why)) \/ (\E what : Return(c, what))
  BY <1>1, <1>3 DEF Answer, ChildAnswer, Done
<1> QED BY <1>2, <1>4, RaiseMoves, ReturnMoves, MoveKeeps

-----------------------------------------------------------------------------
(* The guard and the wire                                                  *)

LEMMA GuardKeeps ==
  ASSUME IInv, Kind \in Submits, NEW c \in Kids, Guard(c) PROVE IInv'
<1>1. UNCHANGED <<step, pc, replay, took, left>> /\ keys' = keys \cup {c}
  BY DEF Guard, Quiet
<1>2. UNCHANGED Kind /\ UNCHANGED GuardAt /\ UNCHANGED Program
  BY <1>1 DEF Kind, GuardAt, Program
<1>3. DOMAIN kid[c] = KidFields /\ DOMAIN kid = Kids /\ kid[c].at \in 1..Len(Program)
  BY DEF IInv, InPlace
<1>4. pc = "running" /\ kid[c].mode = "next" /\ kid[c].at = GuardAt /\ ~Armed(c)
  BY <1>3, ProgramShape DEF Guard, At, Armed
<1>5. /\ DOMAIN kid' = Kids /\ \A d \in Kids \ {c} : kid'[d] = kid[d]
      /\ DOMAIN kid'[c] = KidFields /\ kid'[c].at \in 1..Len(Program)
      /\ kid'[c].mode # "waiting"
      /\ kid'[c].mode = "next" => First(c) /\ ~(Kind \in Durable /\ replay)
  <2>1. CASE First(c) /\ ~(Kind \in Durable /\ replay)
    <3>1. kid' = [kid EXCEPT ![c].at = @ + 1]
      BY <2>1 DEF Guard, Advance
    <3>2. GuardAt + 1 \in 1..Len(Program)
      BY ProgramShape
    <3> QED BY <1>3, <1>4, <2>1, <3>1, <3>2 DEF KidFields
  <2>2. CASE ~(First(c) /\ ~(Kind \in Durable /\ replay))
    <3>1. (\E why : Raise(c, why)) \/ (\E what : Return(c, what))
      BY <2>2 DEF Guard, Repeated
    <3> QED BY <1>3, <3>1 DEF Raise, Return, KidFields
  <2> QED BY <2>1, <2>2
<1>6. \A d \in Kids \ {c} : Armed(d)' <=> Armed(d)
  BY <1>1, <1>2, <1>5 DEF Armed
<1>7. Shapes' /\ InPlace' /\ ReadsTakeNothing'
  BY <1>1, <1>2, <1>5 DEF IInv, Shapes, InPlace, ReadsTakeNothing
<1>8. PaidFor'
  <2> SUFFICES ASSUME NEW d \in Kids
               PROVE  took[d] + (IF Armed(d)' THEN 1 ELSE 0) <=
                        (IF d \in keys' THEN 1 ELSE 0) + step.losses - left.losses
    BY <1>1, <1>2 DEF PaidFor
  <2>1. took[d] + (IF Armed(d) THEN 1 ELSE 0) <= (IF d \in keys THEN 1 ELSE 0) + step.losses - left.losses
    BY DEF IInv, PaidFor
  <2>2. took[d] \in Nat /\ left.losses \in Nat /\ step.losses \in Nat
    BY EffectNodesAssumption DEF IInv, Shapes
  <2>3. CASE d # c
    BY <1>1, <1>6, <2>1, <2>2, <2>3
  <2>4. CASE d = c /\ kid'[c].mode = "next"
    <3>1. c \notin keys /\ c \in keys' /\ ~Armed(c)
      BY <1>1, <1>4, <1>5, <2>4 DEF First
    <3> QED BY <2>1, <2>2, <2>4, <3>1
  <2>5. CASE d = c /\ kid'[c].mode # "next"
    <3>1. ~Armed(c)' /\ c \in keys' /\ ~Armed(c)
      BY <1>1, <1>4, <2>5 DEF Armed
    <3> QED BY <2>1, <2>2, <2>5, <3>1
  <2> QED BY <2>3, <2>4, <2>5
<1>9. FirstAttemptOnly'
  <2>1. \A d \in Kids : kid'[d].mode = "next" => kid[d].mode = "next"
    BY <1>4, <1>5
  <2>2. Kind \in Durable => \A d \in Kids : Armed(d)' => ~replay
    BY <1>5, <1>6 DEF IInv, FirstAttemptOnly, Armed
  <2> QED BY <1>1, <1>2, <2>1, <2>2 DEF IInv, FirstAttemptOnly
<1> QED BY <1>7, <1>8, <1>9 DEF IInv

LEMMA SendKeeps ==
  ASSUME IInv, Kind \in Submits, NEW c \in Kids, Send(c) PROVE IInv'
<1>1. UNCHANGED <<step, pc, replay, keys, left>>
  BY DEF Send
<1>2. UNCHANGED Kind /\ UNCHANGED GuardAt /\ UNCHANGED Program
  BY <1>1 DEF Kind, GuardAt, Program
<1>3. DOMAIN kid[c] = KidFields /\ DOMAIN kid = Kids /\ kid[c].at \in 1..Len(Program)
      /\ DOMAIN took = Kids /\ took[c] \in Nat
  BY DEF IInv, InPlace, Shapes
<1>4. kid[c].at = Len(Program) /\ Armed(c)
  BY <1>3, ProgramShape DEF Send, At, Armed
<1>5. CASE UNCHANGED took /\ ((\E why : Raise(c, why)) \/ (\E what : Return(c, what)))
  BY <1>1, <1>5, RaiseMoves, ReturnMoves, MoveKeeps
<1>6. ASSUME NEW wire, NEW n \in {0, 1}, kid' = [kid EXCEPT ![c].mode = "waiting", ![c].note = wire],
             took' = [took EXCEPT ![c] = IF Kind \in Reads THEN 0 ELSE @ + n]
      PROVE  IInv'
  <2>1. /\ DOMAIN kid' = Kids /\ \A d \in Kids \ {c} : kid'[d] = kid[d]
        /\ DOMAIN kid'[c] = KidFields /\ kid'[c].at = Len(Program) /\ kid'[c].mode = "waiting"
    BY <1>3, <1>4, <1>6 DEF KidFields
  <2>2. DOMAIN took' = Kids /\ (\A d \in Kids \ {c} : took'[d] = took[d]) /\ took'[c] = took[c] + n
    BY <1>3, <1>6, KindsDiffer
  <2>3. Shapes'
    BY <1>1, <1>3, <2>2 DEF IInv, Shapes
  <2>4. InPlace' /\ ReadsTakeNothing'
    BY <1>2, <2>1, ProgramShape, KindsDiffer DEF IInv, InPlace, ReadsTakeNothing
  <2>5. ~Armed(c)' /\ \A d \in Kids \ {c} : Armed(d)' <=> Armed(d)
    BY <1>1, <1>2, <2>1 DEF Armed
  <2>6. PaidFor'
    <3> SUFFICES ASSUME NEW d \in Kids
                 PROVE  took'[d] + (IF Armed(d)' THEN 1 ELSE 0) <=
                          (IF d \in keys THEN 1 ELSE 0) + step.losses - left.losses
      BY <1>1, <1>2 DEF PaidFor
    <3>1. took[d] + (IF Armed(d) THEN 1 ELSE 0) <= (IF d \in keys THEN 1 ELSE 0) + step.losses - left.losses
      BY DEF IInv, PaidFor
    <3>2. took[d] \in Nat /\ left.losses \in Nat /\ step.losses \in Nat
      BY EffectNodesAssumption DEF IInv, Shapes
    <3> QED BY <1>4, <2>2, <2>5, <3>1, <3>2
  <2>7. FirstAttemptOnly'
    <3> SUFFICES ASSUME Kind \in Durable, NEW d \in Kids
                 PROVE  /\ took'[d] <= 1
                        /\ left.tries = step.crashes + 1 => took'[d] = 0
                        /\ pc = "running" /\ ~replay /\ kid'[d].mode = "next" => took'[d] = 0
                        /\ Armed(d)' => ~replay
      BY <1>1, <1>2 DEF FirstAttemptOnly
    <3>1. CASE d # c
      BY <2>1, <2>2, <2>5, <3>1 DEF IInv, FirstAttemptOnly
    <3>2. CASE d = c
      <4>1. ~replay /\ pc = "running" /\ kid[c].mode = "next" /\ took[c] = 0
        BY <1>4 DEF IInv, FirstAttemptOnly, Armed
      <4>2. left.tries # step.crashes + 1
        BY <4>1, EffectNodesAssumption DEF IInv, Shapes
      <4> QED BY <2>1, <2>2, <2>5, <3>2, <4>1, <4>2
    <3> QED BY <3>1, <3>2
  <2> QED BY <2>3, <2>4, <2>6, <2>7 DEF IInv
<1>7. \A wire : Takes(wire) \subseteq {0, 1}
  BY DEF Takes
<1> QED BY <1>5, <1>6, <1>7 DEF Send

-----------------------------------------------------------------------------
(* Attempts and the world                                                  *)

LEMMA BeginKeeps == ASSUME IInv, Kind \in Submits, Begin PROVE IInv'
<1>1. /\ pc = "idle" /\ pc' = "running" /\ left.tries > 0
      /\ replay' = (left.tries <= step.crashes) /\ kid' = Fresh
      /\ left' = [left EXCEPT !.tries = @ - 1]
      /\ UNCHANGED step /\ UNCHANGED keys /\ UNCHANGED took
  BY DEF Begin
<1>2. UNCHANGED Kind /\ UNCHANGED GuardAt /\ UNCHANGED Program
  BY <1>1 DEF Kind, GuardAt, Program
<1>3. DOMAIN kid' = Kids /\ \A c \in Kids : /\ DOMAIN kid'[c] = KidFields /\ kid'[c].at = 1
                                            /\ kid'[c].mode = "next"
  BY <1>1 DEF Fresh, KidFields
<1>4. /\ DOMAIN left' = {"tries", "losses", "shifts"}
      /\ left'.tries = left.tries - 1 /\ left'.losses = left.losses
      /\ left.tries \in 0..(step.crashes + 1) /\ step.crashes \in Nat
  BY <1>1, EffectNodesAssumption DEF IInv, Shapes
<1>5. \A c \in Kids : ~Armed(c)'
  BY <1>2, <1>3, ProgramShape DEF Armed
<1>6. \A c \in Kids : ~Armed(c)
  BY <1>1 DEF Armed
<1>7. Shapes'
  BY <1>1, <1>4 DEF IInv, Shapes
<1>8. InPlace' /\ ReadsTakeNothing'
  BY <1>1, <1>2, <1>3, ProgramShape DEF IInv, InPlace, ReadsTakeNothing
<1>9. PaidFor'
  BY <1>1, <1>2, <1>4, <1>5, <1>6 DEF IInv, PaidFor
<1>10. FirstAttemptOnly'
  <2>1. left'.tries # step.crashes + 1
    BY <1>4
  <2>2. ~replay' => left.tries = step.crashes + 1
    <3>1. ~replay' => ~(left.tries <= step.crashes)
      BY <1>1, Zenon
    <3> QED BY <1>4, <3>1
  <2> QED BY <1>1, <1>2, <1>5, <2>1, <2>2 DEF IInv, FirstAttemptOnly
<1> QED BY <1>7, <1>8, <1>9, <1>10 DEF IInv

(* An attempt that is over, or cut off, leaves nobody armed.               *)
LEMMA EndKeeps ==
  ASSUME IInv, Kind \in Submits, pc = "running", pc' # "running",
         UNCHANGED <<step, replay, keys, took, left>>,
         DOMAIN kid' = Kids,
         \A c \in Kids : /\ DOMAIN kid'[c] = KidFields /\ kid'[c].at = kid[c].at
                         /\ kid'[c].mode = "waiting" => kid[c].mode = "waiting"
  PROVE  IInv'
<1>1. UNCHANGED Kind /\ UNCHANGED GuardAt /\ UNCHANGED Program
  BY DEF Kind, GuardAt, Program
<1>2. \A c \in Kids : ~Armed(c)'
  BY DEF Armed
<1>3. Shapes' /\ InPlace' /\ ReadsTakeNothing'
  BY <1>1 DEF IInv, Shapes, InPlace, ReadsTakeNothing
<1>4. PaidFor'
  <2> SUFFICES ASSUME NEW d \in Kids
               PROVE  took[d] + 0 <= (IF d \in keys THEN 1 ELSE 0) + step.losses - left.losses
    BY <1>1, <1>2 DEF PaidFor
  <2>1. took[d] + (IF Armed(d) THEN 1 ELSE 0) <= (IF d \in keys THEN 1 ELSE 0) + step.losses - left.losses
    BY DEF IInv, PaidFor
  <2>2. took[d] \in Nat /\ left.losses \in Nat /\ step.losses \in Nat
    BY EffectNodesAssumption DEF IInv, Shapes
  <2> QED BY <2>1, <2>2
<1>5. FirstAttemptOnly'
  BY <1>1, <1>2 DEF IInv, FirstAttemptOnly
<1> QED BY <1>3, <1>4, <1>5 DEF IInv

LEMMA SettleKeeps == ASSUME IInv, Kind \in Submits, Settle PROVE IInv'
<1>1. pc = "running" /\ pc' # "running" /\ UNCHANGED kid /\ UNCHANGED <<step, replay, keys, took, left>>
  BY DEF Settle
<1> QED BY <1>1, EndKeeps DEF IInv, InPlace

LEMMA CrashKeeps == ASSUME IInv, Kind \in Submits, Crash PROVE IInv'
<1>1. pc = "running" /\ pc' # "running" /\ UNCHANGED kid /\ UNCHANGED <<step, replay, keys, took, left>>
  BY DEF Crash
<1> QED BY <1>1, EndKeeps DEF IInv, InPlace

LEMMA NodeTimeoutKeeps == ASSUME IInv, Kind \in Submits, NodeTimeout PROVE IInv'
<1>1. pc = "running" /\ pc' # "running" /\ UNCHANGED <<step, replay, keys, took, left>>
  BY DEF NodeTimeout
<1>2. kid' = [c \in Kids |-> IF Settled(c) THEN kid[c] ELSE [kid[c] EXCEPT !.mode = "cut"]]
  BY DEF NodeTimeout
<1>3. \A c \in Kids : DOMAIN kid[c] = KidFields
  BY DEF IInv, InPlace
<1>4. \A c \in Kids : /\ DOMAIN [kid[c] EXCEPT !.mode = "cut"] = KidFields
                      /\ [kid[c] EXCEPT !.mode = "cut"].at = kid[c].at
                      /\ [kid[c] EXCEPT !.mode = "cut"].mode = "cut"
  BY <1>3 DEF KidFields
<1>5. DOMAIN kid' = Kids /\ \A c \in Kids : /\ DOMAIN kid'[c] = KidFields /\ kid'[c].at = kid[c].at
                                            /\ kid'[c].mode = "waiting" => kid[c].mode = "waiting"
  BY <1>2, <1>3, <1>4
<1> QED BY <1>1, <1>5, EndKeeps

LEMMA LoseKeysKeeps == ASSUME IInv, Kind \in Submits, LoseKeys PROVE IInv'
<1>1. /\ left.losses > 0 /\ keys' = {} /\ left' = [left EXCEPT !.losses = @ - 1]
      /\ UNCHANGED <<step, pc, replay, kid, took>>
  BY DEF LoseKeys
<1>2. UNCHANGED Kind /\ UNCHANGED GuardAt /\ UNCHANGED Program
  BY <1>1 DEF Kind, GuardAt, Program
<1>3. /\ DOMAIN left' = {"tries", "losses", "shifts"}
      /\ left'.tries = left.tries /\ left'.losses = left.losses - 1
      /\ left.losses \in 0..step.losses /\ step.losses \in Nat
  BY <1>1, EffectNodesAssumption DEF IInv, Shapes
<1>4. \A c \in Kids : Armed(c)' <=> Armed(c)
  BY <1>1, <1>2 DEF Armed
<1>5. Shapes' /\ InPlace' /\ ReadsTakeNothing'
  BY <1>1, <1>2, <1>3 DEF IInv, Shapes, InPlace, ReadsTakeNothing
<1>6. PaidFor'
  <2> SUFFICES ASSUME NEW d \in Kids
               PROVE  took[d] + (IF Armed(d) THEN 1 ELSE 0) <= 0 + step.losses - left'.losses
    BY <1>1, <1>2, <1>4 DEF PaidFor
  <2>1. took[d] + (IF Armed(d) THEN 1 ELSE 0) <= (IF d \in keys THEN 1 ELSE 0) + step.losses - left.losses
    BY DEF IInv, PaidFor
  <2>2. took[d] \in Nat
    BY DEF IInv, Shapes
  <2> QED BY <1>3, <2>1, <2>2
<1>7. FirstAttemptOnly'
  BY <1>1, <1>2, <1>3, <1>4 DEF IInv, FirstAttemptOnly
<1> QED BY <1>5, <1>6, <1>7 DEF IInv

(* A step that touches none of the variables the invariant reads.          *)
LEMMA StutterKeeps ==
  ASSUME IInv, UNCHANGED <<step, pc, replay, kid, keys, took>>, UNCHANGED left.losses,
         UNCHANGED left.tries, DOMAIN left' = DOMAIN left
  PROVE  IInv'
<1>1. UNCHANGED Kind /\ UNCHANGED GuardAt /\ UNCHANGED Program
  BY DEF Kind, GuardAt, Program
<1>2. \A c : Armed(c)' <=> Armed(c)
  BY <1>1 DEF Armed
<1>3. Shapes' /\ InPlace' /\ ReadsTakeNothing'
  BY <1>1 DEF IInv, Shapes, InPlace, ReadsTakeNothing
<1>4. PaidFor'
  BY <1>1, <1>2 DEF IInv, PaidFor
<1>5. FirstAttemptOnly'
  BY <1>1, <1>2 DEF IInv, FirstAttemptOnly
<1> QED BY <1>3, <1>4, <1>5 DEF IInv

LEMMA WorldShiftsKeeps == ASSUME IInv, WorldShifts PROVE IInv'
<1>1. left' = [left EXCEPT !.shifts = @ - 1] /\ DOMAIN left = {"tries", "losses", "shifts"}
  BY DEF WorldShifts, IInv, Shapes
<1>2. UNCHANGED left.losses /\ UNCHANGED left.tries /\ DOMAIN left' = DOMAIN left
  BY <1>1
<1> QED BY <1>2, StutterKeeps DEF WorldShifts

-----------------------------------------------------------------------------
(* The nodes that only read, and the plain request                         *)

LEMMA OthersKeep ==
  ASSUME IInv, Kind \notin Submits, [Next]_vars PROVE IInv'
<1>1. UNCHANGED step
  BY DEF Next, vars, Begin, Settle, NodeTimeout, Crash, LoseKeys, WorldShifts, Over, Stage, Receive,
         Guard, Owner, LoadAccount, OpenClient, Inputs, TargetPrice, ResolveMethod, Skip, CheckPrice,
         Resolve, Send, Answer, ChildAnswer, TurnPage, Respond, Plain, Quiet
<1>2. UNCHANGED Kind
  BY <1>1 DEF Kind
<1>3. step.crashes \in Nat /\ step.losses \in Nat
  BY EffectNodesAssumption DEF IInv, Shapes
<1>4. \/ UNCHANGED left /\ (pc' = "running" => pc = "running")
      \/ left.tries > 0 /\ left' = [left EXCEPT !.tries = @ - 1]
      \/ left.losses > 0 /\ left' = [left EXCEPT !.losses = @ - 1] /\ UNCHANGED pc
      \/ left' = [left EXCEPT !.shifts = @ - 1] /\ UNCHANGED pc
  BY ZenonT(60) DEF Next, vars, Begin, Settle, NodeTimeout, Crash, LoseKeys, WorldShifts, Over, Stage, Receive,
         Guard, Owner, LoadAccount, OpenClient, Inputs, TargetPrice, ResolveMethod, Skip, CheckPrice,
         Resolve, Send, Answer, ChildAnswer, TurnPage, Respond, Plain, Quiet
<1>5. /\ DOMAIN left' = {"tries", "losses", "shifts"} /\ left'.losses \in 0..step.losses
      /\ left'.tries \in 0..(step.crashes + 1)
      /\ pc' = "running" => left'.tries <= step.crashes
  BY <1>3, <1>4 DEF IInv, Shapes
<1>6. /\ DOMAIN took' = Kids /\ \A c \in Kids : took'[c] \in Nat
      /\ Kind \in Reads => \A c \in Kids : took'[c] = 0
  <2>1. \/ UNCHANGED took
        \/ \E c \in Kids : \E n \in {0, 1} : took' = [took EXCEPT ![c] = IF Kind \in Reads THEN 0 ELSE @ + n]
    <3>1. \A wire : Takes(wire) \subseteq {0, 1}
      BY DEF Takes
    <3>2. ASSUME NEW c \in Kids, Send(c)
          PROVE  \/ UNCHANGED took
                 \/ \E n \in {0, 1} : took' = [took EXCEPT ![c] = IF Kind \in Reads THEN 0 ELSE @ + n]
      BY <3>1, <3>2 DEF Send
    <3> QED BY <3>2 DEF Next, vars, Begin, Settle, NodeTimeout, Crash, LoseKeys, WorldShifts, Over,
              Stage, Receive, Guard, Owner, LoadAccount, OpenClient, Inputs, TargetPrice, ResolveMethod,
              Skip, CheckPrice, Resolve, Answer, ChildAnswer, TurnPage, Respond, Plain, Quiet
  <2>2. DOMAIN took = Kids /\ (\A c \in Kids : took[c] \in Nat) /\ (Kind \in Reads => \A c \in Kids : took[c] = 0)
    BY DEF IInv, Shapes, ReadsTakeNothing
  <2> QED BY <2>1, <2>2
<1>7. Shapes'
  BY <1>1, <1>5, <1>6 DEF IInv, Shapes
<1>8. ReadsTakeNothing' /\ InPlace' /\ PaidFor' /\ FirstAttemptOnly'
  BY <1>2, <1>6, KindsDiffer DEF ReadsTakeNothing, InPlace, PaidFor, FirstAttemptOnly
<1> QED BY <1>7, <1>8 DEF IInv

-----------------------------------------------------------------------------
LEMMA InvInit == ASSUME Init PROVE IInv
<1>1. /\ step \in Starts /\ pc = "idle" /\ kid = Fresh /\ keys = {}
      /\ took = [c \in Kids |-> 0]
      /\ left = [tries |-> step.crashes + 1, losses |-> step.losses, shifts |-> step.shifts]
  BY DEF Init
<1>2. step.crashes \in Nat /\ step.losses \in Nat
  BY <1>1, EffectNodesAssumption
<1>3. Shapes
  BY <1>1, <1>2 DEF Shapes
<1>4. InPlace
  BY <1>1, ProgramShape DEF InPlace, Fresh, KidFields
<1>5. \A c \in Kids : ~Armed(c) /\ took[c] = 0
  BY <1>1 DEF Armed
<1>6. ReadsTakeNothing /\ PaidFor /\ FirstAttemptOnly
  BY <1>1, <1>2, <1>5 DEF ReadsTakeNothing, PaidFor, FirstAttemptOnly
<1> QED BY <1>3, <1>4, <1>6 DEF IInv

LEMMA InvStep == ASSUME IInv, [Next]_vars PROVE IInv'
<1>1. CASE Kind \notin Submits
  BY <1>1, OthersKeep
<1>2. CASE Kind \in Submits
  <2>1. CASE UNCHANGED vars
    BY <2>1, StutterKeeps DEF vars
  <2>2. CASE Over
    BY <2>2, StutterKeeps DEF Over, vars
  <2>3. ASSUME NEW c \in Kids, Stage(c) PROVE IInv'
    BY <1>2, <2>3, PlainKeeps, GuardKeeps, SendKeeps DEF Stage
  <2> QED BY <1>2, <2>1, <2>2, <2>3, BeginKeeps, SettleKeeps, NodeTimeoutKeeps, CrashKeeps, LoseKeysKeeps,
            WorldShiftsKeeps, ReceiveKeeps DEF Next
<1> QED BY <1>1, <1>2

LEMMA InvImplies == ASSUME IInv PROVE EffectsAreNotRepeated
<1>1. SUFFICES ASSUME Kind \notin {"request", "status"}, NEW c \in Kids
               PROVE  took[c] <= IF Kind \in {"relist", "buy"} THEN 1 ELSE 1 + step.losses - left.losses
  BY DEF EffectsAreNotRepeated
<1>2. took[c] \in Nat /\ left.losses \in 0..step.losses /\ step.losses \in Nat
  BY EffectNodesAssumption DEF IInv, Shapes
<1>3. CASE Kind \in Durable
  BY <1>3 DEF IInv, FirstAttemptOnly, Durable
<1>4. CASE Kind \in Submits \ Durable
  <2>1. took[c] + (IF Armed(c) THEN 1 ELSE 0) <= (IF c \in keys THEN 1 ELSE 0) + step.losses - left.losses
    BY <1>4 DEF IInv, PaidFor
  <2> QED BY <1>2, <1>4, <2>1 DEF Durable
<1>5. CASE Kind \in Reads
  BY <1>2, <1>5 DEF IInv, ReadsTakeNothing, Reads
<1> QED BY <1>1, <1>3, <1>4, <1>5, KindIsKnown DEF IInv

(* Whatever crashes, times out or loses an answer, a node's effect happens *)
(* at most once more than its guard's key was lost; publishing a lot and   *)
(* buying one at most once in all (relist.py:117, fast_buy.py:266), since  *)
(* those two also trust the row of the step.                               *)
THEOREM NeverRepeatedByTheStep == Spec => []EffectsAreNotRepeated
<1>1. Init => IInv
  BY InvInit
<1>2. IInv /\ [Next]_vars => IInv'
  BY InvStep
<1>3. IInv => EffectsAreNotRepeated
  BY InvImplies
<1> QED BY <1>1, <1>2, <1>3, PTL DEF Spec

-----------------------------------------------------------------------------
(* No call outlives its step                                               *)

(* Only an attempt that gathered its children, or one that was timed, ends.*)
LEMMA EndsGathered ==
  ASSUME NoCallOutlivesItsStep, [Next]_vars PROVE NoCallOutlivesItsStep'
<1>1. UNCHANGED vars => NoCallOutlivesItsStep'
  BY DEF vars, NoCallOutlivesItsStep, Live, Kind
<1>2. CASE Settle
  <2>1. UNCHANGED <<step, kid>> /\ \A c \in Live : Settled(c)
    BY <1>2 DEF Settle, Gathered
  <2>2. Live' = Live
    BY <2>1 DEF Live, Kind
  <2> QED BY <2>1, <2>2 DEF NoCallOutlivesItsStep, Settled
<1>3. CASE NodeTimeout
  BY <1>3 DEF NodeTimeout, NoCallOutlivesItsStep
<1>4. CASE Begin \/ Crash \/ LoseKeys \/ WorldShifts
  BY <1>4 DEF Begin, Crash, LoseKeys, WorldShifts, NoCallOutlivesItsStep, Ended
<1>5. ASSUME NEW c \in Kids, Stage(c) \/ Receive(c) PROVE NoCallOutlivesItsStep'
  <2>1. pc' = "running"
    BY <1>5 DEF Stage, Receive, Guard, Owner, LoadAccount, OpenClient, Inputs, TargetPrice,
         ResolveMethod, Skip, CheckPrice, Resolve, Send, Answer, ChildAnswer, TurnPage, Respond,
         Plain, Quiet, At, Waiting
  <2> QED BY <2>1 DEF NoCallOutlivesItsStep, Ended
<1> QED BY <1>1, <1>2, <1>3, <1>4, <1>5 DEF Next, Over

(* However many children a batch has and whichever of them fails first: an *)
(* attempt that ends by itself leaves nobody in the middle of a paid call  *)
(* (batch_submit.py:199).                                                  *)
THEOREM EveryCallIsAwaited == Spec => []NoCallOutlivesItsStep
<1>1. Init => NoCallOutlivesItsStep
  BY DEF Init, NoCallOutlivesItsStep, Ended
<1> QED BY <1>1, EndsGathered, PTL DEF Spec

-----------------------------------------------------------------------------
(* Where a request goes                                                    *)

(* The address was checked in this very turn, and comes from an answer all *)
(* of which is clean.                                                      *)
Aimed == Kind = "request" =>
  /\ DOMAIN kid = Kids /\ DOMAIN kid[Self] = KidFields /\ kid[Self].at \in {1, 2}
  /\ pc = "running" /\ kid[Self].mode = "next" /\ kid[Self].at = 2 => ~Classify(target)

Resolver == DOMAIN market = {"price", "dns"} /\ market.dns \in Answers

AimInv == Aimed /\ Resolver /\ \A ip \in reached : ~Classify(ip)

LEMMA RequestStages ==
  ASSUME Kind = "request" PROVE Len(Program) = 2 /\ Program[1] = "resolve" /\ Program[2] = "send"
<1>1. Program = <<"resolve", "send">>
  BY DEF Program, Request
<1> HIDE DEF Program
<1> QED BY <1>1

LEMMA FirstIsClean ==
  ASSUME NEW a \in Answers, Cleared(a) PROVE ~Classify(Head(a))
<1>1. a \in Seq({a[i] : i \in DOMAIN a}) /\ a # <<>>
  BY AnswersAssumption DEF Cleared
<1>2. 1 \in DOMAIN a /\ Head(a) = a[1]
  BY <1>1
<1> QED BY <1>2 DEF Cleared

(* The world moves the resolver from one of its answers to another.        *)
LEMMA ResolverStays == ASSUME Resolver, [Next]_vars PROVE Resolver'
<1>1. UNCHANGED market \/ WorldShifts
  BY DEF Next, vars, Begin, Settle, NodeTimeout, Crash, LoseKeys, Over, Stage, Receive, Guard, Owner,
         LoadAccount, OpenClient, Inputs, TargetPrice, ResolveMethod, Skip, CheckPrice, Resolve, Send,
         Answer, ChildAnswer, TurnPage, Respond, Plain, Quiet
<1>2. CASE UNCHANGED market
  BY <1>2 DEF Resolver
<1>3. CASE WorldShifts
  BY <1>3 DEF WorldShifts, Resolver
<1> QED BY <1>1, <1>2, <1>3

(* The other nodes reach nothing by themselves: they hold a client.        *)
LEMMA OthersReachNothing ==
  ASSUME AimInv, Kind # "request", [Next]_vars PROVE AimInv'
<1>1. UNCHANGED <<step, reached>>
  BY ZenonT(60) DEF Next, vars, Begin, Settle, NodeTimeout, Crash, LoseKeys, WorldShifts, Over, Stage, Receive,
         Guard, Owner, LoadAccount, OpenClient, Inputs, TargetPrice, ResolveMethod, Skip, CheckPrice,
         Resolve, Send, Answer, ChildAnswer, TurnPage, Respond, Plain, Quiet
<1>2. Kind' # "request"
  BY <1>1 DEF Kind
<1> QED BY <1>1, <1>2, ResolverStays DEF AimInv, Aimed

(* A request is sent where its own turn resolved it to, and each turn      *)
(* resolves anew.                                                          *)
LEMMA RequestKeepsItsAim ==
  ASSUME AimInv, Kind = "request", [Next]_vars PROVE AimInv'
<1>1. /\ DOMAIN kid = Kids /\ Self \in Kids /\ DOMAIN kid[Self] = KidFields
      /\ kid[Self].at \in {1, 2}
      /\ pc = "running" /\ kid[Self].mode = "next" /\ kid[Self].at = 2 => ~Classify(target)
      /\ \A ip \in reached : ~Classify(ip)
  BY EffectNodesAssumption DEF AimInv, Aimed
<1>2. Live = {Self} /\ Program[1] = "resolve" /\ Program[2] = "send"
  BY RequestStages DEF Live
<1>3. Resolver /\ Resolver'
  BY ResolverStays DEF AimInv
<1>4. ASSUME UNCHANGED <<step, reached>>,
             DOMAIN kid' = Kids, DOMAIN kid'[Self] = KidFields, kid'[Self].at \in {1, 2},
             \/ pc' # "running" \/ kid'[Self].mode # "next" \/ kid'[Self].at = 1 \/ ~Classify(target')
      PROVE  AimInv'
  BY <1>1, <1>3, <1>4 DEF AimInv, Aimed
<1>5. UNCHANGED <<pc, kid, target, reached, step>> => AimInv'
  BY <1>1, <1>4
<1>6. ASSUME Begin PROVE AimInv'
  <2>1. UNCHANGED <<step, reached>> /\ kid' = Fresh
    BY <1>6 DEF Begin
  <2>2. DOMAIN kid' = Kids /\ DOMAIN kid'[Self] = KidFields /\ kid'[Self].at = 1
    BY <1>1, <2>1 DEF Fresh, KidFields
  <2> QED BY <1>4, <2>1, <2>2
<1>7. ASSUME Settle \/ Crash PROVE AimInv'
  <2>1. UNCHANGED <<step, reached, kid>> /\ pc' # "running"
    BY <1>7 DEF Settle, Crash
  <2> QED BY <1>1, <1>4, <2>1
<1>8. ASSUME NodeTimeout PROVE AimInv'
  <2>1. /\ UNCHANGED <<step, reached>> /\ pc' # "running"
        /\ kid' = [c \in Kids |-> IF Settled(c) THEN kid[c] ELSE [kid[c] EXCEPT !.mode = "cut"]]
    BY <1>8 DEF NodeTimeout
  <2>2. DOMAIN kid' = Kids /\ DOMAIN kid'[Self] = KidFields /\ kid'[Self].at \in {1, 2}
    BY <1>1, <2>1 DEF KidFields
  <2> QED BY <1>4, <2>1, <2>2
<1>9. ASSUME LoseKeys \/ WorldShifts PROVE AimInv'
  BY <1>5, <1>9 DEF LoseKeys, WorldShifts
<1>10. ASSUME NEW c \in Kids, Stage(c) PROVE AimInv'
  <2>1. c = Self /\ pc = "running" /\ kid[c].mode = "next"
        /\ \E stage : Program[kid[c].at] = stage
    BY <1>2, <1>10 DEF Stage, At, Guard, Owner, LoadAccount, OpenClient, Inputs, TargetPrice,
       ResolveMethod, Skip, CheckPrice, Resolve, Send
  <2>2. (kid[Self].at = 1 /\ Resolve(Self)) \/ (kid[Self].at = 2 /\ Send(Self))
    BY <1>1, <1>2, <1>10, <2>1 DEF Stage, At, Guard, Owner, LoadAccount, OpenClient, Inputs,
       TargetPrice, ResolveMethod, Skip, CheckPrice, Resolve, Send
  <2>3. CASE kid[Self].at = 1 /\ Resolve(Self) /\ Cleared(market.dns) /\ Advance(Self)
             /\ target' = Head(market.dns)
    <3>1. UNCHANGED <<step, reached>>
      BY <2>3 DEF Resolve, Quiet
    <3>2. DOMAIN kid' = Kids /\ DOMAIN kid'[Self] = KidFields /\ kid'[Self].at = 2
      BY <1>1, <2>3 DEF Advance, KidFields
    <3>3. ~Classify(target')
      BY <1>3, <2>3, FirstIsClean DEF Resolver
    <3> QED BY <1>4, <3>1, <3>2, <3>3
  <2>4. CASE kid[Self].at = 1 /\ Resolve(Self) /\ Raise(Self, "egress_blocked")
    <3>1. UNCHANGED <<step, reached>>
      BY <2>4 DEF Resolve, Quiet
    <3>2. DOMAIN kid' = Kids /\ DOMAIN kid'[Self] = KidFields /\ kid'[Self].at = 1
      BY <1>1, <2>4 DEF Raise, KidFields
    <3> QED BY <1>4, <3>1, <3>2
  <2>5. CASE kid[Self].at = 2 /\ Send(Self)
    <3>1. step' = step /\ ~Classify(target) /\ Sealed \in BOOLEAN
      BY <1>1, <2>1, <2>5 DEF Send, Sealed
    <3>2. reached' \subseteq reached \cup {target}
      BY <2>5 DEF Send, Connect
    <3>3. /\ DOMAIN kid' = Kids /\ DOMAIN kid'[Self] = KidFields /\ kid'[Self].at = 2
          /\ kid'[Self].mode # "next"
      BY <1>1, <2>5 DEF Send, Raise, Return, KidFields
    <3> QED BY <1>1, <1>3, <3>1, <3>2, <3>3 DEF AimInv, Aimed
  <2> QED BY <2>2, <2>3, <2>4, <2>5 DEF Resolve
<1>11. ASSUME NEW c \in Kids, Receive(c) PROVE AimInv'
  <2>1. UNCHANGED <<step, reached>> /\ Respond(c)
    BY <1>11 DEF Receive, Respond, Answer, ChildAnswer, TurnPage, Plain, Quiet
  <2>2. \/ kid' = [kid EXCEPT ![c].mode = "next", ![c].at = 1, ![c].turn = @ + 1]
        \/ \E why : Raise(c, why)
        \/ \E what : Return(c, what)
    BY <2>1 DEF Respond
  <2>3. UNCHANGED target
    BY <2>1 DEF Respond, Plain
  <2>4. CASE c # Self
    <3>1. DOMAIN kid' = Kids /\ kid'[Self] = kid[Self]
      BY <1>1, <2>2, <2>4 DEF Raise, Return
    <3>2. UNCHANGED pc
      BY <2>1 DEF Respond, Plain, Quiet
    <3> QED BY <1>1, <1>4, <2>1, <2>3, <3>1, <3>2
  <2>5. CASE c = Self
    <3>1. /\ DOMAIN kid' = Kids /\ DOMAIN kid'[Self] = KidFields
          /\ kid'[Self].at = 1 \/ (kid'[Self].at = kid[Self].at /\ kid'[Self].mode # "next")
      BY <1>1, <2>2, <2>5 DEF Raise, Return, KidFields
    <3> QED BY <1>1, <1>4, <2>1, <3>1
  <2> QED BY <2>4, <2>5
<1> QED BY <1>5, <1>6, <1>7, <1>8, <1>9, <1>10, <1>11 DEF Next, Over, vars

LEMMA AimInit == ASSUME Init PROVE AimInv
<1>1. kid = Fresh /\ reached = {} /\ market = [price |-> 1, dns |-> CHOOSE a \in Answers : Cleared(a)]
  BY DEF Init
<1>2. Resolver
  BY <1>1, AnswersAssumption DEF Resolver
<1>3. Aimed
  BY <1>1, EffectNodesAssumption DEF Aimed, Fresh, KidFields
<1> QED BY <1>1, <1>2, <1>3 DEF AimInv

(* Whatever the resolver answers and however often it changes its mind, a  *)
(* request goes to public addresses only (policy.py:24, http.py): the      *)
(* address connected to is the one its own turn checked.                   *)
THEOREM OnlyPublicIsReached == Spec => []InwardIsNeverReached
<1>1. Init => AimInv
  BY AimInit
<1>2. AimInv /\ [Next]_vars => AimInv'
  BY OthersReachNothing, RequestKeepsItsAim
<1>3. AimInv => InwardIsNeverReached
  BY DEF AimInv, InwardIsNeverReached, Classify, Unwrap
<1> QED BY <1>1, <1>2, <1>3, PTL DEF Spec
=============================================================================
