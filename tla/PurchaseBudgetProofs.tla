------------------------ MODULE PurchaseBudgetProofs ------------------------
(***************************************************************************)
(* Theorems about PurchaseBudget for any number of branches, lots, crashes *)
(* and any budget, with a fork and without: its types, that the ledger is  *)
(* honest, when a lot can be paid for again, and that the budget is        *)
(* overrun by one lot at most for every chain but one.                     *)
(***************************************************************************)
EXTENDS PurchaseBudget, FiniteSetTheorems, TLAPS

Labels == {"enter", "gate", "guard", "buy", "record", "commit", "rest"}

(* A branch between the claim of its step and the commit of it.            *)
Inside(b) == due[b] \in {"gate", "guard", "buy", "record", "commit"}

(* A branch inside a step has claimed it, and is at a lot of its list.     *)
Claimed ==
  \A b \in Branches : Inside(b) => at[b] \in 1..NLots /\ row[KeyOf(b)] = "running"

(* Steps are claimed by chains that have walked, and once the run's own    *)
(* chain is among the lots, by that one alone.                             *)
Walked ==
  /\ \A k \in Keys : row[k] # "none" => <<k[1][1], k[2]>> \in Chains
  /\ \A b \in Branches : top # {} /\ b \notin top => due[b] = "rest"

(* What the ledger and the branches that are about to write to it know.    *)
Honest ==
  /\ \A k \in ledger : price[k] > 0
  /\ \A j, k \in ledger : j[1] = k[1] => j = k
  /\ \A k \in Keys : row[k] = "bought" => \E j \in ledger : j[1] = k[1]
  /\ \A b \in Branches : due[b] = "record" => price[KeyOf(b)] > 0
  /\ \A b \in Branches : due[b] = "commit" /\ out[b] = "bought" => \E j \in ledger : j[1] = <<b, at[b]>>

(* Money that left stands behind a claimed step; a branch that may still   *)
(* buy is the first to have claimed its step.                              *)
Unpaid ==
  /\ \A k \in Keys : price[k] > 0 => row[k] # "none"
  /\ \A b \in Branches : due[b] \in {"gate", "guard"} /\ b \notin again => price[KeyOf(b)] = 0
  /\ \A b \in Branches : due[b] = "buy" => price[KeyOf(b)] = 0

IInv == BudgetTypeOK /\ Claimed /\ Walked /\ Honest /\ Unpaid

-----------------------------------------------------------------------------
(* The initial state satisfies the invariant: nothing is claimed or paid.  *)
LEMMA InvInit == BudgetInit => IInv
<1> SUFFICES ASSUME BudgetInit PROVE IInv
  OBVIOUS
<1> USE BudgetAssumption DEF BudgetAssumption, BudgetInit
<1>1. /\ at \in [Branches -> 1..(NLots + 1)] /\ price \in [Keys -> 0..MaxPrice] /\ crashes \in 0..MaxCrashes
  OBVIOUS
<1>2. /\ due \in [Branches -> Labels] /\ out \in [Branches -> Results]
      /\ row \in [Keys -> Results \cup {"none", "running"}]
  BY DEF Labels, Results
<1>3. top \subseteq Branches /\ (\A b, c \in top : b = c) /\ (~Forked => top = Branches)
  OBVIOUS
<1>4. BudgetTypeOK
  BY <1>1, <1>2, <1>3 DEF BudgetTypeOK, Labels
<1>5. (\A b \in Branches : due[b] = "enter") /\ \A k \in Keys : price[k] = 0 /\ row[k] = "none"
  OBVIOUS
<1>6. top # {} => top = Branches
  OBVIOUS
<1>7. Claimed /\ Walked /\ Honest /\ Unpaid
  BY <1>5, <1>6 DEF Claimed, Walked, Inside, Honest, Unpaid
<1> QED BY <1>4, <1>7 DEF IInv

(* The key of a claimed step is a key.                                     *)
LEMMA KeyIsAKey ==
  ASSUME NEW b \in Branches, at[b] \in 1..NLots
  PROVE  KeyOf(b) \in Keys /\ KeyOf(b) = <<<<b, at[b]>>, FrameOf(b)>> /\ FrameOf(b) \in Frames
  BY DEF KeyOf, FrameOf, Frames, Lots, Keys

(* Two branches are never at one key.                                      *)
LEMMA KeysDiffer ==
  ASSUME NEW b \in Branches, NEW c \in Branches, b # c PROVE KeyOf(b) # KeyOf(c)
  BY DEF KeyOf

(* A branch that still walks is on the run's own chain if any is.          *)
LEMMA OneWalks ==
  ASSUME IInv, NEW b \in Branches, due[b] # "rest" PROVE top \subseteq {b}
  BY DEF IInv, Walked, BudgetTypeOK

-----------------------------------------------------------------------------
(* A failure brings every branch to rest, and the run's own chain to the   *)
(* node that failed.                                                       *)
LEMMA FailKeeps ==
  ASSUME IInv, NEW b \in Branches, due[b] # "rest", Fail(b), guards' \subseteq Keys,
         price' \in [Keys -> 0..MaxPrice],
         \A k \in Keys : price'[k] # price[k] => price'[k] > 0 /\ row[k] # "none",
         UNCHANGED <<row, ledger, crashes>>
  PROVE  IInv'
<1>1. top \subseteq {b} /\ top' = {b}
  BY OneWalks DEF Fail
<1>2. BudgetTypeOK'
  <2>1. ~Forked => top' = Branches
    BY <1>1, BudgetAssumption DEF BudgetAssumption
  <2>2. due' \in [Branches -> {"enter", "gate", "guard", "buy", "record", "commit", "rest"}]
    BY DEF Fail
  <2> QED BY <1>1, <2>1, <2>2 DEF IInv, BudgetTypeOK, Fail
<1>3. \A c \in Branches : due'[c] = "rest"
  BY DEF Fail
<1>4. Claimed'
  BY <1>3 DEF Claimed, Inside
<1>5. Walked'
  <2>1. Chains \subseteq Chains'
    BY <1>1 DEF Chains
  <2> QED BY <1>3, <2>1 DEF IInv, Walked
<1>6. \A k \in Keys : price[k] > 0 => price'[k] > 0
  OBVIOUS
<1>7. Honest'
  BY <1>3, <1>6 DEF IInv, Honest, BudgetTypeOK
<1>8. \A k \in Keys : price'[k] > 0 => row[k] # "none"
  BY DEF IInv, Unpaid
<1>9. Unpaid'
  BY <1>3, <1>8 DEF Unpaid
<1> QED BY <1>2, <1>4, <1>5, <1>7, <1>9 DEF IInv

(* Moving on from a result leaves the steps and the money alone.           *)
LEMMA MovesOn ==
  ASSUME IInv, NEW b \in Branches, NEW r \in Results, MoveOn(b, r), at[b] \in 1..NLots
  PROVE  /\ at' \in [Branches -> 1..(NLots + 1)] /\ asked' \in BOOLEAN
         /\ due' \in [Branches -> Labels] /\ due'[b] \in {"enter", "rest"}
         /\ \A c \in Branches \ {b} : at'[c] = at[c] /\ due'[c] = due[c]
<1>1. /\ at' = at \/ at' = [at EXCEPT ![b] = @ + 1]
      /\ asked' = asked \/ asked' = TRUE
      /\ due' = [due EXCEPT ![b] = "enter"] \/ due' = [due EXCEPT ![b] = "rest"]
  BY DEF MoveOn, Goto
<1>2. at[b] + 1 \in 1..(NLots + 1)
  BY BudgetAssumption
<1>3. at' \in [Branches -> 1..(NLots + 1)]
  BY <1>1, <1>2 DEF IInv, BudgetTypeOK
<1> QED BY <1>1, <1>3 DEF IInv, BudgetTypeOK, Labels

(* Entering a step claims it, as the first or again.                       *)
LEMMA EnterKeeps ==
  ASSUME IInv, NEW b \in Branches, Enter(b) PROVE IInv'
<1> USE BudgetAssumption
<1> DEFINE k == KeyOf(b)
<1>0. due[b] = "enter" /\ status = "running" /\ at[b] \in 1..(NLots + 1)
  BY DEF Enter, Due, IInv, BudgetTypeOK
<1>1. CASE at[b] > NLots /\ Forked /\ b \in top
  <2>1. Fail(b) /\ UNCHANGED <<row, guards, price, ledger, crashes>>
    BY <1>1 DEF Enter
  <2> QED BY <1>0, <2>1, FailKeeps DEF IInv, BudgetTypeOK
<1>2. CASE ~(at[b] > NLots /\ Forked /\ b \in top) /\ (at[b] > NLots \/ asked)
  <2>1. due' = [due EXCEPT ![b] = "rest"] /\ UNCHANGED <<status, top, at, out, row, guards, price, ledger, again, asked, crashes>>
    BY <1>2 DEF Enter, Goto
  <2>2. \A c \in Branches : KeyOf(c)' = KeyOf(c) /\ (due'[c] = due[c] \/ due'[c] = "rest")
    BY <2>1 DEF KeyOf, FrameOf, IInv, BudgetTypeOK
  <2>3. BudgetTypeOK'
    BY <2>1 DEF IInv, BudgetTypeOK
  <2>4. Claimed' /\ Walked'
    BY <2>1, <2>2 DEF IInv, Claimed, Inside, Walked, Chains
  <2>5. Honest' /\ Unpaid'
    BY ZenonT(60), <2>1, <2>2 DEF IInv, Honest, Unpaid
  <2> QED BY <2>3, <2>4, <2>5 DEF IInv
<1>3. CASE ~(at[b] > NLots \/ asked)
  <2>0. at[b] \in 1..NLots /\ k \in Keys /\ k = <<<<b, at[b]>>, FrameOf(b)>>
    BY <1>0, <1>3, KeyIsAKey
  <2>1. CASE row[k] \in Results
    <3>1. MoveOn(b, row[k]) /\ UNCHANGED <<status, top, out, row, guards, price, ledger, again, crashes>>
      BY <1>3, <2>1 DEF Enter
    <3>2. /\ at' \in [Branches -> 1..(NLots + 1)] /\ asked' \in BOOLEAN
          /\ due' \in [Branches -> Labels] /\ due'[b] \in {"enter", "rest"}
          /\ \A c \in Branches \ {b} : at'[c] = at[c] /\ due'[c] = due[c]
      BY <2>0, <2>1, <3>1, MovesOn
    <3>3. BudgetTypeOK'
      BY <3>1, <3>2 DEF IInv, BudgetTypeOK, Labels
    <3>4. \A c \in Branches \ {b} : KeyOf(c)' = KeyOf(c)
      BY <3>1, <3>2 DEF KeyOf, FrameOf
    <3>5. Claimed'
      BY <3>1, <3>2, <3>4 DEF IInv, Claimed, Inside
    <3>6. Walked'
      <4>1. top # {} => b \in top
        BY <1>0 DEF IInv, Walked
      <4> QED BY <3>1, <3>2, <4>1 DEF IInv, Walked, Chains
    <3>7. Honest'
      <4>1. \A c \in Branches : due'[c] = "record" => price'[KeyOf(c)'] > 0
        BY <3>1, <3>2, <3>4 DEF IInv, Honest
      <4>2. \A c \in Branches : due'[c] = "commit" /\ out'[c] = "bought" => \E j \in ledger' : j[1] = <<c, at'[c]>>
        <5> SUFFICES ASSUME NEW c \in Branches, due'[c] = "commit", out'[c] = "bought"
                     PROVE  \E j \in ledger : j[1] = <<c, at'[c]>>
          BY <3>1
        <5>1. c # b /\ due[c] = "commit" /\ out[c] = "bought" /\ at'[c] = at[c]
          BY <3>1, <3>2
        <5> QED BY <5>1 DEF IInv, Honest
      <4> QED BY <3>1, <4>1, <4>2 DEF IInv, Honest
    <3>8. Unpaid'
      BY <3>1, <3>2, <3>4 DEF IInv, Unpaid
    <3> QED BY <3>3, <3>5, <3>6, <3>7, <3>8 DEF IInv
  <2>2. CASE row[k] \notin Results
    <3>1. /\ row' = [row EXCEPT ![k] = "running"] /\ due' = [due EXCEPT ![b] = "gate"]
          /\ again' = IF row[k] = "running" THEN again \cup {b} ELSE again \ {b}
          /\ UNCHANGED <<status, top, at, out, guards, price, ledger, asked, crashes>>
      BY <1>3, <2>2 DEF Enter, Goto
    <3>2. BudgetTypeOK'
      BY <3>1 DEF IInv, BudgetTypeOK
    <3>3. \A c \in Branches : KeyOf(c)' = KeyOf(c)
      BY <3>1 DEF KeyOf, FrameOf
    <3>4. \A c \in Branches \ {b} : /\ due'[c] = due[c] /\ KeyOf(c) # k
                                    /\ row'[KeyOf(c)] = row[KeyOf(c)] /\ (c \in again' <=> c \in again)
      BY <3>1, KeysDiffer DEF IInv, BudgetTypeOK
    <3>5. due'[b] = "gate" /\ row'[k] = "running" /\ \A j \in Keys \ {k} : row'[j] = row[j]
      BY <2>0, <3>1 DEF IInv, BudgetTypeOK
    <3>6. Claimed'
      BY <2>0, <3>1, <3>3, <3>4, <3>5 DEF IInv, Claimed, Inside
    <3>7. Walked'
      <4>1. top # {} => b \in top
        BY <1>0 DEF IInv, Walked
      <4>2. <<b, FrameOf(b)>> \in Chains
        BY DEF FrameOf, Chains, IInv, BudgetTypeOK
      <4>3. \A j \in Keys : row'[j] # "none" => <<j[1][1], j[2]>> \in Chains
        BY <2>0, <3>5, <4>2 DEF IInv, Walked
      <4> QED BY <3>1, <3>4, <4>1, <4>3 DEF IInv, Walked, Chains
    <3>8. Honest'
      <4>1. \A j \in Keys : row'[j] = "bought" => row[j] = "bought"
        BY <3>5
      <4>2. \A c \in Branches : due'[c] = "record" => price'[KeyOf(c)'] > 0
        BY <3>1, <3>3, <3>4, <3>5 DEF IInv, Honest
      <4>3. \A c \in Branches : due'[c] = "commit" => c # b /\ due[c] = "commit"
        BY <3>4, <3>5
      <4> QED BY <3>1, <4>1, <4>2, <4>3 DEF IInv, Honest
    <3>9. b \notin again' => price[k] = 0
      <4>1. b \notin again' => row[k] = "none"
        BY <2>0, <2>2, <3>1 DEF IInv, BudgetTypeOK
      <4> QED BY <2>0, <4>1 DEF IInv, Unpaid, BudgetTypeOK
    <3>10. Unpaid'
      BY <2>0, <3>1, <3>3, <3>4, <3>5, <3>9 DEF IInv, Unpaid, BudgetTypeOK
    <3> QED BY <3>2, <3>6, <3>7, <3>8, <3>10 DEF IInv
  <2> QED BY <2>1, <2>2
<1> QED BY <1>1, <1>2, <1>3

(* A step whose lot is not named fails.                                    *)
LEMMA UnresolvedKeeps ==
  ASSUME IInv, NEW b \in Branches, Unresolved(b) PROVE IInv'
<1>1. due[b] # "rest" /\ Fail(b) /\ UNCHANGED <<row, guards, price, ledger, crashes>>
  BY DEF Unresolved, Due
<1> QED BY <1>1, FailKeeps DEF IInv, BudgetTypeOK

(* The gate moves one branch on and reads nothing it writes.               *)
LEMMA GateKeeps ==
  ASSUME IInv, NEW b \in Branches, Gate(b) PROVE IInv'
<1>1. /\ due[b] = "gate" /\ UNCHANGED <<status, top, at, row, guards, price, ledger, again, asked, crashes>>
      /\ \/ due' = [due EXCEPT ![b] = "guard"] /\ out' = out
         \/ due' = [due EXCEPT ![b] = "commit"] /\ out' = [out EXCEPT ![b] = "exhausted"]
  BY DEF Gate, Due, Goto, Report
<1>2. BudgetTypeOK'
  BY <1>1 DEF IInv, BudgetTypeOK, Results, Halting
<1>3. \A c \in Branches : KeyOf(c)' = KeyOf(c)
  BY <1>1 DEF KeyOf, FrameOf
<1>4. \A c \in Branches \ {b} : due'[c] = due[c] /\ out'[c] = out[c]
  BY <1>1 DEF IInv, BudgetTypeOK
<1>5. due'[b] = "guard" \/ (due'[b] = "commit" /\ out'[b] = "exhausted")
  BY <1>1 DEF IInv, BudgetTypeOK
<1>6. Claimed' /\ Walked'
  BY <1>1, <1>3, <1>4, <1>5 DEF IInv, Claimed, Inside, Walked, Chains
<1>7. Honest' /\ Unpaid'
  BY SMTT(20), <1>1, <1>3, <1>4, <1>5 DEF IInv, Honest, Unpaid
<1> QED BY <1>2, <1>6, <1>7 DEF IInv

(* The guard lets a branch through only on its first claim.                *)
LEMMA CheckAndSetKeeps ==
  ASSUME IInv, NEW b \in Branches, CheckAndSet(b) PROVE IInv'
<1> DEFINE k == KeyOf(b)
<1>0. due[b] = "guard" /\ k \in Keys
  BY KeyIsAKey DEF CheckAndSet, Due, IInv, Claimed, Inside
<1>1. guards' \subseteq Keys
  BY <1>0 DEF CheckAndSet, IInv, BudgetTypeOK
<1>2. CASE k \in guards \/ b \in again
  <2>1. Fail(b) /\ UNCHANGED <<row, price, ledger, crashes>>
    BY <1>2 DEF CheckAndSet
  <2> QED BY <1>0, <1>1, <2>1, FailKeeps DEF IInv, BudgetTypeOK
<1>3. CASE ~(k \in guards \/ b \in again)
  <2>1. /\ due' = [due EXCEPT ![b] = "buy"]
        /\ UNCHANGED <<status, top, at, out, row, price, ledger, again, asked, crashes>>
    BY <1>3 DEF CheckAndSet, Goto
  <2>2. BudgetTypeOK'
    BY <1>1, <2>1 DEF IInv, BudgetTypeOK
  <2>3. \A c \in Branches : KeyOf(c)' = KeyOf(c)
    BY <2>1 DEF KeyOf, FrameOf
  <2>4. \A c \in Branches \ {b} : due'[c] = due[c]
    BY <2>1 DEF IInv, BudgetTypeOK
  <2>5. due'[b] = "buy" /\ price[k] = 0
    BY <1>0, <1>3, <2>1 DEF IInv, BudgetTypeOK, Unpaid
  <2>6. Claimed' /\ Walked'
    BY <1>0, <2>1, <2>3, <2>4, <2>5 DEF IInv, Claimed, Inside, Walked, Chains
  <2>7. Honest' /\ Unpaid'
    BY ZenonT(60), <1>0, <2>1, <2>3, <2>4, <2>5 DEF IInv, Honest, Unpaid
  <2> QED BY <2>2, <2>6, <2>7 DEF IInv
<1> QED BY <1>2, <1>3

(* A purchase is under a claimed key that nobody paid under.               *)
LEMMA BuyKeeps ==
  ASSUME IInv, NEW b \in Branches, Buy(b) PROVE IInv'
<1> DEFINE k == KeyOf(b)
<1>0. due[b] = "buy" /\ k \in Keys /\ row[k] = "running" /\ UNCHANGED <<row, guards, ledger, crashes>>
  BY KeyIsAKey DEF Buy, Due, IInv, Claimed, Inside
<1>1. ASSUME NEW p \in 1..MaxPrice, price' = [price EXCEPT ![k] = p]
      PROVE  /\ price' \in [Keys -> 0..MaxPrice]
             /\ \A j \in Keys : price'[j] # price[j] => price'[j] > 0 /\ row[j] # "none"
             /\ price'[k] > 0 /\ \A j \in Keys \ {k} : price'[j] = price[j]
  BY <1>0, <1>1, BudgetAssumption DEF BudgetAssumption, IInv, BudgetTypeOK
<1>2. ASSUME NEW p \in 1..MaxPrice, price' = [price EXCEPT ![k] = p],
             Goto(b, "record"), UNCHANGED <<status, top, at, out, again, asked>>
      PROVE  IInv'
  <2>1. due' = [due EXCEPT ![b] = "record"]
    BY <1>2 DEF Goto
  <2>2. BudgetTypeOK'
    BY <1>0, <1>1, <1>2, <2>1 DEF IInv, BudgetTypeOK
  <2>3. \A c \in Branches : KeyOf(c)' = KeyOf(c)
    BY <1>2 DEF KeyOf, FrameOf
  <2>4. due'[b] = "record" /\ \A c \in Branches \ {b} : due'[c] = due[c] /\ KeyOf(c) # k
    BY <2>1, KeysDiffer DEF IInv, BudgetTypeOK
  <2>5. Claimed' /\ Walked'
    BY <1>0, <1>2, <2>3, <2>4 DEF IInv, Claimed, Inside, Walked, Chains
  <2>6. \A c \in Branches \ {b} : Inside(c) => KeyOf(c) \in Keys \ {k}
    BY <2>4, KeyIsAKey DEF IInv, Claimed
  <2>7. Honest'
    <3>1. \A c \in Branches : due'[c] = "record" => price'[KeyOf(c)'] > 0
      <4>1. \A c \in Branches \ {b} : due'[c] = "record" => price'[KeyOf(c)] = price[KeyOf(c)] /\ price[KeyOf(c)] > 0
        BY <1>1, <1>2, <2>4, <2>6 DEF IInv, Honest, Inside
      <4>2. price'[k] > 0
        BY <1>1, <1>2
      <4> QED BY <2>3, <4>1, <4>2
    <3>2. \A j \in ledger' : price'[j] > 0
      BY <1>0, <1>1, <1>2 DEF IInv, Honest, BudgetTypeOK
    <3>3. \A c \in Branches : due'[c] = "commit" => due[c] = "commit"
      BY <2>4
    <3> QED BY <1>0, <1>2, <3>1, <3>2, <3>3 DEF IInv, Honest
  <2>8. Unpaid'
    BY <1>0, <1>1, <1>2, <2>3, <2>4, <2>6 DEF IInv, Unpaid, Inside
  <2> QED BY <2>2, <2>5, <2>7, <2>8 DEF IInv
<1>3. ASSUME NEW p \in 1..MaxPrice, price' = [price EXCEPT ![k] = p], Fail(b) PROVE IInv'
  BY <1>0, <1>1, <1>3, FailKeeps DEF IInv, BudgetTypeOK
<1>4. CASE Report(b, "refused") /\ UNCHANGED <<status, top, at, price, again, asked>>
  <2>1. /\ due' = [due EXCEPT ![b] = "commit"] /\ out' = [out EXCEPT ![b] = "refused"]
        /\ UNCHANGED <<status, top, at, row, guards, price, ledger, again, asked, crashes>>
    BY <1>4 DEF Buy, Report, Goto
  <2>2. BudgetTypeOK'
    BY <2>1 DEF IInv, BudgetTypeOK, Results
  <2>3. \A c \in Branches : KeyOf(c)' = KeyOf(c)
    BY <2>1 DEF KeyOf, FrameOf
  <2>4. \A c \in Branches \ {b} : due'[c] = due[c] /\ out'[c] = out[c]
    BY <2>1 DEF IInv, BudgetTypeOK
  <2>5. due'[b] = "commit" /\ out'[b] = "refused"
    BY <2>1 DEF IInv, BudgetTypeOK
  <2>6. Claimed' /\ Walked'
    BY <1>0, <2>1, <2>3, <2>4, <2>5 DEF IInv, Claimed, Inside, Walked, Chains
  <2>7. Honest' /\ Unpaid'
    BY ZenonT(60), <1>0, <2>1, <2>3, <2>4, <2>5 DEF IInv, Honest, Unpaid
  <2> QED BY <2>2, <2>6, <2>7 DEF IInv
<1>5. CASE Fail(b) /\ UNCHANGED price
  BY <1>0, <1>5, FailKeeps DEF IInv, BudgetTypeOK
<1> QED BY <1>2, <1>3, <1>4, <1>5 DEF Buy

(* The ledger only learns of lots that were paid for, and of each once.    *)
LEMMA RecordKeeps ==
  ASSUME IInv, NEW b \in Branches, Record(b) PROVE IInv'
<1> DEFINE k == KeyOf(b)
<1>0. due[b] = "record" /\ k \in Keys /\ row[k] = "running" /\ price[k] > 0 /\ k[1] = <<b, at[b]>>
  BY KeyIsAKey DEF Record, Due, IInv, Claimed, Inside, Honest
<1>1. /\ due' = [due EXCEPT ![b] = "commit"]
      /\ \/ out' = [out EXCEPT ![b] = "bought"] /\ \E j \in ledger' : j[1] = k[1]
         \/ out' = [out EXCEPT ![b] = "blind"]
      /\ ledger' = ledger \/ (ledger' = ledger \cup {k} /\ \A j \in ledger : j[1] # k[1])
      /\ UNCHANGED <<status, top, at, row, guards, price, again, asked, crashes>>
  <2>1. CASE Recorded(k[1])
    BY <2>1 DEF Record, Recorded, Report, Goto
  <2>2. CASE ~Recorded(k[1])
    BY <2>2 DEF Record, Recorded, Report, Goto
  <2> QED BY <2>1, <2>2
<1>2. BudgetTypeOK'
  BY <1>0, <1>1 DEF IInv, BudgetTypeOK, Results, Halting
<1>3. \A c \in Branches : KeyOf(c)' = KeyOf(c)
  BY <1>1 DEF KeyOf, FrameOf
<1>4. \A c \in Branches \ {b} : due'[c] = due[c] /\ out'[c] = out[c]
  BY <1>1 DEF IInv, BudgetTypeOK
<1>5. due'[b] = "commit" /\ (out'[b] = "bought" => \E j \in ledger' : j[1] = <<b, at[b]>>)
  BY <1>0, <1>1 DEF IInv, BudgetTypeOK
<1>6. /\ ledger \subseteq ledger'
      /\ \A j \in ledger' : price[j] > 0
      /\ \A i, j \in ledger' : i[1] = j[1] => i = j
  BY <1>0, <1>1 DEF IInv, Honest
<1>7. Claimed' /\ Walked'
  BY <1>0, <1>1, <1>3, <1>4, <1>5 DEF IInv, Claimed, Inside, Walked, Chains
<1>8. Unpaid'
  BY <1>0, <1>1, <1>3, <1>4, <1>5 DEF IInv, Unpaid
<1>9. Honest'
  <2>1. \A c \in Branches : due'[c] = "commit" /\ out'[c] = "bought" => \E j \in ledger' : j[1] = <<c, at'[c]>>
    BY <1>1, <1>4, <1>5, <1>6 DEF IInv, Honest
  <2>2. \A c \in Branches : due'[c] = "record" => price'[KeyOf(c)'] > 0
    BY <1>1, <1>3, <1>4, <1>5 DEF IInv, Honest
  <2>3. \A i \in Keys : row'[i] = "bought" => \E j \in ledger' : j[1] = i[1]
    BY <1>1, <1>6 DEF IInv, Honest
  <2> QED BY <1>1, <1>6, <2>1, <2>2, <2>3 DEF Honest
<1> QED BY <1>2, <1>7, <1>8, <1>9 DEF IInv

(* A commit tells the operator what happened to the lot.                   *)
LEMMA CommitKeeps ==
  ASSUME IInv, NEW b \in Branches, Commit(b) PROVE IInv'
<1> DEFINE k == KeyOf(b)
<1>0. /\ due[b] = "commit" /\ at[b] \in 1..NLots /\ k \in Keys /\ k[1] = <<b, at[b]>>
      /\ row[k] = "running" /\ out[b] \in Results
  BY KeyIsAKey DEF Commit, Due, IInv, Claimed, Inside, BudgetTypeOK
<1>1. /\ row' = [row EXCEPT ![k] = out[b]] /\ MoveOn(b, out[b])
      /\ UNCHANGED <<status, top, out, guards, price, ledger, again, crashes>>
  BY DEF Commit
<1>2. /\ at' \in [Branches -> 1..(NLots + 1)] /\ asked' \in BOOLEAN
      /\ due' \in [Branches -> Labels] /\ due'[b] \in {"enter", "rest"}
      /\ \A c \in Branches \ {b} : at'[c] = at[c] /\ due'[c] = due[c]
  BY <1>0, <1>1, MovesOn
<1>3. BudgetTypeOK'
  BY <1>0, <1>1, <1>2 DEF IInv, BudgetTypeOK, Labels
<1>4. \A c \in Branches \ {b} : KeyOf(c)' = KeyOf(c) /\ KeyOf(c) # k
  BY <1>1, <1>2, KeysDiffer DEF KeyOf, FrameOf
<1>5. row'[k] = out[b] /\ \A j \in Keys \ {k} : row'[j] = row[j]
  BY <1>0, <1>1 DEF IInv, BudgetTypeOK
<1>6. \A c \in Branches \ {b} : Inside(c) => KeyOf(c) \in Keys \ {k}
  BY <1>4, KeyIsAKey DEF IInv, Claimed
<1>7. Claimed'
  BY <1>1, <1>2, <1>4, <1>5, <1>6 DEF IInv, Claimed, Inside
<1>8. Walked'
  <2>1. top # {} => b \in top
    BY <1>0 DEF IInv, Walked
  <2>2. \A j \in Keys : row'[j] # "none" => row[j] # "none"
    BY <1>0, <1>5
  <2> QED BY <1>1, <1>2, <2>1, <2>2 DEF IInv, Walked, Chains
<1>9. Honest'
  <2>1. \A i \in Keys : row'[i] = "bought" => \E j \in ledger : j[1] = i[1]
    BY <1>0, <1>5 DEF IInv, Honest
  <2>2. \A c \in Branches : due'[c] = "record" => price'[KeyOf(c)'] > 0
    BY <1>1, <1>2, <1>4 DEF IInv, Honest
  <2>3. \A c \in Branches : due'[c] = "commit" /\ out'[c] = "bought" => \E j \in ledger' : j[1] = <<c, at'[c]>>
    BY <1>1, <1>2 DEF IInv, Honest
  <2> QED BY <1>1, <2>1, <2>2, <2>3 DEF IInv, Honest
<1>10. Unpaid'
  BY <1>0, <1>1, <1>2, <1>4, <1>5 DEF IInv, Unpaid, Results, Halting
<1> QED BY <1>3, <1>7, <1>8, <1>9, <1>10 DEF IInv

(* A new execution starts outside any step.                                *)
LEMMA ResumeKeeps == ASSUME IInv, Resume PROVE IInv'
<1>1. /\ crashes' = crashes + 1 /\ crashes < MaxCrashes /\ status' = "running"
      /\ UNCHANGED <<top, out, row, guards, price, ledger>> /\ again' = {} /\ asked' = FALSE
  BY DEF Resume
<1>2. at' \in [Branches -> 1..(NLots + 1)]
  BY BudgetAssumption DEF BudgetAssumption, Resume, IInv, BudgetTypeOK
<1>3. due' \in [Branches -> {"enter", "gate", "guard", "buy", "record", "commit", "rest"}]
  BY DEF Resume
<1>4. crashes' \in 0..MaxCrashes
  BY <1>1, BudgetAssumption DEF BudgetAssumption, IInv, BudgetTypeOK
<1>8. BudgetTypeOK'
  BY <1>1, <1>2, <1>3, <1>4 DEF IInv, BudgetTypeOK
<1>5. \A b \in Branches : due'[b] \in {"enter", "rest"} /\ (top # {} /\ b \notin top => due'[b] = "rest")
  BY DEF Resume
<1>6. Claimed' /\ Walked'
  BY <1>1, <1>5 DEF IInv, Claimed, Inside, Walked, Chains
<1>7. Honest' /\ Unpaid'
  BY <1>1, <1>5 DEF IInv, Honest, Unpaid
<1> QED BY <1>6, <1>7, <1>8 DEF IInv

(* What moves no branch and no money keeps the invariant.                  *)
LEMMA StillKeeps ==
  ASSUME IInv, UNCHANGED <<top, at, due, out, row, price, ledger, again, asked, crashes>>,
         status' \in {"running", "failed", "completed"}, guards' \subseteq Keys
  PROVE  IInv'
<1>1. BudgetTypeOK'
  BY DEF IInv, BudgetTypeOK
<1>2. \A c \in Branches : KeyOf(c)' = KeyOf(c)
  BY DEF KeyOf, FrameOf
<1>3. Claimed' /\ Walked'
  BY <1>2 DEF IInv, Claimed, Inside, Walked, Chains
<1>4. Honest' /\ Unpaid'
  BY <1>2 DEF IInv, Honest, Unpaid
<1> QED BY <1>1, <1>3, <1>4 DEF IInv

-----------------------------------------------------------------------------
(* The invariant holds for ever.                                           *)
LEMMA InvStep == IInv /\ [BudgetNext]_budgetVars => IInv'
<1> SUFFICES ASSUME IInv, [BudgetNext]_budgetVars PROVE IInv'
  OBVIOUS
<1>1. ASSUME NEW b \in Branches, Step(b) PROVE IInv'
  BY <1>1, EnterKeeps, UnresolvedKeeps, GateKeeps, CheckAndSetKeeps, BuyKeeps, RecordKeeps, CommitKeeps DEF Step
<1>2. CASE Complete \/ (\E k \in Keys : GuardExpires(k)) \/ UNCHANGED budgetVars
  <2>1. /\ UNCHANGED <<top, at, due, out, row, price, ledger, again, asked, crashes>>
        /\ status' \in {"running", "failed", "completed"} /\ guards' \subseteq Keys
    BY <1>2 DEF Complete, GuardExpires, budgetVars, IInv, BudgetTypeOK
  <2> QED BY <2>1, StillKeeps
<1> QED BY <1>1, <1>2, ResumeKeeps DEF BudgetNext, Closed

LEMMA Always == BudgetSpec => []IInv
  BY InvInit, InvStep, PTL DEF BudgetSpec

(* The variables of a purchase keep their types.                           *)
THEOREM BudgetTypeCorrect == BudgetSpec => []BudgetTypeOK
<1>1. IInv => BudgetTypeOK
  BY DEF IInv
<1> QED BY <1>1, Always, PTL

(* Money in the ledger left the account, once for a lot, and what was      *)
(* committed as bought is in the ledger.                                   *)
THEOREM LedgerTellsTheTruth == BudgetSpec => []LedgerIsHonest
<1>1. IInv => LedgerIsHonest
  BY DEF IInv, Honest, Recorded, LedgerIsHonest
<1> QED BY <1>1, Always, PTL

-----------------------------------------------------------------------------
(* The order of the lots.                                                  *)

KeyAt(b, i, f) == <<<<b, i>>, f>>

(* What a chain has behind it: in a branch every lot before, on the run's  *)
(* own chain those since it was taken up.                                  *)
Passed(f) == IF f = "top" THEN {"none", "bought", "refused"} ELSE {"bought", "refused"}

(* Lots are worked off in order, and a chain stays at the first that       *)
(* neither was bought nor refused; a failed run is taken up at such a lot  *)
(* of its branch.                                                          *)
InOrder ==
  /\ \A b \in Branches, j \in 1..NLots : j < at[b] => row[KeyAt(b, j, FrameOf(b))] \in Passed(FrameOf(b))
  /\ \A b \in Branches, f \in Frames, i, j \in 1..NLots :
       j < i /\ row[KeyAt(b, i, f)] # "none" => row[KeyAt(b, j, f)] \in Passed(f)
  /\ \A b \in top, n \in 1..NLots : n >= at[b] => row[KeyAt(b, n, "fork")] \in {"none", "running"}
  /\ \A b \in top, n \in 1..NLots : n > at[b] => row[KeyAt(b, n, "top")] = "none"
  /\ \A b \in Branches, n \in 1..NLots :
       row[KeyAt(b, n, "top")] # "none" => row[KeyAt(b, n, "fork")] \in {"none", "running"}

(* What was refused cost nothing.                                          *)
Unsold ==
  /\ \A k \in Keys : row[k] = "refused" => price[k] = 0
  /\ \A b \in Branches : due[b] = "commit" /\ out[b] = "refused" => price[KeyOf(b)] = 0

LEMMA KeysAre ==
  /\ \A b \in Branches, i \in 1..NLots, f \in Frames : KeyAt(b, i, f) \in Keys
  /\ \A k \in Keys : \E b \in Branches, i \in 1..NLots, f \in Frames : k = KeyAt(b, i, f)
  /\ \A b, c, i, j, f, g : KeyAt(b, i, f) = KeyAt(c, j, g) => b = c /\ i = j /\ f = g
  /\ \A b : KeyOf(b) = KeyAt(b, at[b], FrameOf(b))
  BY DEF KeyAt, KeyOf, Keys, Lots

(* A key's chain has walked if its step is claimed.                        *)
LEMMA WalkedChains ==
  ASSUME IInv, NEW b \in Branches, NEW i \in 1..NLots
  PROVE  /\ row[KeyAt(b, i, "top")] # "none" => b \in top
         /\ row[KeyAt(b, i, "fork")] # "none" => Forked
<1>1. KeyAt(b, i, "top") \in Keys /\ KeyAt(b, i, "fork") \in Keys
  BY KeysAre DEF Frames
<1>2. /\ row[KeyAt(b, i, "top")] # "none" => <<b, "top">> \in Chains
      /\ row[KeyAt(b, i, "fork")] # "none" => <<b, "fork">> \in Chains
  BY <1>1 DEF IInv, Walked, KeyAt
<1> QED BY <1>2 DEF Chains

LEMMA FailIsInOrder ==
  ASSUME IInv, InOrder, NEW b \in Branches, due[b] # "rest", Inside(b) \/ b \in top, Fail(b), row' = row
  PROVE  InOrder'
<1>0. at' = at /\ top' = {b} /\ top \subseteq {b} /\ NLots \in Nat /\ at[b] \in 1..(NLots + 1)
  BY OneWalks, BudgetAssumption DEF Fail, IInv, BudgetTypeOK
<1>1. ASSUME NEW c \in Branches, NEW j \in 1..NLots, j < at[c]
      PROVE  row[KeyAt(c, j, FrameOf(c)')] \in Passed(FrameOf(c)')
  <2>1. CASE c = b /\ b \notin top
    <3>1. FrameOf(c)' = "top" /\ row[KeyAt(c, j, "top")] = "none"
      BY <1>0, <2>1, WalkedChains DEF FrameOf
    <3> QED BY <3>1 DEF Passed
  <2>2. CASE ~(c = b /\ b \notin top)
    <3>1. FrameOf(c)' = FrameOf(c)
      BY <1>0, <2>2 DEF FrameOf
    <3> QED BY <1>1, <3>1 DEF InOrder
  <2> QED BY <2>1, <2>2
<1>2. ASSUME NEW n \in 1..NLots, n >= at[b]
      PROVE  row[KeyAt(b, n, "fork")] \in {"none", "running"}
  <2>1. CASE b \in top
    BY <1>2, <2>1 DEF InOrder
  <2>2. CASE b \notin top
    <3>1. at[b] \in 1..NLots /\ row[KeyAt(b, at[b], "fork")] = "running"
      BY <2>2, KeysAre DEF IInv, Claimed, FrameOf
    <3>2. "fork" \in Frames /\ "running" \notin Passed("fork")
      BY DEF Frames, Passed
    <3>3. CASE n = at[b]
      BY <3>1, <3>3
    <3>4. CASE at[b] < n
      BY <3>1, <3>2, <3>4 DEF InOrder
    <3> QED BY <1>0, <1>2, <3>3, <3>4
  <2> QED BY <2>1, <2>2
<1>3. ASSUME NEW n \in 1..NLots, n > at[b] PROVE row[KeyAt(b, n, "top")] = "none"
  <2>1. CASE b \in top
    BY <1>3, <2>1 DEF InOrder
  <2>2. CASE b \notin top
    BY <2>2, WalkedChains
  <2> QED BY <2>1, <2>2
<1>4. /\ \A c \in Branches, f \in Frames, i, j \in 1..NLots :
            j < i /\ row[KeyAt(c, i, f)] # "none" => row[KeyAt(c, j, f)] \in Passed(f)
      /\ \A c \in Branches, n \in 1..NLots :
            row[KeyAt(c, n, "top")] # "none" => row[KeyAt(c, n, "fork")] \in {"none", "running"}
  BY DEF InOrder
<1> QED BY <1>0, <1>1, <1>2, <1>3, <1>4 DEF InOrder

LEMMA ClaimIsInOrder ==
  ASSUME IInv, InOrder, NEW b \in Branches, due[b] # "rest", at[b] \in 1..NLots, row[KeyOf(b)] \notin Results,
         row' = [row EXCEPT ![KeyOf(b)] = "running"], UNCHANGED <<top, at>>
  PROVE  InOrder'
<1> DEFINE k == KeyAt(b, at[b], FrameOf(b))
<1>0. k = KeyOf(b) /\ k \in Keys /\ FrameOf(b) \in Frames /\ NLots \in Nat
  BY KeysAre, KeyIsAKey, BudgetAssumption
<1>1. row'[k] = "running" /\ \A j \in Keys \ {k} : row'[j] = row[j]
  BY <1>0 DEF IInv, BudgetTypeOK
<1>2. \A c \in Branches : FrameOf(c)' = FrameOf(c) /\ FrameOf(c) \in Frames
  BY DEF FrameOf, Frames
<1>3. \A c \in Branches, i \in 1..NLots, f \in Frames :
        KeyAt(c, i, f) = k \/ row'[KeyAt(c, i, f)] = row[KeyAt(c, i, f)]
  BY <1>1, KeysAre
<1>4. ASSUME NEW c \in Branches, NEW j \in 1..NLots, j < at[c]
      PROVE  row'[KeyAt(c, j, FrameOf(c))] \in Passed(FrameOf(c))
  <2>1. KeyAt(c, j, FrameOf(c)) # k
    BY <1>4, KeysAre
  <2> QED BY <1>2, <1>3, <1>4, <2>1 DEF InOrder
<1>5. ASSUME NEW c \in Branches, NEW f \in Frames, NEW i \in 1..NLots, NEW j \in 1..NLots,
             j < i, row'[KeyAt(c, i, f)] # "none"
      PROVE  row'[KeyAt(c, j, f)] \in Passed(f)
  <2>1. CASE KeyAt(c, i, f) = k
    <3>1. c = b /\ i = at[b] /\ f = FrameOf(b)
      BY <2>1, KeysAre
    <3>2. KeyAt(c, j, f) # k
      BY <1>5, <3>1, KeysAre
    <3> QED BY <1>3, <1>5, <3>1, <3>2 DEF InOrder
  <2>2. CASE KeyAt(c, i, f) # k
    <3>1. row[KeyAt(c, i, f)] # "none" /\ row[KeyAt(c, j, f)] \in Passed(f)
      BY <1>3, <1>5, <2>2 DEF InOrder
    <3>2. CASE KeyAt(c, j, f) # k
      BY <1>3, <3>1, <3>2
    <3>3. CASE KeyAt(c, j, f) = k
      <4>1. c = b /\ j = at[b] /\ f = FrameOf(b) /\ row[k] \notin {"bought", "refused"}
        BY <1>0, <3>3, KeysAre DEF Results
      <4>2. f = "top" /\ b \in top
        BY <3>1, <3>3, <4>1 DEF Passed, FrameOf
      <4> QED BY <1>5, <3>1, <4>1, <4>2 DEF InOrder
    <3> QED BY <3>2, <3>3
  <2> QED BY <2>1, <2>2
<1>6. ASSUME NEW c \in top, NEW n \in 1..NLots
      PROVE  /\ n >= at[c] => row'[KeyAt(c, n, "fork")] \in {"none", "running"}
             /\ n > at[c] => row'[KeyAt(c, n, "top")] = "none"
  <2>1. c \in Branches /\ {"top", "fork"} = Frames
    BY DEF IInv, BudgetTypeOK, Frames
  <2>2. KeyAt(c, n, "fork") = k \/ row'[KeyAt(c, n, "fork")] = row[KeyAt(c, n, "fork")]
    BY <1>3, <2>1
  <2>3. n > at[c] => KeyAt(c, n, "top") # k
    BY KeysAre
  <2>4. n > at[c] => row'[KeyAt(c, n, "top")] = row[KeyAt(c, n, "top")]
    BY <1>3, <2>1, <2>3
  <2> QED BY <1>1, <2>2, <2>4 DEF InOrder
<1>7. ASSUME NEW c \in Branches, NEW n \in 1..NLots, row'[KeyAt(c, n, "top")] # "none"
      PROVE  row'[KeyAt(c, n, "fork")] \in {"none", "running"}
  <2>0. "top" \in Frames /\ "fork" \in Frames
    BY DEF Frames
  <2>1. CASE KeyAt(c, n, "top") = k
    <3>1. c = b /\ n = at[b] /\ b \in top
      BY <2>1, KeysAre DEF FrameOf
    <3> QED BY <1>0, <1>6, <3>1
  <2>2. CASE KeyAt(c, n, "top") # k
    <3>1. row[KeyAt(c, n, "fork")] \in {"none", "running"}
      BY <1>3, <1>7, <2>0, <2>2 DEF InOrder
    <3> QED BY <1>1, <1>3, <2>0, <3>1
  <2> QED BY <2>1, <2>2
<1> QED BY <1>2, <1>4, <1>5, <1>6, <1>7 DEF InOrder

(* A commit, or a replay, moves a chain past what was bought or refused.   *)
LEMMA SettledIsInOrder ==
  ASSUME IInv, InOrder, NEW b \in Branches, due[b] # "rest", at[b] \in 1..NLots, NEW r \in Results,
         row[KeyOf(b)] \in {"running", r}, row' = [row EXCEPT ![KeyOf(b)] = r], MoveOn(b, r), top' = top
  PROVE  InOrder'
<1> DEFINE k == KeyAt(b, at[b], FrameOf(b))
<1>0. k = KeyOf(b) /\ k \in Keys /\ FrameOf(b) \in Frames /\ NLots \in Nat /\ "running" # "none" /\ r # "none"
  BY KeysAre, KeyIsAKey, BudgetAssumption DEF Results, Halting
<1>1. row'[k] = r /\ row[k] \in {"running", r} /\ \A j \in Keys \ {k} : row'[j] = row[j]
  BY <1>0 DEF IInv, BudgetTypeOK
<1>2. \A c \in Branches : FrameOf(c)' = FrameOf(c) /\ FrameOf(c) \in Frames
  BY DEF FrameOf, Frames
<1>3. \A c \in Branches, i \in 1..NLots, f \in Frames :
        KeyAt(c, i, f) = k \/ row'[KeyAt(c, i, f)] = row[KeyAt(c, i, f)]
  BY <1>1, KeysAre
<1>4. /\ \A c \in Branches \ {b} : at'[c] = at[c]
      /\ at'[b] = at[b] \/ (at'[b] = at[b] + 1 /\ r \in {"bought", "refused"})
  BY DEF MoveOn, Results, IInv, BudgetTypeOK
<1>5. ASSUME NEW c \in Branches, NEW j \in 1..NLots, j < at'[c]
      PROVE  row'[KeyAt(c, j, FrameOf(c))] \in Passed(FrameOf(c))
  <2>1. CASE c = b /\ j = at[b]
    <3>1. r \in {"bought", "refused"}
      BY <1>4, <1>5, <2>1
    <3> QED BY <1>1, <2>1, <3>1 DEF Passed
  <2>2. CASE ~(c = b /\ j = at[b])
    <3>1. KeyAt(c, j, FrameOf(c)) # k
      BY <2>2, KeysAre
    <3>2. j < at[c]
      BY <1>4, <1>5, <2>2 DEF IInv, BudgetTypeOK
    <3> QED BY <1>2, <1>3, <3>1, <3>2 DEF InOrder
  <2> QED BY <2>1, <2>2
<1>6. ASSUME NEW c \in Branches, NEW f \in Frames, NEW i \in 1..NLots, NEW j \in 1..NLots,
             j < i, row'[KeyAt(c, i, f)] # "none"
      PROVE  row'[KeyAt(c, j, f)] \in Passed(f)
  <2>1. row[KeyAt(c, i, f)] # "none"
    BY <1>0, <1>1, <1>3, <1>6
  <2>2. row[KeyAt(c, j, f)] \in Passed(f)
    BY <1>6, <2>1 DEF InOrder
  <2>3. CASE KeyAt(c, j, f) = k
    BY <1>1, <2>2, <2>3 DEF Passed
  <2>4. CASE KeyAt(c, j, f) # k
    BY <1>3, <2>2, <2>4
  <2> QED BY <2>3, <2>4
<1>7. top # {} => b \in top
  BY DEF IInv, Walked
<1>8. ASSUME NEW c \in top, NEW n \in 1..NLots
      PROVE  /\ n >= at'[c] => row'[KeyAt(c, n, "fork")] \in {"none", "running"}
             /\ n > at'[c] => row'[KeyAt(c, n, "top")] = "none"
  <2>1. c \in Branches /\ "top" \in Frames /\ "fork" \in Frames /\ FrameOf(b) = "top"
    BY <1>7 DEF IInv, BudgetTypeOK, Frames, FrameOf
  <2>2. at[c] \in Nat /\ at'[c] \in Nat /\ at'[c] >= at[c]
    BY <1>4, <2>1 DEF IInv, BudgetTypeOK
  <2>3. KeyAt(c, n, "fork") # k /\ (n > at'[c] => KeyAt(c, n, "top") # k)
    <3>1. KeyAt(c, n, "fork") # k
      BY <2>1, KeysAre
    <3>2. n > at'[c] => n # at[c]
      BY <2>2
    <3> QED BY <3>1, <3>2, KeysAre
  <2>4. /\ row'[KeyAt(c, n, "fork")] = row[KeyAt(c, n, "fork")]
        /\ n > at'[c] => row'[KeyAt(c, n, "top")] = row[KeyAt(c, n, "top")]
    BY <1>3, <2>1, <2>3
  <2>5. (n >= at'[c] => n >= at[c]) /\ (n > at'[c] => n > at[c])
    BY <2>2
  <2> QED BY <2>4, <2>5 DEF InOrder
<1>9. ASSUME NEW c \in Branches, NEW n \in 1..NLots, row'[KeyAt(c, n, "top")] # "none"
      PROVE  row'[KeyAt(c, n, "fork")] \in {"none", "running"}
  <2>0. "top" \in Frames /\ "fork" \in Frames
    BY DEF Frames
  <2>1. row[KeyAt(c, n, "top")] # "none"
    BY <1>0, <1>1, <1>3, <1>9, <2>0
  <2>2. row[KeyAt(c, n, "fork")] \in {"none", "running"} /\ c \in top
    BY <2>1, WalkedChains DEF InOrder
  <2>3. KeyAt(c, n, "fork") # k
    BY <2>2, KeysAre DEF FrameOf
  <2> QED BY <1>3, <2>0, <2>2, <2>3
<1> QED BY <1>2, <1>5, <1>6, <1>8, <1>9 DEF InOrder

LEMMA OrderStep ==
  ASSUME IInv, InOrder, [BudgetNext]_budgetVars PROVE InOrder'
<1>1. ASSUME UNCHANGED <<row, at, top>> PROVE InOrder'
  <2>1. \A c \in Branches : FrameOf(c)' = FrameOf(c)
    BY <1>1 DEF FrameOf
  <2> QED BY <1>1, <2>1 DEF InOrder
<1>2. ASSUME NEW b \in Branches, Step(b) PROVE InOrder'
  <2>1. CASE Enter(b)
    <3>0. due[b] # "rest" /\ at[b] \in 1..(NLots + 1) /\ NLots \in Nat
      BY <2>1, BudgetAssumption DEF Enter, Due, IInv, BudgetTypeOK
    <3>1. CASE at[b] > NLots /\ Forked /\ b \in top
      <4>1. Fail(b) /\ row' = row
        BY <2>1, <3>1 DEF Enter
      <4> QED BY <3>0, <3>1, <4>1, FailIsInOrder
    <3>2. CASE ~(at[b] > NLots /\ Forked /\ b \in top) /\ (at[b] > NLots \/ asked)
      BY <1>1, <2>1, <3>2 DEF Enter
    <3>3. CASE ~(at[b] > NLots \/ asked) /\ row[KeyOf(b)] \in Results
      <4>1. MoveOn(b, row[KeyOf(b)]) /\ row' = row /\ top' = top
        BY <2>1, <3>3 DEF Enter
      <4>2. at[b] \in 1..NLots
        BY <3>0, <3>3
      <4>3. row' = [row EXCEPT ![KeyOf(b)] = row[KeyOf(b)]]
        BY <4>1 DEF IInv, BudgetTypeOK
      <4> QED BY <3>0, <3>3, <4>1, <4>2, <4>3, SettledIsInOrder
    <3>4. CASE ~(at[b] > NLots \/ asked) /\ row[KeyOf(b)] \notin Results
      <4>1. row' = [row EXCEPT ![KeyOf(b)] = "running"] /\ UNCHANGED <<top, at>>
        BY <2>1, <3>4 DEF Enter
      <4>2. at[b] \in 1..NLots
        BY <3>0, <3>4
      <4> QED BY <3>0, <3>4, <4>1, <4>2, ClaimIsInOrder
    <3> QED BY <3>1, <3>2, <3>3, <3>4
  <2>2. CASE Unresolved(b)
    BY <2>2, FailIsInOrder DEF Unresolved, Due, Inside
  <2>3. CASE Gate(b) \/ Record(b)
    BY <1>1, <2>3 DEF Gate, Record
  <2>4. CASE CheckAndSet(b)
    <3>1. due[b] # "rest" /\ Inside(b) /\ row' = row /\ (Fail(b) \/ UNCHANGED <<at, top>>)
      BY <2>4 DEF CheckAndSet, Due, Inside
    <3> QED BY <1>1, <3>1, FailIsInOrder
  <2>5. CASE Buy(b)
    <3>1. due[b] # "rest" /\ Inside(b) /\ row' = row /\ (Fail(b) \/ UNCHANGED <<at, top>>)
      BY <2>5 DEF Buy, Due, Inside
    <3> QED BY <1>1, <3>1, FailIsInOrder
  <2>6. CASE Commit(b)
    <3>1. /\ due[b] # "rest" /\ at[b] \in 1..NLots /\ out[b] \in Results /\ row[KeyOf(b)] = "running"
          /\ row' = [row EXCEPT ![KeyOf(b)] = out[b]] /\ MoveOn(b, out[b]) /\ top' = top
      BY <2>6 DEF Commit, Due, IInv, BudgetTypeOK, Claimed, Inside
    <3> QED BY <3>1, SettledIsInOrder
  <2> QED BY <1>2, <2>1, <2>2, <2>3, <2>4, <2>5, <2>6 DEF Step
<1>3. CASE Resume
  <2>1. row' = row /\ top' = top /\ (top # {} => at' = at) /\ (top = {} => \A b \in Branches : at'[b] = 1)
    BY <1>3 DEF Resume
  <2>2. \A b \in Branches, j \in 1..NLots : j < at'[b] => at' = at
    BY <2>1, BudgetAssumption
  <2>3. \A c \in Branches : FrameOf(c)' = FrameOf(c)
    BY <2>1 DEF FrameOf
  <2> QED BY <2>1, <2>2, <2>3 DEF InOrder
<1>4. CASE Complete \/ (\E k \in Keys : GuardExpires(k)) \/ UNCHANGED budgetVars
  BY <1>1, <1>4 DEF Complete, GuardExpires, budgetVars
<1> QED BY <1>2, <1>3, <1>4 DEF BudgetNext, Closed

-----------------------------------------------------------------------------
LEMMA UnsoldFails ==
  ASSUME IInv, Unsold, NEW b \in Branches, Fail(b), row' = row,
         \A k \in Keys : price'[k] # price[k] => row[k] = "running"
  PROVE  Unsold'
<1>1. \A c \in Branches : due'[c] = "rest"
  BY DEF Fail
<1>2. \A k \in Keys : row[k] = "refused" => price'[k] = price[k]
  OBVIOUS
<1> QED BY <1>1, <1>2 DEF Unsold

LEMMA UnsoldStep ==
  ASSUME IInv, Unsold, [BudgetNext]_budgetVars PROVE Unsold'
<1>1. ASSUME NEW b \in Branches, Enter(b) PROVE Unsold'
  <2>0. price' = price /\ due[b] = "enter" /\ at[b] \in 1..(NLots + 1) /\ NLots \in Nat
    BY <1>1, BudgetAssumption DEF Enter, Due, IInv, BudgetTypeOK
  <2>1. CASE at[b] > NLots /\ Forked /\ b \in top
    BY <1>1, <2>0, <2>1, UnsoldFails DEF Enter
  <2>2. CASE ~(at[b] > NLots /\ Forked /\ b \in top)
    <3>1. UNCHANGED <<top, out>> /\ \A k \in Keys : row'[k] = "refused" => row[k] = "refused"
      BY <1>1, <2>2 DEF Enter, IInv, BudgetTypeOK
    <3>2. due'[b] # "commit" /\ \A c \in Branches \ {b} : due'[c] = due[c] /\ at'[c] = at[c]
      BY <1>1, <2>0, <2>2 DEF Enter, MoveOn, Goto, IInv, BudgetTypeOK
    <3>3. \A c \in Branches \ {b} : KeyOf(c)' = KeyOf(c)
      BY <3>1, <3>2 DEF KeyOf, FrameOf
    <3> QED BY <2>0, <3>1, <3>2, <3>3 DEF Unsold
  <2> QED BY <2>1, <2>2
<1>2. ASSUME NEW b \in Branches, Unresolved(b) PROVE Unsold'
  BY <1>2, UnsoldFails DEF Unresolved
<1>3. ASSUME NEW b \in Branches, Gate(b) PROVE Unsold'
  <2>1. /\ UNCHANGED <<row, price, at, top>> /\ (due'[b] = "commit" => out'[b] = "exhausted")
        /\ \A c \in Branches \ {b} : due'[c] = due[c] /\ out'[c] = out[c]
    BY <1>3 DEF Gate, Goto, Report, IInv, BudgetTypeOK
  <2> QED BY <2>1 DEF Unsold, KeyOf, FrameOf
<1>4. ASSUME NEW b \in Branches, CheckAndSet(b) PROVE Unsold'
  <2>1. CASE Fail(b)
    BY <1>4, <2>1, UnsoldFails DEF CheckAndSet
  <2>2. CASE Goto(b, "buy") /\ UNCHANGED <<top, at, out>>
    <3>1. /\ UNCHANGED <<row, price, at, top, out>>
          /\ \A c \in Branches : due'[c] = "commit" => due[c] = "commit"
      BY <1>4, <2>2 DEF CheckAndSet, Goto, IInv, BudgetTypeOK
    <3> QED BY <3>1 DEF Unsold, KeyOf, FrameOf
  <2> QED BY <1>4, <2>1, <2>2 DEF CheckAndSet
<1>5. ASSUME NEW b \in Branches, Buy(b) PROVE Unsold'
  <2> DEFINE k == KeyOf(b)
  <2>0. due[b] = "buy" /\ k \in Keys /\ row[k] = "running" /\ price[k] = 0 /\ row' = row
    BY <1>5, KeyIsAKey DEF Buy, Due, IInv, Claimed, Inside, Unpaid
  <2>1. \A j \in Keys \ {k} : price'[j] = price[j]
    BY <1>5, <2>0 DEF Buy, IInv, BudgetTypeOK
  <2>2. CASE Fail(b)
    BY <2>0, <2>1, <2>2, UnsoldFails
  <2>3. CASE ~Fail(b)
    <3>1. UNCHANGED <<top, at>> /\ (due'[b] = "commit" => price' = price)
      BY <1>5, <2>0, <2>3 DEF Buy, Goto, Report, IInv, BudgetTypeOK
    <3>2. \A c \in Branches \ {b} : due'[c] = due[c] /\ out'[c] = out[c]
      BY <1>5, <2>3 DEF Buy, Goto, Report, IInv, BudgetTypeOK
    <3>3. \A c \in Branches : KeyOf(c)' = KeyOf(c)
      BY <3>1 DEF KeyOf, FrameOf
    <3>4. ASSUME NEW c \in Branches, due'[c] = "commit", out'[c] = "refused" PROVE price'[KeyOf(c)] = 0
      <4>1. CASE c = b
        BY <2>0, <3>1, <3>4, <4>1
      <4>2. CASE c # b
        <5>1. due[c] = "commit" /\ out[c] = "refused" /\ KeyOf(c) \in Keys \ {k}
          BY <3>2, <3>4, <4>2, KeyIsAKey, KeysDiffer DEF IInv, Claimed, Inside
        <5> QED BY <2>1, <5>1 DEF Unsold
      <4> QED BY <4>1, <4>2
    <3>5. \A j \in Keys : row'[j] = "refused" => price'[j] = 0
      BY <2>0, <2>1 DEF Unsold
    <3> QED BY <3>3, <3>4, <3>5 DEF Unsold
  <2> QED BY <2>2, <2>3
<1>6. ASSUME NEW b \in Branches, Record(b) PROVE Unsold'
  <2>1. /\ UNCHANGED <<row, price, at, top>> /\ out'[b] # "refused"
        /\ \A c \in Branches \ {b} : due'[c] = due[c] /\ out'[c] = out[c]
    BY <1>6 DEF Record, Goto, Report, IInv, BudgetTypeOK
  <2> QED BY <2>1 DEF Unsold, KeyOf, FrameOf
<1>7. ASSUME NEW b \in Branches, Commit(b) PROVE Unsold'
  <2>1. /\ UNCHANGED <<out, price, top>> /\ due[b] = "commit" /\ due'[b] # "commit"
        /\ \A c \in Branches \ {b} : due'[c] = due[c] /\ at'[c] = at[c]
    BY <1>7 DEF Commit, MoveOn, Due, Goto, IInv, BudgetTypeOK
  <2>2. \A c \in Branches \ {b} : KeyOf(c)' = KeyOf(c)
    BY <2>1 DEF KeyOf, FrameOf
  <2>3. \A j \in Keys : row'[j] = "refused" => row[j] = "refused" \/ (j = KeyOf(b) /\ out[b] = "refused")
    BY <1>7 DEF Commit, IInv, BudgetTypeOK
  <2> QED BY <2>1, <2>2, <2>3 DEF Unsold
<1>8. CASE Resume
  <2>1. UNCHANGED <<row, price>> /\ \A c \in Branches : due'[c] # "commit"
    BY <1>8 DEF Resume
  <2> QED BY <2>1 DEF Unsold
<1>9. CASE Complete \/ (\E k \in Keys : GuardExpires(k)) \/ UNCHANGED budgetVars
  BY <1>9 DEF Complete, GuardExpires, budgetVars, Unsold, KeyOf, FrameOf
<1> QED BY <1>1, <1>2, <1>3, <1>4, <1>5, <1>6, <1>7, <1>8, <1>9 DEF BudgetNext, Step, Closed

LEMMA OrderInit == BudgetInit => InOrder /\ Unsold
<1> SUFFICES ASSUME BudgetInit PROVE InOrder /\ Unsold
  OBVIOUS
<1>1. (\A b \in Branches : at[b] = 1 /\ due[b] = "enter") /\ \A k \in Keys : row[k] = "none"
  BY DEF BudgetInit
<1>2. \A b \in Branches, n \in 1..NLots, f \in Frames : row[KeyAt(b, n, f)] = "none"
  BY <1>1, KeysAre
<1>3. (\A b \in Branches, j \in 1..NLots : ~(j < at[b])) /\ top \subseteq Branches
  BY <1>1, BudgetAssumption DEF BudgetInit
<1>4. InOrder
  BY <1>2, <1>3 DEF InOrder, Frames
<1> QED BY <1>1, <1>4 DEF Unsold

(* The invariant of the theorems below.                                    *)
JInv == IInv /\ InOrder /\ Unsold

LEMMA JInvAlways == BudgetSpec => []JInv
<1>1. BudgetInit => JInv
  BY InvInit, OrderInit DEF JInv
<1>2. JInv /\ [BudgetNext]_budgetVars => JInv'
  BY InvStep, OrderStep, UnsoldStep DEF JInv
<1> QED BY <1>1, <1>2, PTL DEF BudgetSpec

-----------------------------------------------------------------------------
(* Only a purchase writes a price, and under a key without one.  If        *)
(* another key of the lot has one, the purchase is the run's own chain's,  *)
(* and the step of the branch never committed.                             *)
LEMMA PaidStep ==
  ASSUME JInv, [BudgetNext]_budgetVars, NEW k \in Keys, price'[k] # price[k]
  PROVE  /\ price[k] = 0
         /\ \A j \in Keys : j[1] = k[1] /\ price[j] > 0 => k[2] = "top" /\ row[j] = "running"
<1>1. ASSUME NEW b \in Branches, Step(b), ~Buy(b) PROVE price' = price
  BY <1>1 DEF Step, Enter, Unresolved, Gate, CheckAndSet, Record, Commit
<1>2. PICK b \in Branches : Buy(b)
  BY <1>1 DEF BudgetNext, Complete, Resume, GuardExpires, Closed, budgetVars
<1>3. /\ due[b] = "buy" /\ at[b] \in 1..NLots /\ price[KeyOf(b)] = 0
      /\ KeyOf(b) = KeyAt(b, at[b], FrameOf(b))
  BY <1>2, KeysAre DEF Buy, Due, JInv, IInv, Claimed, Inside, Unpaid
<1>4. k = KeyOf(b)
  BY <1>2 DEF Buy, JInv, IInv, BudgetTypeOK
<1>5. ASSUME NEW j \in Keys, j[1] = k[1], price[j] > 0 PROVE k[2] = "top" /\ row[j] = "running"
  <2>1. PICK f \in Frames : j = KeyAt(b, at[b], f)
    BY <1>3, <1>4, <1>5, KeysAre DEF KeyAt
  <2>2. f # FrameOf(b) /\ row[j] # "none"
    BY <1>3, <1>4, <1>5, <2>1 DEF JInv, IInv, Unpaid
  <2>3. CASE f = "top"
    BY <1>3, <2>1, <2>2, <2>3, WalkedChains DEF FrameOf, JInv
  <2>4. CASE f = "fork"
    <3>1. b \in top /\ FrameOf(b) = "top"
      BY <2>2, <2>4 DEF FrameOf
    <3>2. at[b] >= at[b]
      BY <1>3
    <3>3. row[j] \in {"none", "running"}
      BY <1>3, <2>1, <2>4, <3>1, <3>2 DEF JInv, InOrder
    <3> QED BY <1>3, <1>4, <2>2, <3>1, <3>3 DEF KeyAt
  <2> QED BY <2>3, <2>4 DEF Frames
<1> QED BY <1>3, <1>4, <1>5

(* A step of a run pays once, whatever crashes, replays and expired guards *)
(* there are; and a lot of a branch is paid for again only by the run's    *)
(* own chain, taken up at it after a failure that left its step            *)
(* uncommitted.                                                            *)
THEOREM PaidAgainOnlyIfLost == BudgetSpec => PaidOnce
<1>1. JInv /\ [BudgetNext]_budgetVars =>
        [\A k \in Keys : price'[k] # price[k] =>
           /\ price[k] = 0
           /\ \A j \in Keys : j[1] = k[1] /\ price[j] > 0 => k[2] = "top" /\ row[j] = "running"]_budgetVars
  BY PaidStep
<1> QED BY <1>1, JInvAlways, PTL DEF BudgetSpec, PaidOnce

-----------------------------------------------------------------------------
(* What a set of keys cost, counted coin by coin.  The fold that defines   *)
(* Total is a recursive function on the subsets of its set; that it is the *)
(* number of coins follows because that number satisfies its equation, and *)
(* a smallest set on which two solutions differ cannot exist.              *)

Coins(p, S) == {c \in S \X (1..MaxPrice) : c[2] <= p[c[1]]}
Prices == [Keys -> 0..MaxPrice]

LEMMA KeysAreFinite == IsFiniteSet(Keys)
<1>1. IsFiniteSet(Branches) /\ NLots \in Nat
  BY BudgetAssumption
<1>2. IsFiniteSet(1..NLots)
  BY <1>1, FS_Interval
<1>3. IsFiniteSet(Lots)
  BY <1>1, <1>2, FS_Product DEF Lots
<1>4. IsFiniteSet(Frames)
  <2>1. IsFiniteSet({"fork"})
    BY FS_Singleton
  <2>2. IsFiniteSet({"fork"} \cup {"top"})
    BY <2>1, FS_AddElement
  <2>3. Frames = {"fork"} \cup {"top"}
    BY DEF Frames
  <2> QED BY <2>2, <2>3
<1> QED BY <1>3, <1>4, FS_Product DEF Keys

LEMMA CoinsAreFinite ==
  ASSUME NEW p, NEW S \in SUBSET Keys
  PROVE  IsFiniteSet(Coins(p, S)) /\ Cardinality(Coins(p, S)) \in Nat
<1>1. IsFiniteSet(S)
  BY KeysAreFinite, FS_Subset
<1>2. IsFiniteSet(1..MaxPrice)
  BY BudgetAssumption, FS_Interval
<1>3. IsFiniteSet(S \X (1..MaxPrice))
  BY <1>1, <1>2, FS_Product
<1>4. IsFiniteSet(Coins(p, S))
  BY <1>3, FS_Subset DEF Coins
<1> QED BY <1>4, FS_CardinalityType

LEMMA CoinsOfOne ==
  ASSUME NEW p \in Prices, NEW l \in Keys
  PROVE  Cardinality(Coins(p, {l})) = p[l]
<1>0. p[l] \in Nat /\ p[l] <= MaxPrice /\ MaxPrice \in Nat
  BY BudgetAssumption DEF Prices
<1> DEFINE f == [k \in 1..p[l] |-> <<l, k>>]
<1>1. f \in Bijection(1..p[l], Coins(p, {l}))
  <2>1. f \in [1..p[l] -> Coins(p, {l})]
    BY <1>0 DEF Coins
  <2>2. \A j, k \in 1..p[l] : f[j] = f[k] => j = k
    OBVIOUS
  <2>3. \A c \in Coins(p, {l}) : \E k \in 1..p[l] : f[k] = c
    <3> TAKE c \in Coins(p, {l})
    <3>1. c = <<l, c[2]>> /\ c[2] \in 1..p[l]
      BY <1>0 DEF Coins
    <3> QED BY <3>1
  <2> QED BY <2>1, <2>2, <2>3 DEF Bijection, Injection, Surjection, IsInjective
<1>2. ExistsBijection(1..p[l], Coins(p, {l}))
  BY <1>1 DEF ExistsBijection
<1> QED BY <1>0, <1>2, FS_CountingElements

LEMMA CoinsAdd ==
  ASSUME NEW p \in Prices, NEW S \in SUBSET Keys, NEW l \in Keys, l \notin S
  PROVE  Cardinality(Coins(p, S \cup {l})) = p[l] + Cardinality(Coins(p, S))
<1>1. Coins(p, S \cup {l}) = Coins(p, S) \cup Coins(p, {l})
  BY DEF Coins
<1>2. Coins(p, S) \cap Coins(p, {l}) = {}
  BY DEF Coins
<1>3. {l} \in SUBSET Keys /\ p[l] \in Nat
  BY BudgetAssumption DEF Prices
<1>4. /\ IsFiniteSet(Coins(p, S)) /\ IsFiniteSet(Coins(p, {l}))
      /\ Cardinality(Coins(p, S)) \in Nat /\ Cardinality(Coins(p, {l})) = p[l]
  BY <1>3, CoinsAreFinite, CoinsOfOne
<1>5. /\ Cardinality(Coins(p, S) \cup Coins(p, {l}))
           = Cardinality(Coins(p, S)) + Cardinality(Coins(p, {l})) - Cardinality({})
      /\ Cardinality({}) = 0
  <2>1. Cardinality(Coins(p, S) \cup Coins(p, {l}))
          = Cardinality(Coins(p, S)) + Cardinality(Coins(p, {l})) - Cardinality(Coins(p, S) \cap Coins(p, {l}))
    BY <1>4, FS_Union
  <2> QED BY <1>2, <2>1, FS_EmptySet
<1>6. PICK m \in Nat : m = Cardinality(Coins(p, S))
  BY <1>4
<1>7. PICK k \in Nat : k = p[l]
  BY <1>3
<1>8. Cardinality(Coins(p, S) \cup Coins(p, {l})) = m + k - 0
  BY <1>4, <1>5, <1>6, <1>7, Zenon
<1>9. m + k - 0 = k + m
  OBVIOUS
<1> QED BY <1>1, <1>6, <1>7, <1>8, <1>9, Zenon

Sum(p, S) == MapThenSumSet(LAMBDA l : p[l], S)

LEMMA SumIsCoins ==
  ASSUME NEW p \in Prices, NEW S \in SUBSET Keys
  PROVE  Sum(p, S) = Cardinality(Coins(p, S))
<1> DEFINE Pick(s) == CHOOSE x \in s : TRUE
           Sums(g) == g = [s \in SUBSET S |-> IF s = {} THEN 0 ELSE p[Pick(s)] + g[s \ {Pick(s)}]]
           count == [s \in SUBSET S |-> Cardinality(Coins(p, s))]
<1>1. Sum(p, S) = (CHOOSE g : Sums(g))[S]
  BY DEF Sum, MapThenSumSet, MapThenFoldSet
<1>2. ASSUME NEW s \in SUBSET S, s # {} PROVE Pick(s) \in s
  BY <1>2
<1> HIDE DEF Pick
<1>3. ASSUME NEW s \in SUBSET S
      PROVE  Cardinality(Coins(p, s)) = IF s = {} THEN 0
                                        ELSE p[Pick(s)] + Cardinality(Coins(p, s \ {Pick(s)}))
  <2>1. CASE s = {}
    BY <2>1, FS_EmptySet DEF Coins
  <2>2. CASE s # {}
    <3> DEFINE x == Pick(s)
               r == s \ {x}
    <3>1. x \in Keys /\ r \in SUBSET Keys /\ x \notin r /\ s = r \cup {x}
      BY <1>2, <2>2
    <3> HIDE DEF x, r
    <3>2. Cardinality(Coins(p, s)) = p[x] + Cardinality(Coins(p, r))
      BY <3>1, CoinsAdd
    <3> QED BY <2>2, <3>2 DEF x, r
  <2> QED BY <2>1, <2>2
<1>4. Sums(count)
  BY <1>3
<1>5. PICK g : g = (CHOOSE h : Sums(h))
  OBVIOUS
<1> HIDE DEF Sums
<1>6. Sums(g) /\ Sum(p, S) = g[S]
  BY <1>1, <1>4, <1>5
<1>7. \A s \in SUBSET S : g[s] = IF s = {} THEN 0 ELSE p[Pick(s)] + g[s \ {Pick(s)}]
  BY <1>6 DEF Sums
<1>8. \A s \in SUBSET S : g[s] = Cardinality(Coins(p, s))
  <2> SUFFICES ASSUME \E s \in SUBSET S : g[s] # Cardinality(Coins(p, s)) PROVE FALSE
    OBVIOUS
  <2> DEFINE Wrong == {s \in SUBSET S : g[s] # Cardinality(Coins(p, s))}
  <2>1. IsWellFoundedOn(StrictSubsetOrdering(S), SUBSET S)
    <3>1. IsFiniteSet(S)
      BY KeysAreFinite, FS_Subset
    <3> QED BY <3>1, FS_FiniteSubsetsOfFinite, FS_StrictSubsetOrderingWellFounded
  <2>2. Wrong \subseteq SUBSET S /\ Wrong # {}
    OBVIOUS
  <2> HIDE DEF Wrong
  <2>3. PICK s \in Wrong : \A r \in Wrong : <<r, s>> \notin StrictSubsetOrdering(S)
    BY <2>1, <2>2, WFMin
  <2>4. s \in SUBSET S /\ g[s] # Cardinality(Coins(p, s))
    BY <2>3 DEF Wrong
  <2>5. s # {}
    BY <1>3, <1>7, <2>4
  <2> DEFINE r == s \ {Pick(s)}
  <2>6. r \in SUBSET S /\ r \subseteq s /\ r # s
    BY <1>2, <2>4, <2>5
  <2>7. r \notin Wrong
    <3> HIDE DEF r
    <3> QED BY <2>3, <2>4, <2>6 DEF StrictSubsetOrdering
  <2>8. g[r] = Cardinality(Coins(p, r))
    BY <2>6, <2>7 DEF Wrong
  <2>9. g[s] = p[Pick(s)] + g[r]
    BY <1>7, <2>4, <2>5
  <2> QED BY <1>3, <2>4, <2>5, <2>8, <2>9
<1> QED BY <1>6, <1>8

-----------------------------------------------------------------------------
(* OverrunIsBounded.  A chain is at risk from the gate until its purchase  *)
(* is in the ledger, or for good if it never gets there: a lot that was    *)
(* paid and not recorded stops its chain, in this execution and in every   *)
(* later one, so each chain owes the ledger one lot at most.  The branch   *)
(* that a failed run was taken up in counts as at risk from then on, for   *)
(* its lot may be paid for a second time, unseen by the ledger.  The gate  *)
(* lets a chain through under a ledger that leaves room for its lot, when  *)
(* every other chain may be at risk; else only a failure puts one there,   *)
(* and it adds the run's own chain to those the bound allows for.          *)

(* The lot was paid for and is not in the ledger.                          *)
Owed(k) == price[k] > 0 /\ \A j \in ledger : j[1] # k[1]

Spends(b) == due[b] \in {"guard", "buy", "record"}

AtRisk == {s \in Branches \X Frames :
  \/ Spends(s[1]) /\ FrameOf(s[1]) = s[2]
  \/ \E i \in 1..NLots : Owed(KeyAt(s[1], i, s[2]))
  \/ Forked /\ s[2] = "fork" /\ s[1] \in top}

Covered ==
  Total(ledger) + Cardinality(AtRisk) * MaxPrice <= Budget + (Cardinality(Chains) - 1) * MaxPrice

-----------------------------------------------------------------------------
(* A chain owes one lot at most; inside a step, the one it is at.          *)
LEMMA OneIsOwed ==
  ASSUME JInv, NEW b \in Branches, NEW f \in Frames, NEW i \in 1..NLots, Owed(KeyAt(b, i, f))
  PROVE  /\ row[KeyAt(b, i, f)] \notin {"none", "bought", "refused"}
         /\ \A j \in 1..NLots : Owed(KeyAt(b, j, f)) => j = i
         /\ Inside(b) /\ FrameOf(b) = f => at[b] = i
<1>0. NLots \in Nat /\ \A j \in 1..NLots : KeyAt(b, j, f) \in Keys
  BY BudgetAssumption, KeysAre
<1>1. \A j \in 1..NLots : Owed(KeyAt(b, j, f)) => row[KeyAt(b, j, f)] \notin {"none", "bought", "refused"}
  <2> SUFFICES ASSUME NEW j \in 1..NLots, Owed(KeyAt(b, j, f))
               PROVE  row[KeyAt(b, j, f)] \notin {"none", "bought", "refused"}
    OBVIOUS
  <2> DEFINE k == KeyAt(b, j, f)
  <2>1. k \in Keys /\ price[k] > 0 /\ price[k] # 0 /\ \A m \in ledger : m[1] # k[1]
    BY <1>0 DEF Owed, JInv, IInv, BudgetTypeOK
  <2> QED BY <2>1 DEF JInv, IInv, Honest, Unpaid, Unsold
<1>2. Passed(f) \subseteq {"none", "bought", "refused"}
  BY DEF Passed
<1>3. \A j \in 1..NLots : Owed(KeyAt(b, j, f)) => ~(i < j) /\ ~(j < i)
  BY <1>1, <1>2 DEF JInv, InOrder
<1>4. ASSUME Inside(b), FrameOf(b) = f PROVE at[b] = i
  <2>1. at[b] \in 1..NLots /\ row[KeyAt(b, at[b], f)] = "running"
    BY <1>4, KeysAre DEF JInv, IInv, Claimed
  <2>2. ~(i < at[b])
    BY <1>1, <1>2, <2>1 DEF JInv, InOrder
  <2>3. ~(at[b] < i)
    BY <1>1, <1>2, <2>1 DEF JInv, InOrder
  <2> QED BY <1>0, <2>1, <2>2, <2>3
<1> QED BY <1>0, <1>1, <1>3, <1>4

LEMMA ChainsAreFinite ==
  /\ IsFiniteSet(Branches \X Frames)
  /\ \A S \in SUBSET (Branches \X Frames) :
       /\ IsFiniteSet(S) /\ Cardinality(S) \in Nat
       /\ \A T \in SUBSET S : Cardinality(T) <= Cardinality(S)
<1>1. IsFiniteSet(Frames)
  <2>1. IsFiniteSet({"fork"} \cup {"top"})
    BY FS_Singleton, FS_AddElement
  <2>2. Frames = {"fork"} \cup {"top"}
    BY DEF Frames
  <2> QED BY <2>1, <2>2
<1>2. IsFiniteSet(Branches \X Frames)
  BY <1>1, BudgetAssumption, FS_Product DEF BudgetAssumption
<1> QED BY <1>2, FS_Subset, FS_CardinalityType

LEMMA RiskIsWalked ==
  JInv => /\ Chains \in SUBSET (Branches \X Frames) /\ AtRisk \in SUBSET Chains
          /\ Cardinality(Chains) \in Nat /\ Cardinality(Chains) >= 1
          /\ Cardinality(AtRisk) \in Nat /\ Cardinality(AtRisk) <= Cardinality(Chains)
<1> HAVE JInv
<1>1. Chains \in SUBSET (Branches \X Frames)
  BY DEF Chains, Frames, JInv, IInv, BudgetTypeOK
<1>2. ASSUME NEW s \in AtRisk PROVE s \in Chains
  <2>0. PICK b \in Branches, f \in Frames : s = <<b, f>>
    BY DEF AtRisk
  <2>1. CASE Spends(b) /\ FrameOf(b) = f
    <3>1. at[b] \in 1..NLots /\ row[KeyAt(b, at[b], f)] = "running"
      BY <2>1, KeysAre DEF JInv, IInv, Claimed, Inside, Spends
    <3> QED BY <2>0, <3>1, KeysAre DEF JInv, IInv, Walked, KeyAt
  <2>2. ASSUME NEW i \in 1..NLots, Owed(KeyAt(b, i, f)) PROVE s \in Chains
    <3>1. KeyAt(b, i, f) \in Keys /\ row[KeyAt(b, i, f)] # "none"
      BY <2>2, KeysAre, OneIsOwed
    <3> QED BY <2>0, <3>1 DEF JInv, IInv, Walked, KeyAt
  <2>3. CASE Forked /\ f = "fork"
    BY <2>0, <2>3 DEF Chains
  <2> QED BY <2>0, <2>1, <2>2, <2>3 DEF AtRisk
<1>3. Chains # {}
  <2>1. PICK b \in Branches : TRUE
    BY BudgetAssumption
  <2>2. Forked => <<b, "fork">> \in Chains
    BY <2>1 DEF Chains
  <2>3. ~Forked => <<b, "top">> \in Chains
    BY <2>1 DEF Chains, JInv, IInv, BudgetTypeOK
  <2> QED BY <2>2, <2>3
<1>4. IsFiniteSet(Chains) /\ Cardinality(Chains) \in Nat /\ Cardinality(Chains) # 0
  BY <1>1, <1>3, ChainsAreFinite, FS_EmptySet
<1>5. AtRisk \in SUBSET Chains /\ AtRisk \in SUBSET (Branches \X Frames)
  BY <1>1, <1>2
<1> QED BY <1>1, <1>4, <1>5, ChainsAreFinite

LEMMA RiskIsWalkedNext ==
  JInv' => /\ (AtRisk \in SUBSET Chains)'
           /\ (Cardinality(Chains) \in Nat)' /\ (Cardinality(Chains) >= 1)'
           /\ (Cardinality(AtRisk) \in Nat)' /\ (Cardinality(AtRisk) <= Cardinality(Chains))'
<1>1. JInv => /\ AtRisk \in SUBSET Chains
              /\ Cardinality(Chains) \in Nat /\ Cardinality(Chains) >= 1
              /\ Cardinality(AtRisk) \in Nat /\ Cardinality(AtRisk) <= Cardinality(Chains)
  BY RiskIsWalked
<1> QED BY <1>1, PTL

LEMMA Times == ASSUME NEW m \in Nat, NEW n \in Nat, NEW k \in Nat, m <= n PROVE m * k <= n * k
  OBVIOUS
LEMMA OneMore == ASSUME NEW m \in Nat, NEW k \in Nat PROVE (m + 1) * k = m * k + k
  OBVIOUS
LEMMA Distributes == ASSUME NEW m \in Nat, NEW n \in Nat, NEW k \in Nat PROVE (m + n) * k = m * k + n * k
  OBVIOUS

LEMMA TotalIsSum ==
  /\ \A S : Total(S) = Sum(price, S)
  /\ Total(ledger)' = Sum(price', ledger')
  BY DEF Total, Sum, MapThenSumSet, MapThenFoldSet

LEMMA TotalIs ==
  ASSUME IInv
  PROVE  /\ Total(ledger) = Cardinality(Coins(price, ledger)) /\ Total(ledger) \in Nat
         /\ Total(Keys) = Cardinality(Coins(price, Keys))
<1>1. price \in Prices /\ ledger \in SUBSET Keys
  BY DEF IInv, BudgetTypeOK, Prices
<1>2. /\ Sum(price, ledger) = Cardinality(Coins(price, ledger))
      /\ Sum(price, Keys) = Cardinality(Coins(price, Keys))
  BY <1>1, SumIsCoins
<1>3. Total(ledger) = Sum(price, ledger) /\ Total(Keys) = Sum(price, Keys)
  BY TotalIsSum
<1> QED BY <1>1, <1>2, <1>3, CoinsAreFinite

-----------------------------------------------------------------------------
(* What is paid outside the ledger changes nothing in it.                  *)
LEMMA SameLedger ==
  ASSUME IInv, IInv', ledger' = ledger, \A k \in ledger : price'[k] = price[k]
  PROVE  Total(ledger)' = Total(ledger)
<1>1. Coins(price', ledger) = Coins(price, ledger)
  BY DEF Coins
<1>2. /\ price \in Prices /\ price' \in Prices /\ ledger \in SUBSET Keys
  BY DEF IInv, BudgetTypeOK, Prices
<1>3. Sum(price', ledger) = Sum(price, ledger)
  BY <1>1, <1>2, SumIsCoins
<1> QED BY <1>3, TotalIsSum

(* The bound holds on while no more chains come to be at risk than come to *)
(* walk.                                                                   *)
LEMMA RiskMoves ==
  ASSUME JInv, JInv', Covered, Total(ledger)' = Total(ledger),
         Cardinality(AtRisk') + Cardinality(Chains) <= Cardinality(AtRisk) + Cardinality(Chains')
  PROVE  Covered'
<1>1. PICK a \in Nat : a = Cardinality(AtRisk)
  BY RiskIsWalked
<1>2. PICK c \in Nat : Cardinality(Chains) = c + 1 /\ Cardinality(Chains) - 1 = c
  <2>1. Cardinality(Chains) - 1 \in Nat
    BY RiskIsWalked
  <2> QED BY <2>1, RiskIsWalked
<1>3. Cardinality(AtRisk') \in Nat /\ Cardinality(Chains') \in Nat /\ Cardinality(Chains') >= 1
  <2>1. (Cardinality(AtRisk) \in Nat /\ Cardinality(Chains) \in Nat /\ Cardinality(Chains) >= 1)'
    BY RiskIsWalkedNext
  <2> QED BY <2>1
<1>4. PICK b \in Nat : b = Cardinality(AtRisk')
  BY <1>3
<1>5. PICK d \in Nat : Cardinality(Chains') = d + 1 /\ Cardinality(Chains') - 1 = d
  <2>1. Cardinality(Chains') - 1 \in Nat
    BY <1>3
  <2> QED BY <1>3, <2>1
<1>6. MaxPrice \in Nat /\ Budget \in Nat
  BY BudgetAssumption
<1>7. b + c <= a + d
  BY <1>1, <1>2, <1>4, <1>5
<1>8. PICK am, bm, cm, dm \in Nat : /\ am = a * MaxPrice /\ bm = b * MaxPrice
                                    /\ cm = c * MaxPrice /\ dm = d * MaxPrice
  BY <1>6
<1>9. bm + cm <= am + dm
  <2>1. (b + c) * MaxPrice <= (a + d) * MaxPrice
    BY <1>6, <1>7, Times
  <2>2. (b + c) * MaxPrice = bm + cm /\ (a + d) * MaxPrice = am + dm
    BY <1>6, <1>8, Distributes
  <2> QED BY <2>1, <2>2
<1>10. PICK t \in Nat : t = Total(ledger)
  BY TotalIs DEF JInv
<1>11. t + am <= Budget + cm
  BY <1>1, <1>2, <1>8, <1>10 DEF Covered
<1>12. t + bm <= Budget + dm
  BY <1>6, <1>8, <1>9, <1>10, <1>11
<1>13. Total(ledger)' + Cardinality(AtRisk') * MaxPrice <= Budget + (Cardinality(Chains') - 1) * MaxPrice
  BY <1>4, <1>5, <1>8, <1>10, <1>12
<1> QED BY <1>13 DEF Covered

(* Fewer chains at risk leave the bound alone.                             *)
LEMMA RiskFalls ==
  ASSUME JInv, JInv', Covered, Total(ledger)' = Total(ledger), AtRisk' \subseteq AtRisk, top' = top
  PROVE  Covered'
<1>1. Chains' = Chains
  BY DEF Chains
<1>2. AtRisk' \in SUBSET AtRisk /\ AtRisk \in SUBSET (Branches \X Frames) /\ AtRisk' \in SUBSET (Branches \X Frames)
  BY DEF AtRisk
<1>3. /\ Cardinality(AtRisk') \in Nat /\ Cardinality(AtRisk) \in Nat /\ Cardinality(AtRisk') <= Cardinality(AtRisk)
  BY <1>2, ChainsAreFinite
<1>4. Cardinality(Chains) \in Nat
  BY RiskIsWalked
<1> QED BY <1>1, <1>3, <1>4, RiskMoves

(* A failure puts the branch it is in at risk for good, and adds the run's *)
(* own chain to those that walk.                                           *)
LEMMA FailIsCovered ==
  ASSUME JInv, JInv', Covered, NEW b \in Branches, due[b] # "rest", Fail(b), ledger' = ledger,
         KeyOf(b) \notin ledger \/ price' = price,
         \A k \in Keys \ {KeyOf(b)} : price'[k] = price[k],
         Spends(b) \/ price' = price
  PROVE  Covered'
<1>0. at' = at /\ top' = {b} /\ top \subseteq {b} /\ \A c \in Branches : due'[c] = "rest"
  BY OneWalks DEF Fail, JInv
<1>1. Total(ledger)' = Total(ledger)
  <2>1. \A k \in ledger : price'[k] = price[k]
    BY DEF JInv, IInv, BudgetTypeOK
  <2> QED BY <2>1, SameLedger DEF JInv
<1>2. ASSUME NEW s \in AtRisk', s # <<b, "fork">> PROVE s \in AtRisk
  <2>1. PICK c \in Branches, f \in Frames : s = <<c, f>>
    BY DEF AtRisk
  <2>2. PICK i \in 1..NLots : Owed(KeyAt(c, i, f))'
    <3>1. ~Spends(c)'
      BY <1>0 DEF Spends
    <3>2. ~(f = "fork" /\ c \in top')
      BY <1>0, <1>2, <2>1
    <3> QED BY <2>1, <3>1, <3>2 DEF AtRisk
  <2>3. price'[KeyAt(c, i, f)] > 0 /\ \A j \in ledger : j[1] # KeyAt(c, i, f)[1]
    BY <2>2 DEF Owed, KeyAt
  <2>4. KeyAt(c, i, f) \in Keys
    BY KeysAre
  <2>5. CASE price'[KeyAt(c, i, f)] = price[KeyAt(c, i, f)]
    <3>1. Owed(KeyAt(c, i, f))
      BY <2>3, <2>5 DEF Owed
    <3> QED BY <2>1, <3>1 DEF AtRisk
  <2>6. CASE price'[KeyAt(c, i, f)] # price[KeyAt(c, i, f)]
    <3>1. KeyAt(c, i, f) = KeyOf(b) /\ Spends(b)
      BY <2>4, <2>6
    <3>2. c = b /\ f = FrameOf(b)
      BY <3>1, KeysAre
    <3> QED BY <2>1, <3>1, <3>2 DEF AtRisk
  <2> QED BY <2>5, <2>6
<1>3. CASE b \in top
  <2>1. top' = top
    BY <1>0, <1>3
  <2>2. <<b, "fork">> \in AtRisk' => <<b, "fork">> \in AtRisk
    <3>1. CASE Forked
      BY <1>3, <3>1 DEF AtRisk, Frames
    <3>2. CASE ~Forked
      <4>1. (AtRisk \in SUBSET Chains)'
        BY RiskIsWalkedNext
      <4>2. <<b, "fork">> \notin Chains'
        BY <3>2 DEF Chains
      <4> QED BY <4>1, <4>2
    <3> QED BY <3>1, <3>2
  <2>3. AtRisk' \subseteq AtRisk
    BY <1>2, <2>2
  <2> QED BY <1>1, <2>1, <2>3, RiskFalls
<1>4. CASE b \notin top
  <2>1. top = {} /\ Forked
    BY <1>0, <1>4 DEF JInv, IInv, BudgetTypeOK
  <2>2. Chains' = Chains \cup {<<b, "top">>} /\ <<b, "top">> \notin Chains
    BY <1>0, <2>1 DEF Chains
  <2>3. AtRisk' \in SUBSET (AtRisk \cup {<<b, "fork">>})
    BY <1>2
  <2>4. /\ Chains \in SUBSET (Branches \X Frames) /\ AtRisk \in SUBSET (Branches \X Frames)
        /\ (AtRisk \cup {<<b, "fork">>}) \in SUBSET (Branches \X Frames)
    BY RiskIsWalked DEF Frames
  <2>5. IsFiniteSet(Chains) /\ IsFiniteSet(AtRisk) /\ Cardinality(AtRisk) \in Nat /\ Cardinality(Chains) \in Nat
    BY <2>4, ChainsAreFinite
  <2>6. Cardinality(Chains') = Cardinality(Chains) + 1
    BY <2>2, <2>5, FS_AddElement
  <2>7. Cardinality(AtRisk \cup {<<b, "fork">>}) <= Cardinality(AtRisk) + 1
    <3>1. CASE <<b, "fork">> \in AtRisk
      <4>1. AtRisk \cup {<<b, "fork">>} = AtRisk
        BY <3>1
      <4> QED BY <2>5, <4>1
    <3>2. CASE <<b, "fork">> \notin AtRisk
      <4>1. Cardinality(AtRisk \cup {<<b, "fork">>}) = Cardinality(AtRisk) + 1
        BY <2>5, <3>2, FS_AddElement
      <4> QED BY <2>5, <4>1
    <3> QED BY <3>1, <3>2
  <2>8. /\ Cardinality(AtRisk') <= Cardinality(AtRisk \cup {<<b, "fork">>})
        /\ Cardinality(AtRisk') \in Nat /\ Cardinality(AtRisk \cup {<<b, "fork">>}) \in Nat
    <3>1. AtRisk' \in SUBSET (Branches \X Frames)
      BY <2>3, <2>4
    <3> QED BY <2>3, <2>4, <3>1, ChainsAreFinite
  <2>9. Cardinality(AtRisk') + Cardinality(Chains) <= Cardinality(AtRisk) + Cardinality(Chains')
    BY <2>5, <2>6, <2>7, <2>8
  <2> QED BY <1>1, <2>9, RiskMoves
<1> QED BY <1>3, <1>4

(* The gate leaves room for one lot, whoever else is on the way.           *)
LEMMA GateIsCovered ==
  ASSUME JInv, JInv', Total(ledger) + MaxPrice <= Budget, Total(ledger)' = Total(ledger) PROVE Covered'
<1>1. (/\ Cardinality(Chains) \in Nat /\ Cardinality(Chains) >= 1
       /\ Cardinality(AtRisk) \in Nat /\ Cardinality(AtRisk) <= Cardinality(Chains))'
  BY RiskIsWalkedNext
<1>2. PICK c \in Nat : Cardinality(Chains') = c + 1 /\ Cardinality(Chains') - 1 = c
  <2>1. Cardinality(Chains') - 1 \in Nat
    BY <1>1
  <2> QED BY <1>1, <2>1
<1>3. MaxPrice \in Nat /\ Budget \in Nat
  BY BudgetAssumption
<1>4. PICK a \in Nat : a = Cardinality(AtRisk') /\ a <= c + 1
  BY <1>1, <1>2
<1>5. PICK m, k \in Nat : m = c * MaxPrice /\ k = a * MaxPrice
  BY <1>3
<1>6. k <= m + MaxPrice
  <2>1. a * MaxPrice <= (c + 1) * MaxPrice
    BY <1>3, <1>4, Times
  <2>2. (c + 1) * MaxPrice = c * MaxPrice + MaxPrice
    BY <1>3, OneMore
  <2> QED BY <1>5, <2>1, <2>2
<1>7. PICK t \in Nat : t = Total(ledger)
  BY TotalIs DEF JInv
<1>8. t + k <= Budget + m
  BY <1>3, <1>6, <1>7
<1>9. Total(ledger)' + Cardinality(AtRisk') * MaxPrice <= Budget + (Cardinality(Chains') - 1) * MaxPrice
  BY <1>2, <1>4, <1>5, <1>7, <1>8
<1> QED BY <1>9 DEF Covered

(* A lot that enters the ledger takes its chain out of risk.               *)
LEMMA RecordIsCovered ==
  ASSUME JInv, JInv', Covered, NEW b \in Branches, Record(b) PROVE Covered'
<1> DEFINE k == KeyAt(b, at[b], FrameOf(b))
           s == <<b, FrameOf(b)>>
<1>0. /\ due[b] = "record" /\ at[b] \in 1..NLots /\ k \in Keys /\ k = KeyOf(b) /\ price[k] > 0
      /\ FrameOf(b) \in Frames
  BY KeyIsAKey, KeysAre DEF Record, Due, JInv, IInv, Claimed, Inside, Honest
<1>1. /\ due' = [due EXCEPT ![b] = "commit"] /\ UNCHANGED <<at, row, price, top>>
      /\ ledger' = ledger \/ (ledger' = ledger \cup {k} /\ \A j \in ledger : j[1] # k[1])
  <2>1. CASE Recorded(k[1])
    BY <1>0, <2>1 DEF Record, Recorded, Report, Goto
  <2>2. CASE ~Recorded(k[1])
    BY <1>0, <2>2 DEF Record, Recorded, Report, Goto
  <2> QED BY <2>1, <2>2
<1>2. s \in AtRisk /\ AtRisk' \subseteq AtRisk
  <2>1. s \in AtRisk
    BY <1>0 DEF AtRisk, Spends
  <2>2. \A c, i, f : Owed(KeyAt(c, i, f))' => Owed(KeyAt(c, i, f))
    BY <1>1 DEF Owed, KeyAt
  <2>3. \A c \in Branches : FrameOf(c)' = FrameOf(c) /\ (Spends(c)' => Spends(c))
    BY <1>1 DEF FrameOf, Spends, JInv, IInv, BudgetTypeOK
  <2> QED BY <1>1, <2>1, <2>2, <2>3 DEF AtRisk
<1>3. CASE ledger' = ledger
  <2>1. Total(ledger)' = Total(ledger)
    BY <1>1, <1>3, SameLedger DEF JInv
  <2> QED BY <1>1, <1>2, <2>1, RiskFalls
<1>4. CASE ledger' = ledger \cup {k} /\ (\A j \in ledger : j[1] # k[1]) /\ k \notin ledger
  <2>1. s \notin AtRisk'
    <3>1. Owed(k)
      BY <1>0, <1>4 DEF Owed
    <3>2. \A i \in 1..NLots : Owed(KeyAt(b, i, FrameOf(b))) => i = at[b]
      BY <1>0, <3>1, OneIsOwed
    <3>3. ASSUME NEW i \in 1..NLots PROVE ~Owed(KeyAt(b, i, FrameOf(b)))'
      <4>1. CASE i = at[b]
        BY <1>4, <4>1 DEF Owed, KeyAt
      <4>2. CASE i # at[b]
        <5>1. ~Owed(KeyAt(b, i, FrameOf(b)))
          BY <3>2, <4>2
        <5>2. ~Owed(KeyAt(b, i, "fork"))' \/ FrameOf(b) # "fork"
          BY <1>1, <1>4, <5>1 DEF Owed, KeyAt
        <5>3. ~Owed(KeyAt(b, i, "top"))' \/ FrameOf(b) # "top"
          BY <1>1, <1>4, <5>1 DEF Owed, KeyAt
        <5>4. FrameOf(b)' = FrameOf(b)
          BY <1>1 DEF FrameOf
        <5> QED BY <5>2, <5>3, <5>4 DEF FrameOf
      <4> QED BY <4>1, <4>2
    <3>4. ~Spends(b)' /\ FrameOf(b)' = FrameOf(b)
      BY <1>1 DEF Spends, FrameOf, JInv, IInv, BudgetTypeOK
    <3>5. ~(FrameOf(b) = "fork" /\ b \in top')
      BY <1>1 DEF FrameOf
    <3>6. \A i \in 1..NLots : ~Owed(KeyAt(b, i, FrameOf(b)))'
      BY <3>3
    <3> QED BY <3>4, <3>5, <3>6 DEF AtRisk, KeyAt
  <2>2. AtRisk \in SUBSET (Branches \X Frames) /\ AtRisk' \in SUBSET (AtRisk \ {s})
    BY <1>2, <2>1 DEF AtRisk
  <2>3. PICK m \in Nat : /\ Cardinality(AtRisk) = m + 1
                         /\ Cardinality(AtRisk') \in Nat /\ Cardinality(AtRisk') <= m
    <3>0. (AtRisk \ {s}) \in SUBSET (Branches \X Frames) /\ AtRisk' \in SUBSET (Branches \X Frames)
      BY <2>2
    <3>1. IsFiniteSet(AtRisk) /\ Cardinality(AtRisk) \in Nat /\ Cardinality(AtRisk \ {s}) \in Nat
      BY <2>2, <3>0, ChainsAreFinite
    <3>2. Cardinality(AtRisk \ {s}) = Cardinality(AtRisk) - 1
      BY <1>2, <3>1, FS_RemoveElement
    <3>3. Cardinality(AtRisk') \in Nat /\ Cardinality(AtRisk') <= Cardinality(AtRisk \ {s})
      BY <2>2, <3>0, ChainsAreFinite
    <3> QED BY <3>1, <3>2, <3>3
  <2>4. price \in Prices /\ ledger \in SUBSET Keys /\ price[k] \in Nat /\ price[k] <= MaxPrice
    BY <1>0, BudgetAssumption DEF JInv, IInv, BudgetTypeOK, Prices
  <2>5. Total(ledger)' = price[k] + Total(ledger)
    <3>1. Sum(price, ledger \cup {k}) = price[k] + Sum(price, ledger)
      <4>1. (ledger \cup {k}) \in SUBSET Keys
        BY <1>0, <2>4
      <4> HIDE DEF k
      <4> QED BY <1>0, <1>4, <2>4, <4>1, CoinsAdd, SumIsCoins
    <3>2. Total(ledger) = Sum(price, ledger) /\ Total(ledger)' = Sum(price', ledger')
      BY TotalIsSum
    <3> QED BY <1>1, <1>4, <3>1, <3>2
  <2>6. MaxPrice \in Nat /\ Budget \in Nat /\ Cardinality(Chains) \in Nat /\ Chains' = Chains
    BY <1>1, BudgetAssumption, RiskIsWalked DEF Chains
  <2>7. PICK t \in Nat : t = Total(ledger)
    BY TotalIs DEF JInv
  <2>8. PICK n, j \in Nat : n = m * MaxPrice /\ j = Cardinality(AtRisk') * MaxPrice
    BY <2>3, <2>6
  <2>9. j <= n /\ Cardinality(AtRisk) * MaxPrice = n + MaxPrice
    BY <2>3, <2>6, <2>8, Times, OneMore
  <2>10. PICK u \in Int : u = Budget + (Cardinality(Chains) - 1) * MaxPrice
    BY <2>6
  <2>11. t + (n + MaxPrice) <= u
    BY <2>7, <2>9, <2>10 DEF Covered
  <2>12. PICK p \in Nat : p = price[k] /\ p <= MaxPrice
    BY <2>4
  <2>13. (p + t) + j <= u
    BY <2>6, <2>9, <2>11, <2>12
  <2>14. Total(ledger)' + Cardinality(AtRisk') * MaxPrice <= Budget + (Cardinality(Chains') - 1) * MaxPrice
    BY <2>5, <2>6, <2>7, <2>8, <2>10, <2>12, <2>13
  <2> QED BY <2>14 DEF Covered
<1> QED BY <1>1, <1>3, <1>4

LEMMA BuyIsCovered ==
  ASSUME JInv, JInv', Covered, NEW b \in Branches, Buy(b) PROVE Covered'
<1> DEFINE k == KeyAt(b, at[b], FrameOf(b))
<1>0. /\ due[b] = "buy" /\ k \in Keys /\ k = KeyOf(b) /\ price[k] = 0 /\ ledger' = ledger
      /\ FrameOf(b) \in Frames
  BY KeyIsAKey, KeysAre DEF Buy, Due, JInv, IInv, Claimed, Inside, Unpaid
<1>1. \A j \in Keys \ {k} : price'[j] = price[j]
  BY <1>0 DEF Buy, JInv, IInv, BudgetTypeOK
<1>2. k \notin ledger
  BY <1>0 DEF JInv, IInv, Honest
<1>3. CASE Fail(b)
  BY <1>0, <1>1, <1>2, <1>3, FailIsCovered DEF Spends
<1>4. CASE ~Fail(b)
  <2>1. UNCHANGED <<top, at>> /\ \A c \in Branches \ {b} : due'[c] = due[c]
    BY <1>4 DEF Buy, Goto, Report, JInv, IInv, BudgetTypeOK
  <2>2. Total(ledger)' = Total(ledger)
    <3>1. \A j \in ledger : price'[j] = price[j]
      BY <1>1, <1>2 DEF JInv, IInv, BudgetTypeOK
    <3> QED BY <1>0, <3>1, SameLedger DEF JInv
  <2>3. <<b, FrameOf(b)>> \in AtRisk
    BY <1>0 DEF AtRisk, Spends
  <2>4. ASSUME NEW s \in AtRisk', s # <<b, FrameOf(b)>> PROVE s \in AtRisk
    <3>1. PICK c \in Branches, f \in Frames : s = <<c, f>>
      BY DEF AtRisk
    <3>2. FrameOf(c)' = FrameOf(c)
      BY <2>1 DEF FrameOf
    <3>3. Spends(c)' /\ FrameOf(c) = f => Spends(c)
      BY <2>1, <2>4, <3>1 DEF Spends
    <3>4. ASSUME NEW i \in 1..NLots, Owed(KeyAt(c, i, f))' PROVE Owed(KeyAt(c, i, f))
      <4>1. KeyAt(c, i, f) \in Keys \ {k}
        BY <2>4, <3>1, KeysAre
      <4> QED BY <1>0, <1>1, <3>4, <4>1 DEF Owed, KeyAt
    <3> QED BY <2>1, <3>1, <3>2, <3>3, <3>4 DEF AtRisk
  <2>5. AtRisk' \subseteq AtRisk
    BY <2>3, <2>4
  <2> QED BY <2>1, <2>2, <2>5, RiskFalls
<1> QED BY <1>3, <1>4

LEMMA CoveredStep ==
  ASSUME JInv, JInv', Covered, [BudgetNext]_budgetVars PROVE Covered'
<1>1. ASSUME UNCHANGED <<price, ledger, top>>, \A c \in Branches : Spends(c)' => Spends(c)
      PROVE  Covered'
  <2>1. \A c \in Branches : FrameOf(c)' = FrameOf(c)
    BY <1>1 DEF FrameOf
  <2>2. \A c, i, f : Owed(KeyAt(c, i, f))' => Owed(KeyAt(c, i, f))
    BY <1>1 DEF Owed, KeyAt
  <2>3. AtRisk' \subseteq AtRisk
    BY <1>1, <2>1, <2>2 DEF AtRisk
  <2> QED BY <1>1, <2>3, RiskFalls, SameLedger DEF JInv
<1>2. ASSUME NEW b \in Branches, due[b] # "rest", Fail(b), UNCHANGED <<price, ledger>> PROVE Covered'
  BY <1>2, FailIsCovered
<1>3. ASSUME NEW b \in Branches, Step(b) PROVE Covered'
  <2>1. CASE Enter(b)
    <3>1. UNCHANGED <<price, ledger>> /\ due[b] = "enter"
      BY <2>1 DEF Enter, Due
    <3>2. CASE Fail(b)
      BY <1>2, <3>1, <3>2
    <3>3. CASE ~Fail(b)
      <4>1. top' = top /\ \A c \in Branches : Spends(c)' => Spends(c)
        BY <2>1, <3>1, <3>3 DEF Enter, MoveOn, Goto, Spends, JInv, IInv, BudgetTypeOK
      <4> QED BY <1>1, <3>1, <4>1
    <3> QED BY <3>2, <3>3
  <2>2. CASE Unresolved(b)
    BY <1>2, <2>2 DEF Unresolved, Due
  <2>3. CASE Gate(b)
    <3>1. UNCHANGED <<price, ledger, top>>
      BY <2>3 DEF Gate
    <3>2. CASE spent_for_run + MaxPrice <= Budget
      BY <3>1, <3>2, GateIsCovered, SameLedger DEF spent_for_run, JInv
    <3>3. CASE Report(b, "exhausted")
      <4>1. \A c \in Branches : Spends(c)' => Spends(c)
        BY <3>3 DEF Report, Goto, Spends, JInv, IInv, BudgetTypeOK
      <4> QED BY <1>1, <3>1, <4>1
    <3> QED BY <2>3, <3>2, <3>3 DEF Gate
  <2>4. CASE CheckAndSet(b)
    <3>1. UNCHANGED <<price, ledger>> /\ due[b] = "guard"
      BY <2>4 DEF CheckAndSet, Due
    <3>2. CASE Fail(b)
      BY <1>2, <3>1, <3>2
    <3>3. CASE ~Fail(b)
      <4>1. top' = top /\ \A c \in Branches : Spends(c)' => Spends(c)
        BY <2>4, <3>1, <3>3 DEF CheckAndSet, Goto, Spends, JInv, IInv, BudgetTypeOK
      <4> QED BY <1>1, <3>1, <4>1
    <3> QED BY <3>2, <3>3
  <2>5. CASE Commit(b)
    <3>1. UNCHANGED <<price, ledger, top>> /\ \A c \in Branches : Spends(c)' => Spends(c)
      BY <2>5 DEF Commit, MoveOn, Goto, Spends, JInv, IInv, BudgetTypeOK
    <3> QED BY <1>1, <3>1
  <2> QED BY <1>3, <2>1, <2>2, <2>3, <2>4, <2>5, BuyIsCovered, RecordIsCovered DEF Step
<1>4. CASE Resume
  <2>1. UNCHANGED <<price, ledger, top>> /\ \A c \in Branches : Spends(c)' => Spends(c)
    BY <1>4 DEF Resume, Spends
  <2> QED BY <1>1, <2>1
<1>5. CASE Complete \/ (\E k \in Keys : GuardExpires(k)) \/ UNCHANGED budgetVars
  <2>1. UNCHANGED <<price, ledger, top>> /\ \A c \in Branches : Spends(c)' => Spends(c)
    BY <1>5 DEF Complete, GuardExpires, budgetVars, Spends
  <2> QED BY <1>1, <2>1
<1> QED BY <1>3, <1>4, <1>5 DEF BudgetNext, Closed

LEMMA CoveredInit == BudgetInit => Covered
<1> SUFFICES ASSUME BudgetInit PROVE Covered
  OBVIOUS
<1>1. (\A b \in Branches : due[b] = "enter") /\ (\A k \in Keys : price[k] = 0) /\ ledger = {}
      /\ (Forked => top = {})
  BY DEF BudgetInit
<1>2. JInv
  BY InvInit, OrderInit DEF JInv
<1>3. AtRisk = {}
  <2>1. \A b \in Branches, i \in 1..NLots, f \in Frames : ~Owed(KeyAt(b, i, f))
    <3>1. \A b \in Branches, i \in 1..NLots, f \in Frames : price[KeyAt(b, i, f)] = 0
      BY <1>1, KeysAre
    <3>2. ~(0 > 0)
      OBVIOUS
    <3> QED BY <3>1, <3>2, Zenon DEF Owed
  <2> QED BY <1>1, <2>1 DEF AtRisk, Spends
<1>4. Total(ledger) = 0
  <2>1. Coins(price, ledger) = {}
    BY <1>1 DEF Coins
  <2> QED BY <2>1, InvInit, TotalIs, FS_EmptySet
<1>5. Cardinality(AtRisk) = 0
  BY <1>3, FS_EmptySet
<1>6. PICK c \in Nat : c = Cardinality(Chains) - 1
  BY <1>2, RiskIsWalked
<1>7. MaxPrice \in Nat /\ Budget \in Nat
  BY BudgetAssumption
<1>8. c * MaxPrice \in Nat
  BY <1>7
<1>9. 0 + 0 * MaxPrice <= Budget + c * MaxPrice
  BY <1>7, <1>8
<1> QED BY <1>4, <1>5, <1>6, <1>9 DEF Covered

-----------------------------------------------------------------------------
(* What was paid and is not in the ledger, by the chain that answers for   *)
(* it: its own if the lot is owed; else the lot is in the ledger under its *)
(* other key, and the branch answers.                                      *)
Unledgered(k) == k \notin ledger /\ price[k] > 0
Answers(k) == <<k[1][1], IF \E j \in ledger : j[1] = k[1] THEN "fork" ELSE k[2]>>

(* A lot that was paid for under both its keys failed in its branch.       *)
LEMMA PaidTwice ==
  ASSUME JInv, NEW b \in Branches, NEW i \in 1..NLots, NEW f \in Frames,
         Unledgered(KeyAt(b, i, f)), \E j \in ledger : j[1] = <<b, i>>
  PROVE  /\ b \in top /\ Forked /\ row[KeyAt(b, i, "fork")] = "running"
         /\ \E g \in Frames \ {f} : KeyAt(b, i, g) \in ledger
<1>1. PICK j \in ledger : j[1] = <<b, i>>
  OBVIOUS
<1>2. PICK g \in Frames : j = KeyAt(b, i, g)
  BY <1>1 DEF KeyAt, Keys, JInv, IInv, BudgetTypeOK
<1>3. g # f
  BY <1>2 DEF Unledgered
<1>4. price[KeyAt(b, i, f)] > 0 /\ price[KeyAt(b, i, g)] > 0
  BY <1>2 DEF Unledgered, JInv, IInv, Honest
<1>5. row[KeyAt(b, i, "top")] # "none" /\ row[KeyAt(b, i, "fork")] # "none"
  <2>1. row[KeyAt(b, i, f)] # "none" /\ row[KeyAt(b, i, g)] # "none"
    BY <1>4, KeysAre DEF JInv, IInv, Unpaid
  <2> QED BY <1>3, <2>1 DEF Frames
<1>6. b \in top /\ Forked /\ row[KeyAt(b, i, "fork")] = "running"
  BY <1>5, WalkedChains DEF JInv, InOrder
<1> QED BY <1>2, <1>3, <1>6

LEMMA AnswersAreAtRisk ==
  ASSUME JInv, NEW k \in Keys, Unledgered(k) PROVE Answers(k) \in AtRisk
<1>1. PICK b \in Branches, i \in 1..NLots, f \in Frames : k = KeyAt(b, i, f)
  BY KeysAre
<1>2. k[1] = <<b, i>> /\ k[1][1] = b /\ k[2] = f
  BY <1>1 DEF KeyAt
<1>3. CASE \E j \in ledger : j[1] = k[1]
  <2>1. b \in top /\ Forked
    BY <1>1, <1>2, <1>3, PaidTwice
  <2> QED BY <1>2, <1>3, <2>1 DEF Answers, AtRisk, Frames
<1>4. CASE ~\E j \in ledger : j[1] = k[1]
  <2>1. Owed(KeyAt(b, i, f))
    BY <1>1, <1>4 DEF Owed, Unledgered
  <2> QED BY <1>2, <1>4, <2>1 DEF Answers, AtRisk
<1> QED BY <1>3, <1>4

LEMMA EachAnswersForOne ==
  ASSUME JInv, NEW k \in Keys, Unledgered(k), NEW m \in Keys, Unledgered(m), Answers(k) = Answers(m)
  PROVE  k = m
<1> DEFINE In(x) == \E j \in ledger : j[1] = x[1]
<1>1. PICK b \in Branches, i \in 1..NLots, f \in Frames : k = KeyAt(b, i, f)
  BY KeysAre
<1>2. PICK c \in Branches, n \in 1..NLots, g \in Frames : m = KeyAt(c, n, g)
  BY KeysAre
<1>3. /\ k[1] = <<b, i>> /\ k[1][1] = b /\ k[2] = f /\ m[1] = <<c, n>> /\ m[1][1] = c /\ m[2] = g
      /\ NLots \in Nat /\ "fork" \in Frames
  BY <1>1, <1>2, BudgetAssumption DEF KeyAt, Frames
<1>4. b = c
  BY <1>3 DEF Answers
<1>5. ASSUME NEW x \in 1..NLots, NEW y \in 1..NLots, x < y, row[KeyAt(b, x, "fork")] \notin {"bought", "refused"}
      PROVE  row[KeyAt(b, y, "fork")] = "none"
  BY <1>3, <1>5 DEF JInv, InOrder, Passed
<1>6. CASE ~In(k) /\ ~In(m)
  <2>1. Owed(KeyAt(b, i, f)) /\ Owed(KeyAt(b, n, g)) /\ f = g
    BY <1>1, <1>2, <1>3, <1>4, <1>6 DEF Owed, Unledgered, Answers
  <2>2. n = i
    BY <2>1, OneIsOwed
  <2> QED BY <1>1, <1>2, <1>4, <2>1, <2>2
<1>7. CASE In(k) /\ In(m)
  <2>1. /\ row[KeyAt(b, i, "fork")] = "running" /\ row[KeyAt(b, n, "fork")] = "running"
        /\ \E h \in Frames \ {f} : KeyAt(b, i, h) \in ledger
        /\ \E h \in Frames \ {g} : KeyAt(b, n, h) \in ledger
    BY <1>1, <1>2, <1>3, <1>4, <1>7, PaidTwice
  <2>2. ~(i < n) /\ ~(n < i)
    BY <1>5, <2>1
  <2>3. i = n
    BY <1>3, <2>2
  <2>4. PICK h \in Frames \ {f}, d \in Frames \ {g} : KeyAt(b, i, h) \in ledger /\ KeyAt(b, i, d) \in ledger
    BY <2>1, <2>3
  <2>5. h = d
    <3>1. KeyAt(b, i, h) = KeyAt(b, i, d)
      BY <2>4 DEF JInv, IInv, Honest, KeyAt
    <3> QED BY <3>1, KeysAre
  <2> QED BY <1>1, <1>2, <1>4, <2>3, <2>4, <2>5 DEF Frames
<1>8. ASSUME NEW x \in 1..NLots, NEW y \in 1..NLots, NEW e \in Frames,
             Unledgered(KeyAt(b, x, e)), \E j \in ledger : j[1] = <<b, x>>,
             Owed(KeyAt(b, y, "fork"))
      PROVE  FALSE
  <2>1. row[KeyAt(b, x, "fork")] = "running"
    BY <1>8, PaidTwice
  <2>2. row[KeyAt(b, y, "fork")] \notin {"none", "bought", "refused"}
    BY <1>3, <1>8, OneIsOwed
  <2>3. ~(x < y) /\ ~(y < x)
    BY <1>5, <2>1, <2>2
  <2>4. x = y
    BY <1>3, <2>3
  <2> QED BY <1>8, <2>4 DEF Owed, KeyAt
<1>9. CASE In(k) /\ ~In(m)
  <2>1. Owed(KeyAt(b, n, "fork"))
    BY <1>2, <1>3, <1>4, <1>9 DEF Owed, Unledgered, Answers
  <2> QED BY <1>1, <1>3, <1>8, <1>9, <2>1
<1>10. CASE ~In(k) /\ In(m)
  <2>1. Owed(KeyAt(b, i, "fork"))
    BY <1>1, <1>3, <1>4, <1>10 DEF Owed, Unledgered, Answers
  <2> QED BY <1>2, <1>3, <1>4, <1>8, <1>10, <2>1
<1> QED BY <1>6, <1>7, <1>9, <1>10

(* What was paid is in the ledger or answered for by a chain at risk, each *)
(* for one lot.                                                            *)
LEMMA OverrunFollows ==
  ASSUME JInv, Covered PROVE OverrunIsBounded
<1> DEFINE U == Coins(price, Keys \ ledger)
           P == AtRisk \X (1..MaxPrice)
           f == [c \in U |-> <<Answers(c[1]), c[2]>>]
<1>1. f \in Injection(U, P)
  <2>1. ASSUME NEW c \in U
        PROVE  c[1] \in Keys /\ Unledgered(c[1]) /\ c[2] \in 1..MaxPrice /\ c = <<c[1], c[2]>>
    BY BudgetAssumption DEF Coins, Unledgered, JInv, IInv, BudgetTypeOK
  <2>2. f \in [U -> P]
    <3>1. ASSUME NEW c \in U PROVE <<Answers(c[1]), c[2]>> \in P
      BY <2>1, AnswersAreAtRisk
    <3> QED BY <3>1
  <2>3. ASSUME NEW c \in U, NEW d \in U, f[c] = f[d] PROVE c = d
    <3>1. Answers(c[1]) = Answers(d[1]) /\ c[2] = d[2]
      BY <2>3
    <3>2. c[1] = d[1]
      BY <2>1, <3>1, EachAnswersForOne
    <3> QED BY <2>1, <3>1, <3>2
  <2> QED BY <2>2, <2>3 DEF Injection, IsInjective
<1>2. /\ IsFiniteSet(P) /\ Cardinality(P) = Cardinality(AtRisk) * MaxPrice
      /\ Cardinality(AtRisk) \in Nat /\ MaxPrice \in Nat
  <2>1. IsFiniteSet(AtRisk) /\ Cardinality(AtRisk) \in Nat
    <3>1. AtRisk \in SUBSET (Branches \X Frames)
      BY DEF AtRisk
    <3> QED BY <3>1, ChainsAreFinite
  <2>2. MaxPrice \in Nat /\ MaxPrice >= 1
    BY BudgetAssumption
  <2>3. IsFiniteSet(1..MaxPrice) /\ Cardinality(1..MaxPrice) = MaxPrice
    BY <2>2, FS_Interval
  <2> QED BY <2>1, <2>2, <2>3, FS_Product
<1>3. Cardinality(U) <= Cardinality(P)
  <2> HIDE DEF U, P, f
  <2> QED BY <1>1, <1>2, FS_Injection
<1>4. ledger \in SUBSET Keys /\ (Keys \ ledger) \in SUBSET Keys
  BY DEF JInv, IInv, BudgetTypeOK
<1>5. /\ IsFiniteSet(U) /\ Cardinality(U) \in Nat
      /\ IsFiniteSet(Coins(price, ledger)) /\ Cardinality(Coins(price, ledger)) \in Nat
  BY <1>4, CoinsAreFinite
<1>6. Coins(price, Keys) = Coins(price, ledger) \cup U
  BY <1>4 DEF Coins
<1>7. Coins(price, ledger) \cap U = {}
  BY DEF Coins
<1> HIDE DEF U, P, f
<1>8. Cardinality(Coins(price, Keys)) = Cardinality(Coins(price, ledger)) + Cardinality(U) - Cardinality({})
  BY <1>5, <1>6, <1>7, FS_Union
<1>9. PICK t \in Nat : t = Total(ledger) /\ t = Cardinality(Coins(price, ledger))
  BY TotalIs DEF JInv
<1>10. PICK u \in Nat : u = Cardinality(U)
  BY <1>5
<1>11. PICK p \in Nat : p = Cardinality(AtRisk) * MaxPrice
  BY <1>2
<1>12. Total(Keys) = t + u
  <2>1. Total(Keys) = t + u - 0
    <3>1. IInv
      BY DEF JInv
    <3> QED BY <1>8, <1>9, <1>10, <3>1, TotalIs, FS_EmptySet, Zenon
  <2> QED BY <2>1
<1>13. PICK w \in Int : w = Budget + (Cardinality(Chains) - 1) * MaxPrice
  BY <1>2, RiskIsWalked, BudgetAssumption
<1>14. u <= p /\ t + p <= w
  BY <1>2, <1>3, <1>9, <1>10, <1>11, <1>13 DEF Covered
<1>15. t + u <= w
  BY <1>14
<1> QED BY <1>12, <1>13, <1>15 DEF OverrunIsBounded

(* No run overspends its budget by more than one lot for every chain but   *)
(* one, whatever the ledger loses, wherever the run dies and however often *)
(* it is executed again; a run without a fork does not overspend.          *)
THEOREM OverrunIsOneLotEach == BudgetSpec => []OverrunIsBounded
<1> DEFINE KInv == JInv /\ Covered
<1>1. BudgetInit => KInv
  BY InvInit, OrderInit, CoveredInit DEF JInv
<1>2. KInv /\ [BudgetNext]_budgetVars => KInv'
  <2> SUFFICES ASSUME KInv, [BudgetNext]_budgetVars PROVE KInv'
    OBVIOUS
  <2>1. JInv'
    BY InvStep, OrderStep, UnsoldStep DEF JInv
  <2>2. Covered'
    BY <2>1, CoveredStep
  <2> QED BY <2>1, <2>2
<1>3. KInv => OverrunIsBounded
  BY OverrunFollows
<1> HIDE DEF KInv
<1> QED BY <1>1, <1>2, <1>3, PTL DEF BudgetSpec
=============================================================================
