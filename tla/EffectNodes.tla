---------------------------- MODULE EffectNodes ----------------------------
(* One step of a run that touches the outside world: the catalogue's effect nodes on top of       *)
(* MarketService, MarketAdapter, the idempotency guard and the policed HTTP transport.            *)
(*                                                                                                *)
(* A node is a program: the sequence of things its execute() does, in the order it does them. The *)
(* order is what matters here, for it decides whether a refused or a crashed attempt has burned   *)
(* the guard's key. A batch runs one program per child, all at once; the other nodes run one.     *)
(* A scenario (Starts) fixes the node, its inputs and how often the world may interfere.          *)
EXTENDS Integers, Sequences

CONSTANTS
    Kids,        \* children of a batch; a node that is not a batch is the child Self
    Self,
    Starts,      \* scenarios: [kind, owner, account, form, ceiling, url, crashes, losses, shifts]
    MaxAttempts, \* BaseRequestNode.max_attempts
    MaxPages,    \* get_my_lots._MAX_PAGES
    Answers,     \* the DNS answers the world may give: sequences of addresses
    Allowed      \* the allow-list, as written by the operator: set of [host, port]

Kinds == {"bump", "reprice", "thread", "relist", "dynamic", "batch", "buy", "reply",
          "search", "lots", "status", "pending", "request"}

ASSUME EffectNodesAssumption ==
    /\ Self \in Kids
    /\ MaxAttempts \in Nat \ {0} /\ MaxPages \in Nat \ {0}
    /\ \A s \in Starts : s.kind \in Kinds /\ s.crashes \in Nat /\ s.losses \in Nat

VARIABLES
    step,     \* the scenario
    pc,       \* "idle" (between attempts), "running", "completed", "failed"
    replay,   \* RunContext.step_replay: the step's row was there before this attempt
    kid,      \* [at: index in the program, mode, note: wire answer or report, turn]
    keys,     \* children whose guard key Redis holds
    took,     \* how often each child's effect has happened
    pin,      \* the price read by purchasing_check
    market,   \* [price, dns]: the lot's price now, what the resolver would answer now
    target,   \* ResolvedTarget.ip
    reached,  \* addresses a request was sent to
    excluded, \* the pool's account was excluded
    left      \* what the world may still do: [tries, losses, shifts]
vars == <<step, pc, replay, kid, keys, took, pin, market, target, reached, excluded, left>>

None == "none"
Nowhere == [is |-> None, wraps |-> None]
Kind == step.kind
Dry == Kind = "buy" /\ step.form = "dry"
\* A pinned account whose token the master key no longer opens.
Sealed == step.owner = "pinned" /\ step.account = "sealed"
Live == IF Kind = "batch" THEN Kids ELSE {Self}
Ended == {"completed", "failed"}

-----------------------------------------------------------------------------
(* The programs, one per node. *)

Bump        == <<"guard", "account", "send">>
Reprice     == <<"target", "guard", "account", "send">>
BumpThread  == <<"guard", "owner", "account", "send">>
Relist      == <<"owner", "account", "guard", "send">>
DynamicCall == <<"guard", "client", "method", "send">>
Batch       == <<"client", "inputs", "guard", "send">>
FastBuy     == <<"guard", "account", "check", "send">>
AutoReply   == <<"guard", "skip">>
Search      == <<"inputs", "account", "send">>
GetMyLots   == <<"owner", "account", "send">>
BatchStatus == <<"client", "send", "send", "send">>
ListPending == <<"client", "send">>
Request     == <<"resolve", "send">>

Program ==
    CASE Kind = "bump" -> Bump [] Kind = "reprice" -> Reprice [] Kind = "thread" -> BumpThread
      [] Kind = "relist" -> Relist [] Kind = "dynamic" -> DynamicCall [] Kind = "batch" -> Batch
      [] Kind = "buy" -> FastBuy [] Kind = "reply" -> AutoReply [] Kind = "search" -> Search
      [] Kind = "lots" -> GetMyLots [] Kind = "status" -> BatchStatus
      [] Kind = "pending" -> ListPending [] Kind = "request" -> Request

\* Nodes on MarketService (which decrypts the token itself, after the guard); the others hold a
\* raw client, whose token was decrypted when it was opened.
OnService == {"bump", "reprice", "thread", "relist", "buy", "search", "lots"}
Reads     == {"search", "lots", "status", "pending"}
\* Mutant: relist asks Redis only.
DurableBuyOnly == {"buy"}

\* The nodes that also trust the step's own row, which no Redis flush forgets.
Durable   == {"relist", "buy"}

-----------------------------------------------------------------------------
(* MarketAdapter: what a wire answer becomes on its way to the node. *)

\* _declining: a refusal of this lot, unless it is about us.
Declining(wire) == IF wire \in {"forbidden", "other"} THEN "lot_unavailable" ELSE wire

\* _resolve_account: the pinned account, or the pool's token id when that is an account's.
ResolveAccount(wire) == step.owner = "pinned" \/ wire = "auth"

\* _call_with: the closing map from pylzt's errors to the domain's.
CallWith(wire) ==
    CASE wire \in {"auth", "auth_foreign"} ->
              IF ResolveAccount(wire) THEN "token_invalid" ELSE "market_401"
      [] wire = "rate" -> "market_429"
      [] wire = "transport" -> "market_5xx"
      [] wire \in {"forbidden", "other"} -> "market_502"
      [] OTHER -> wire

\* fast_buy: the buy call's answer; a 200 without a price is worth what we pinned.
Bought(wire) ==
    CASE wire = "timeout" -> "outcome_unknown"
      [] wire = "bare" -> IF pin = 0 THEN "unparseable" ELSE "ok"
      [] OTHER -> CallWith(Declining(wire))

\* What the node sees of the wire: the adapter's error, or the client's own.
Seen(wire) == IF Kind = "buy" THEN Bought(wire)
              ELSE IF Kind \in OnService THEN CallWith(wire) ELSE wire

Wire ==
    CASE Kind = "request" -> {"ok", "never", "later", "timeout", "redirect"}
      [] Kind = "batch"   -> {"ok", "forbidden", "timeout", "invalid", "bug"}
      [] Kind = "buy"     -> {"ok", "bare", "auth", "transport", "forbidden", "timeout"}
      [] Kind = "lots"    -> {"ok", "more", "auth"}
      [] Kind \in Reads   -> {"ok", "auth", "transport"}
      [] OTHER            -> {"ok", "auth", "auth_foreign", "rate", "other", "timeout"}

\* Whether the effect happened: for certain, not at all, or nobody on this side knows.
Takes(wire) == CASE wire \in {"ok", "bare", "invalid"} -> {1}
                 [] wire \in {"timeout", "transport", "later"} -> {0, 1}
                 [] OTHER -> {0}

-----------------------------------------------------------------------------
(* EgressPolicy. An address is [is, wraps]: its class, and the class of the v4 address it carries.*)

CheckHost(url) == /\ url.scheme = "https"
                  /\ \E entry \in Allowed : entry.host = url.host /\ entry.port = url.port

\* Mutant: a v4-mapped address is judged by its wrapper.
UnwrapNot(ip) == ip.is

Unwrap(ip) == IF ip.wraps # None THEN ip.wraps ELSE ip.is
Classify(ip) == Unwrap(ip) # "public"

\* resolve_and_check: every answer is clean, and the first one is where the request will go.
Cleared(answers) == answers # <<>> /\ \A i \in DOMAIN answers : ~Classify(answers[i])

\* The answers are sequences, and the resolver starts with one that passes.
ASSUME AnswersAssumption ==
    /\ \A a \in Answers : a \in Seq({a[i] : i \in DOMAIN a})
    /\ \E a \in Answers : Cleared(a)

\* PolicedHttpTransport._send connects to the address that was checked.
Connect == target

-----------------------------------------------------------------------------
Fresh == [c \in Kids |-> [at |-> 1, mode |-> "next", note |-> None, turn |-> 1]]

Init ==
    /\ step \in Starts
    /\ pc = "idle" /\ replay = FALSE
    /\ kid = Fresh
    /\ keys = {}
    /\ took = [c \in Kids |-> 0]
    /\ pin = 0
    /\ market = [price |-> 1, dns |-> CHOOSE a \in Answers : Cleared(a)]
    /\ target = Nowhere /\ reached = {}
    /\ excluded = FALSE
    /\ left = [tries |-> step.crashes + 1, losses |-> step.losses, shifts |-> step.shifts]

\* The runtime claims the step's row and calls execute(); a later attempt finds the row there.
Begin ==
    /\ pc = "idle" /\ left.tries > 0
    /\ pc' = "running"
    /\ replay' = (left.tries <= step.crashes)
    /\ kid' = Fresh /\ pin' = 0 /\ target' = Nowhere
    /\ left' = [left EXCEPT !.tries = @ - 1]
    /\ UNCHANGED <<step, keys, took, market, reached, excluded>>

At(c, stage) == /\ pc = "running" /\ c \in Live
                /\ kid[c].mode = "next" /\ Program[kid[c].at] = stage
Advance(c) == kid' = [kid EXCEPT ![c].at = @ + 1]
Raise(c, why) == kid' = [kid EXCEPT ![c].mode = "raised", ![c].note = why]
Return(c, what) == kid' = [kid EXCEPT ![c].mode = "done", ![c].note = what]

\* MarketService.*_via_pool: a token the pool lent and the marketplace refused is excluded.
ViaPool(seen) == excluded' = (excluded \/ (Kind \in OnService /\ step.owner = "pool"
                                           /\ seen = "token_invalid"))

Quiet == UNCHANGED <<step, pc, replay, took, market, reached, left>>
Plain == Quiet /\ UNCHANGED <<keys, pin, target, excluded>>

-----------------------------------------------------------------------------
(* The stages. *)

\* IdempotencyGuard.check_and_set, SET NX: one indivisible step at Redis.
First(c) == c \notin keys

\* What a node answers when its key, or its row, says that it was here before.
Repeated(c) ==
    CASE Kind = "batch"   -> Return(c, "already_submitted")
      [] Kind \in Durable -> IF Kind = "buy" /\ step.form = "dry" THEN Return(c, "deduplicated")
                             ELSE Raise(c, "already_attempted")
      [] OTHER            -> Return(c, "deduplicated")

Guard(c) ==
    /\ At(c, "guard")
    /\ keys' = keys \union {c}
    /\ IF First(c) /\ ~(Kind \in Durable /\ replay) THEN Advance(c) ELSE Repeated(c)
    /\ Quiet /\ UNCHANGED <<pin, target, excluded>>

\* A node bound to an account refuses to run without one; there is no pool to fall back on.
Owner(c) ==
    /\ At(c, "owner")
    /\ IF step.owner # "pinned" THEN Raise(c, "no_available_account") ELSE Advance(c)
    /\ Plain

\* load_account: only a pinned account is loaded.
LoadAccount(c) ==
    /\ At(c, "account")
    /\ IF step.owner = "pinned" /\ step.account = "gone" THEN Raise(c, "account_not_found")
       ELSE Advance(c)
    /\ Plain

\* get_client: the pinned client is loaded and decrypted here, the pooled one is leased.
OpenClient(c) ==
    /\ At(c, "client")
    /\ IF step.owner = "pinned" /\ step.account # "ok" THEN Raise(c, "no_client") ELSE Advance(c)
    /\ Plain

\* _run_child up to its guard: the mapping, the literals and the ports' own validators.
Inputs(c) ==
    /\ At(c, "inputs")
    /\ CASE step.form = "unmapped" /\ c = Self -> Return(c, "no_mapping")
         [] step.form \in {"ref", "fraction", "not_json"} /\ c = Self -> Raise(c, "bad_input")
         [] OTHER -> Advance(c)
    /\ Plain

\* _target_price: a price, or a discount on a known price, or a refusal.
TargetPrice(c) ==
    /\ At(c, "target")
    /\ IF step.form = "half_discount" THEN Raise(c, "needs_price") ELSE Advance(c)
    /\ Plain

\* _resolve_bound_method and _resolve_kwargs: facade, method and signature.
ResolveMethod(c) ==
    /\ At(c, "method")
    /\ IF step.form \in {"unknown_method", "arg_mismatch"} THEN Raise(c, step.form) ELSE Advance(c)
    /\ Plain

\* AutoReplyNode does nothing: the forum has no method to do it with.
Skip(c) == At(c, "skip") /\ Return(c, "facade_gap") /\ Plain

\* _checked_price: the lot's price now, or the lot is passed over. A dead token is about us.
CheckPrice(c) ==
    /\ At(c, "check")
    /\ \/ (step.ceiling = 0 \/ Dry) /\ Advance(c) /\ UNCHANGED <<pin, excluded>>
       \/ /\ step.ceiling # 0 /\ ~Dry /\ ~Sealed
          /\ \/ market.price <= step.ceiling /\ pin' = market.price
                /\ Advance(c) /\ UNCHANGED excluded
             \/ Return(c, "unavailable") /\ UNCHANGED <<pin, excluded>>
             \/ Raise(c, CallWith("auth")) /\ ViaPool(CallWith("auth")) /\ UNCHANGED pin
       \/ /\ step.ceiling # 0 /\ ~Dry /\ Sealed
          /\ Raise(c, "undecryptable") /\ UNCHANGED <<pin, excluded>>
    /\ Quiet /\ UNCHANGED <<keys, target>>

\* EgressPolicy.resolve_and_check, asked anew for every attempt.
Resolve(c) ==
    /\ At(c, "resolve")
    /\ IF CheckHost(step.url) /\ Cleared(market.dns)
       THEN Advance(c) /\ target' = Head(market.dns)
       ELSE Raise(c, "egress_blocked") /\ UNCHANGED target
    /\ Quiet /\ UNCHANGED <<keys, pin, excluded>>

\* The marketplace's own guard on purchasing_fast_buy(price=...): a stale price is refused.
Accepted == Kind = "buy" => pin \in {0, market.price}

\* The request leaves. A mis-wired call ("bug") fails before it does; a dry run never calls.
Send(c) ==
    /\ At(c, "send")
    /\ \/ /\ Dry
          /\ Return(c, "dry_run") /\ UNCHANGED <<took, reached>>
       \/ /\ ~Dry /\ Kind \in OnService /\ Sealed
          /\ Raise(c, "undecryptable") /\ UNCHANGED <<took, reached>>
       \/ /\ ~Dry /\ ~(Kind \in OnService /\ Sealed)
          /\ \E wire \in Wire : \E n \in Takes(wire) :
               /\ n = 1 => Accepted
               /\ kid' = [kid EXCEPT ![c].mode = "waiting", ![c].note = wire]
               /\ took' = [took EXCEPT ![c] = IF Kind \in Reads THEN 0 ELSE @ + n]
               /\ reached' = IF Kind = "request" THEN reached \union {Connect} ELSE reached
    /\ UNCHANGED <<step, pc, replay, market, left, keys, pin, target, excluded>>

-----------------------------------------------------------------------------
(* The answer arrives. *)

Waiting(c) == pc = "running" /\ kid[c].mode = "waiting"

Done(c) == IF kid[c].at = Len(Program) THEN Return(c, "ok")
           ELSE kid' = [kid EXCEPT ![c].at = @ + 1, ![c].mode = "next"]

\* One wrapper node: the result, or the error that fails the run; an unavailable lot is a result.
Answer(c) ==
    /\ Waiting(c) /\ Kind \notin {"batch", "request", "lots"}
    /\ LET seen == Seen(kid[c].note) IN
         /\ CASE seen = "ok" -> Done(c)
              [] seen = "lot_unavailable" -> Return(c, "unavailable")
              [] OTHER -> Raise(c, seen)
         /\ ViaPool(seen)
    /\ Quiet /\ UNCHANGED <<keys, pin, target>>

\* A child of a batch: the marketplace's failures are data, our own bugs are raised.
ChildAnswer(c) ==
    /\ Waiting(c) /\ Kind = "batch"
    /\ IF kid[c].note = "bug" THEN Raise(c, "bug") ELSE Return(c, kid[c].note)
    /\ Plain

\* Page after page, until the marketplace says there is no next one or the cap is passed.
TurnPage(c) ==
    /\ Waiting(c) /\ Kind = "lots"
    /\ LET seen == Seen(kid[c].note) IN
         CASE seen = "ok" -> Return(c, "ok")
           [] seen = "more" /\ kid[c].turn < MaxPages ->
                 kid' = [kid EXCEPT ![c].mode = "next", ![c].turn = @ + 1]
           [] seen = "more" /\ kid[c].turn = MaxPages -> Raise(c, "did_not_terminate")
           [] OTHER -> Raise(c, seen)
    /\ Plain

\* Whether BaseRequestNode tries again: "later, not never", and not for ever.
TriesAgain(c) == kid[c].note \in {"later", "timeout"} /\ kid[c].turn < MaxAttempts

Respond(c) ==
    /\ Waiting(c) /\ Kind = "request"
    /\ CASE TriesAgain(c) ->
              kid' = [kid EXCEPT ![c].mode = "next", ![c].at = 1, ![c].turn = @ + 1]
         [] kid[c].note = "redirect" -> Raise(c, "egress_blocked")
         [] kid[c].note = "timeout" /\ ~TriesAgain(c) -> Raise(c, "request_failed")
         [] OTHER -> Return(c, "parsed")
    /\ Plain

-----------------------------------------------------------------------------
(* The end of an attempt, and the world. *)

Settled(c) == kid[c].mode \in {"done", "raised"}
\* Mutant: the first error unwinds the gather.
GatheredOnError == (\A c \in Live : Settled(c)) \/ (\E c \in Live : kid[c].mode = "raised")

\* asyncio.gather(return_exceptions=True): nothing is decided before every child has settled.
Gathered == \A c \in Live : Settled(c)

Settle ==
    /\ pc = "running" /\ Gathered
    /\ pc' = IF \E c \in Live : kid[c].mode = "raised" THEN "failed" ELSE "completed"
    /\ UNCHANGED <<step, replay, kid, keys, took, pin, market, target, reached, excluded, left>>

\* wait_for(execute, node.timeout_s): the calls in flight are cancelled and the run fails.
NodeTimeout ==
    /\ pc = "running" /\ step.timed
    /\ pc' = "failed"
    /\ kid' = [c \in Kids |-> IF Settled(c) THEN kid[c] ELSE [kid[c] EXCEPT !.mode = "cut"]]
    /\ UNCHANGED <<step, replay, keys, took, pin, market, target, reached, excluded, left>>

\* The worker dies, or its job is cancelled; the run is driven again.
Crash ==
    /\ pc = "running" /\ left.tries > 0
    /\ pc' = "idle"
    /\ UNCHANGED <<step, replay, kid, keys, took, pin, market, target, reached, excluded, left>>

\* A key's hour is over, or Redis is flushed.
LoseKeys ==
    /\ left.losses > 0 /\ keys # {} /\ pc \notin Ended
    /\ keys' = {}
    /\ left' = [left EXCEPT !.losses = @ - 1]
    /\ UNCHANGED <<step, pc, replay, kid, took, pin, market, target, reached, excluded>>

\* The seller reprices the lot, or the name is pointed elsewhere.
WorldShifts ==
    /\ left.shifts > 0 /\ pc = "running"
    /\ \/ Kind = "buy" /\ \E p \in 1..3 : market' = [market EXCEPT !.price = p]
       \/ Kind = "request" /\ \E a \in Answers : market' = [market EXCEPT !.dns = a]
    /\ left' = [left EXCEPT !.shifts = @ - 1]
    /\ UNCHANGED <<step, pc, replay, kid, keys, took, pin, target, reached, excluded>>

Stage(c) ==
    \/ Guard(c) \/ Owner(c) \/ LoadAccount(c) \/ OpenClient(c) \/ Inputs(c) \/ TargetPrice(c)
    \/ ResolveMethod(c) \/ Skip(c) \/ CheckPrice(c) \/ Resolve(c) \/ Send(c)
Receive(c) == Answer(c) \/ ChildAnswer(c) \/ TurnPage(c) \/ Respond(c)

Over == pc \in Ended /\ UNCHANGED vars

Next ==
    \/ Begin \/ Settle \/ NodeTimeout \/ Crash \/ LoseKeys \/ WorldShifts \/ Over
    \/ \E c \in Kids : Stage(c) \/ Receive(c)

Spec == Init /\ [][Next]_vars

-----------------------------------------------------------------------------
(* Properties. *)

TypeOK ==
    /\ Kind \in OnService \union Reads \union {"dynamic", "batch", "reply", "request"}
    /\ pc \in {"idle", "running"} \union Ended
    /\ replay \in BOOLEAN /\ excluded \in BOOLEAN
    /\ \A c \in Kids : /\ kid[c].at \in 1..4 /\ kid[c].turn \in 1..MaxAttempts + MaxPages
                       /\ kid[c].mode \in {"next", "waiting", "done", "raised", "cut"}
    /\ keys \subseteq Kids
    /\ took \in [Kids -> Nat]
    /\ pin \in Nat

\* What a step does to the marketplace it does once for as long as Redis keeps its key, whatever
\* crashes; publishing a lot and buying one are done once even if Redis forgets (relist.py:117,
\* fast_buy.py:266, batch_submit.py:150, reprice.py:102).
EffectsAreNotRepeated ==
    Kind \notin {"request", "status"} =>
        \A c \in Kids : took[c] <= IF Kind \in {"relist", "buy"} THEN 1
                                   ELSE 1 + step.losses - left.losses

\* An attempt that ends by itself leaves no sibling in the middle of its paid call, on a client
\* that is being closed (batch_submit.py:199).
NoCallOutlivesItsStep ==
    pc \in Ended /\ ~step.timed => \A c \in Live : kid[c].mode # "waiting"

\* Whatever the resolver answers and when, a request goes to public addresses only (policy.py:24):
\* an IPv6 address that carries a v4 one leads there, whatever it is itself.
InwardIsNeverReached ==
    \A ip \in reached : ip.wraps = "public" \/ (ip.wraps = None /\ ip.is = "public")

=============================================================================
