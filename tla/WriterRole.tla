----------------------------- MODULE WriterRole -----------------------------
(***************************************************************************)
(* Which node is the writer: the lease store, each node's WriterController *)
(* (crates/bluedb-ha) and the server state that follows it, AppState's     *)
(* promote, demote, ha_tick and attach_reader (crates/bluedb-server).      *)
(*                                                                         *)
(* A node runs three tasks that share its controller: the HA loop, one     *)
(* /admin request and, while a promotion is under way, its lease renewer.  *)
(* No lock is held across an await, so every await is a step boundary.  A  *)
(* call to the lease store takes three steps: `now` (and the epoch) is     *)
(* read, the store runs its one atomic statement, the reply is applied.    *)
(* Between them the other tasks run and time passes; a reply may be lost.  *)
(*                                                                         *)
(* Time is relative.  `left` is expires_at_millis - now for a lease or a   *)
(* controller, `age` is how long ago a waiting call read the clock.  All   *)
(* nodes share one clock.  SlateDB is external: opening a writer Db bumps  *)
(* its writer_epoch, which fences every handle opened before.              *)
(***************************************************************************)
EXTENDS Integers, FiniteSets

CONSTANTS
    Node,
    Operated,     \* nodes an operator may send /admin/promote and /admin/demote
    NoNode,       \* "no holder"
    Ttl,          \* lease lifetime
    SafetyMargin, \* how long before expiry a node self-fences
    MaxDelay,     \* bound: the longest a call waits for the store
    MaxEpoch      \* bound: fencing tokens issued

ASSUME RoleAssumption ==
    /\ Ttl \in Nat /\ SafetyMargin \in Nat /\ MaxDelay \in Nat /\ MaxEpoch \in Nat
    /\ SafetyMargin < Ttl
    /\ Operated \subseteq Node /\ NoNode \notin Node

VARIABLES
    lease,        \* the store's row: holder, epoch, left
    ctl,          \* WriterController state: role, epoch, left
    db,           \* the bound handle: none, reader, writer or fenced (writer)
    writer_bound, \* the flag of the same name
    promotion_inflight,
    opened,       \* a promotion's writer Db that is not bound yet
    created,      \* whether the database exists in the object store
    task,         \* where each task of each node is
    operated,     \* whether an operator has used /admin (history)
    handed_back   \* whether a release was ever sent (history)

server == <<db, writer_bound, promotion_inflight, opened, created>>
history == <<operated, handed_back>>
vars == <<lease, ctl, server, task, history>>

Tasks == {"ha", "admin", "renewer"}

-----------------------------------------------------------------------------
(* The lease store: one atomic statement per operation.  The row outlives  *)
(* a release, so that its epoch never goes back.                           *)

Released == -MaxDelay

\* expires_at_millis > now, for the `now` the caller read `age` ago.
LiveAt(age) == lease.left + age > 0

\* Mutant: the margin is added to the lifetime.
NewLeftWithMargin(age) == Ttl + SafetyMargin - age

NewLeft(age) == Ttl - age

Grant(n, epoch, age) == [holder |-> n, epoch |-> epoch, left |-> NewLeft(age)]

\* Mutant: re-acquiring an expired lease of one's own keeps the epoch, and so
\* does taking over another's.
NextEpochSame(n, age) == IF lease.epoch = 0 THEN 1 ELSE lease.epoch

NextEpoch(n, age) ==
    IF lease.holder = n /\ LiveAt(age) THEN lease.epoch ELSE lease.epoch + 1

Acquires(n, age) == lease.holder = n \/ ~LiveAt(age)

try_acquire(n, age) ==
    IF Acquires(n, age) THEN Grant(n, NextEpoch(n, age), age) ELSE lease

\* Mutant: a renewal succeeds whoever holds the lease now.
RenewsAnyway(n, epoch, age) == TRUE

Renews(n, epoch, age) == lease.holder = n /\ lease.epoch = epoch /\ LiveAt(age)

renew(n, epoch, age) ==
    IF Renews(n, epoch, age) THEN Grant(n, epoch, age) ELSE lease

\* Mutant: a release deletes the row and its epoch with it.
release_forgets(n, epoch) ==
    IF lease.holder = n /\ lease.epoch = epoch
    THEN [holder |-> NoNode, epoch |-> 0, left |-> Released] ELSE lease

release(n, epoch) ==
    IF lease.holder = n /\ lease.epoch = epoch
    THEN [lease EXCEPT !.left = Released] ELSE lease

-----------------------------------------------------------------------------
(* The controller.                                                         *)

is_active(n) == ctl[n].role = "Active" /\ ctl[n].left > SafetyMargin

is_writer(n) == is_active(n) /\ writer_bound[n]

Passive == [role |-> "Passive", epoch |-> 0, left |-> 0]

set_active(n, reply) ==
    ctl' = [ctl EXCEPT ![n] = [role |-> "Active", epoch |-> reply.epoch,
                               left |-> reply.left]]

set_passive(n) == ctl' = [ctl EXCEPT ![n] = Passive]

-----------------------------------------------------------------------------
(* Tasks.                                                                  *)

NoReply == [kind |-> "waiting", epoch |-> 0, left |-> 0]

\* A task at a step of `job`; in a store call it also holds what it read.
At(step, job) == [at |-> step, job |-> job, age |-> 0, epoch |-> 0, reply |-> NoReply]

Call(op, job, epoch) == [At(op, job) EXCEPT !.epoch = epoch]

Idle == At("idle", "none")

Waiting(k) == k.at \in {"acquire", "renew", "release"} /\ k.reply.kind = "waiting"

Move(n, t, k) == task' = [task EXCEPT ![n][t] = k]

Replied(k, kind, epoch, left) ==
    [At(k.at, k.job) EXCEPT !.reply = [kind |-> kind, epoch |-> epoch, left |-> left]]

Failed(k) == Replied(k, "error", 0, 0)

\* What the store does with call k of node n, and whether it says yes.
Row(n, k) ==
    CASE k.at = "acquire" -> try_acquire(n, k.age)
      [] k.at = "renew" -> renew(n, k.epoch, k.age)
      [] k.at = "release" -> release(n, k.epoch)

Granted(n, k) ==
    CASE k.at = "acquire" -> Acquires(n, k.age)
      [] k.at = "renew" -> Renews(n, k.epoch, k.age)
      [] k.at = "release" -> FALSE

\* The store executes a waiting call, or the call fails: before the store saw
\* it, or on the way back.
Serve(n, t) ==
    LET k == task[n][t]
        row == Row(n, k)
    IN  /\ Waiting(k)
        /\ \/ /\ row.epoch <= MaxEpoch
              /\ lease' = row
              /\ \/ Move(n, t, IF Granted(n, k) THEN Replied(k, "granted", row.epoch, row.left)
                               ELSE Replied(k, "denied", 0, 0))
                 \/ Move(n, t, Failed(k))
           \/ /\ lease' = lease
              /\ Move(n, t, Failed(k))
        /\ UNCHANGED <<ctl, server, history>>

\* attach_reader_if_unbound, as the next step of task t.
ReaderIfUnbound(n) == IF db[n] = "none" THEN At("detach", "none") ELSE Idle

\* The promotion that task t runs returns: its renewer is aborted and its
\* permit dropped, and on failure the caller may fall back to a reader.
PromoteReturns(n, t, ok) ==
    /\ promotion_inflight' = [promotion_inflight EXCEPT ![n] = FALSE]
    /\ opened' = [opened EXCEPT ![n] = "none"]
    /\ task' = [task EXCEPT
                  ![n]["renewer"] = Idle,
                  ![n][t] = IF ok THEN Idle
                            ELSE CASE task[n][t].job = "boot" -> At("detach", "none")
                                   [] task[n][t].job = "tick" -> ReaderIfUnbound(n)
                                   [] task[n][t].job = "admin" -> Idle]

\* AppState::promote up to its first await, the call to try_acquire.
BeginPromote(n, t, job) ==
    IF promotion_inflight[n]
    THEN /\ Move(n, t, IF job = "tick" THEN ReaderIfUnbound(n) ELSE Idle)
         /\ UNCHANGED promotion_inflight
    ELSE /\ promotion_inflight' = [promotion_inflight EXCEPT ![n] = TRUE]
         /\ Move(n, t, Call("acquire", job, 0))

\* WriterController::demote up to its first await; Passive has nothing to
\* release.
BeginRelease(n, t, job) ==
    IF ctl[n].role = "Active"
    THEN Move(n, t, Call("release", job, ctl[n].epoch)) /\ handed_back' = TRUE
    ELSE /\ Move(n, t, Replied(At("release", job), "denied", 0, 0))
         /\ UNCHANGED handed_back

-----------------------------------------------------------------------------
(* The HA loop.                                                            *)

\* main: become writer unless asked to start as a replica.
bootstrap(n) ==
    /\ task[n]["ha"].at = "boot"
    /\ \/ BeginPromote(n, "ha", "boot")
       \/ Move(n, "ha", At("detach", "none")) /\ UNCHANGED promotion_inflight
    /\ UNCHANGED <<lease, ctl, db, writer_bound, opened, created, history>>

\* Mutant: an unbound lease is renewed instead of released.
ha_tick_keeps_unbound(n) ==
    /\ task[n]["ha"].at = "idle"
    /\ IF is_active(n)
       THEN /\ Move(n, "ha", Call("renew", IF writer_bound[n] THEN "tick" ELSE "quiet",
                                  ctl[n].epoch))
            /\ UNCHANGED promotion_inflight
       ELSE BeginPromote(n, "ha", "tick")
    /\ UNCHANGED <<lease, ctl, db, writer_bound, opened, created, history>>

ha_tick(n) ==
    /\ task[n]["ha"].at = "idle"
    /\ \/ ~is_active(n) /\ BeginPromote(n, "ha", "tick") /\ UNCHANGED handed_back
       \/ /\ is_active(n) /\ writer_bound[n]
          /\ Move(n, "ha", Call("renew", "tick", ctl[n].epoch))
          /\ UNCHANGED <<promotion_inflight, handed_back>>
       \/ /\ is_active(n) /\ ~writer_bound[n] /\ promotion_inflight[n]
          /\ Move(n, "ha", Call("renew", "quiet", ctl[n].epoch))
          /\ UNCHANGED <<promotion_inflight, handed_back>>
       \/ /\ is_active(n) /\ ~writer_bound[n] /\ ~promotion_inflight[n]
          /\ BeginRelease(n, "ha", "unbound")
          /\ UNCHANGED promotion_inflight
    /\ UNCHANGED <<lease, ctl, db, writer_bound, opened, created, operated>>

\* The promotion renewer wakes; a Passive controller ends it.
renewer_wakes(n) ==
    /\ task[n]["renewer"].at = "sleep"
    /\ Move(n, "renewer", IF ctl[n].role = "Active"
                          THEN Call("renew", "renewer", ctl[n].epoch) ELSE Idle)
    /\ UNCHANGED <<lease, ctl, server, history>>

\* renew_once, from the reply on.
renew_replied(n, t) ==
    LET k == task[n][t]
        ok == k.reply.kind = "granted"
    IN  /\ k.at = "renew" /\ ~Waiting(k)
        /\ CASE k.reply.kind = "granted" -> set_active(n, k.reply)
             [] k.reply.kind = "denied" -> set_passive(n)
             [] k.reply.kind = "error" -> UNCHANGED ctl
        /\ Move(n, t, CASE k.job = "renewer" -> IF ok THEN At("sleep", "renewer") ELSE Idle
                        [] k.job = "tick" -> IF ok THEN Idle ELSE At("detach", "none")
                        [] k.job = "quiet" -> Idle)
        /\ UNCHANGED <<lease, server, history>>

-----------------------------------------------------------------------------
(* AppState::promote after its first await.                                *)

acquire_replied(n, t) ==
    LET k == task[n][t]
    IN  /\ k.at = "acquire" /\ ~Waiting(k)
        /\ IF k.reply.kind = "granted"
           THEN /\ set_active(n, k.reply)
                /\ task' = [task EXCEPT ![n][t] = At("open", k.job),
                                        ![n]["renewer"] = At("sleep", "renewer")]
                /\ UNCHANGED <<promotion_inflight, opened>>
           ELSE PromoteReturns(n, t, FALSE) /\ UNCHANGED ctl
        /\ UNCHANGED <<lease, db, writer_bound, created, history>>

Fence(handle) == IF handle = "writer" THEN "fenced" ELSE handle

\* Db::builder(..).build(): fences every writer opened before; or it fails and
\* the lease is given back.
open_writer(n, t) ==
    /\ task[n][t].at = "open"
    /\ \/ /\ db' = [m \in Node |-> Fence(db[m])]
          /\ opened' = [m \in Node |-> IF m = n THEN "writer" ELSE Fence(opened[m])]
          /\ created' = TRUE
          /\ Move(n, t, At("check", task[n][t].job))
          /\ UNCHANGED handed_back
       \/ /\ BeginRelease(n, t, task[n][t].job)
          /\ UNCHANGED <<db, opened, created>>
    /\ UNCHANGED <<lease, ctl, writer_bound, promotion_inflight, operated>>

\* The lease may have been lost while the writer was opening.
check_lease(n, t) ==
    /\ task[n][t].at = "check"
    /\ IF is_active(n)
       THEN Move(n, t, At("bind", task[n][t].job)) /\ UNCHANGED <<promotion_inflight, opened>>
       ELSE PromoteReturns(n, t, FALSE)
    /\ UNCHANGED <<lease, ctl, db, writer_bound, created, history>>

bind_writer(n, t) ==
    /\ task[n][t].at = "bind"
    /\ db' = [db EXCEPT ![n] = opened[n]]
    /\ opened' = [opened EXCEPT ![n] = "none"]
    /\ writer_bound' = [writer_bound EXCEPT ![n] = TRUE]
    /\ Move(n, t, At("start", task[n][t].job))
    /\ UNCHANGED <<lease, ctl, promotion_inflight, created, history>>

\* Reopening the FTS engine and the lakehouse manager; either may fail.
start_loops(n, t) ==
    /\ task[n][t].at = "start"
    /\ \E ok \in BOOLEAN : PromoteReturns(n, t, ok)
    /\ UNCHANGED <<lease, ctl, db, writer_bound, created, history>>

-----------------------------------------------------------------------------
(* Stepping down.                                                          *)

\* WriterController::demote, from the reply on: a failed release leaves the
\* role as it was.
release_replied(n, t) ==
    LET k == task[n][t]
        ok == k.reply.kind # "error"
    IN  /\ k.at = "release" /\ ~Waiting(k)
        /\ IF ok THEN set_passive(n) ELSE UNCHANGED ctl
        /\ CASE k.job = "demote" ->
                  /\ Move(n, t, IF ok THEN At("detach", "none") ELSE Idle)
                  /\ UNCHANGED <<promotion_inflight, opened>>
             [] k.job = "unbound" ->
                  /\ Move(n, t, ReaderIfUnbound(n))
                  /\ UNCHANGED <<promotion_inflight, opened>>
             [] OTHER -> PromoteReturns(n, t, FALSE)
        /\ UNCHANGED <<lease, db, writer_bound, created, history>>

\* Mutant: attach_reader leaves the flag set.
detach_keeps_flag(n, t) ==
    /\ task[n][t].at = "detach"
    /\ Move(n, t, At("rebind", "none"))
    /\ UNCHANGED <<lease, ctl, server, history>>

\* attach_reader: the flag first, then (after an await) the handle.
detach(n, t) ==
    /\ task[n][t].at = "detach"
    /\ writer_bound' = [writer_bound EXCEPT ![n] = FALSE]
    /\ Move(n, t, At("rebind", "none"))
    /\ UNCHANGED <<lease, ctl, db, promotion_inflight, opened, created, history>>

rebind(n, t) ==
    /\ task[n][t].at = "rebind"
    /\ \/ created /\ db' = [db EXCEPT ![n] = "reader"]
       \/ db' = [db EXCEPT ![n] = "none"]
    /\ Move(n, t, Idle)
    /\ UNCHANGED <<lease, ctl, writer_bound, promotion_inflight, opened, created, history>>

-----------------------------------------------------------------------------
(* Operator requests, crashes, time.                                       *)

admin_promote(n) ==
    /\ n \in Operated /\ task[n]["admin"].at = "idle"
    /\ BeginPromote(n, "admin", "admin")
    /\ operated' = TRUE
    /\ UNCHANGED <<lease, ctl, db, writer_bound, opened, created, handed_back>>

admin_demote(n) ==
    /\ n \in Operated /\ task[n]["admin"].at = "idle"
    /\ BeginRelease(n, "admin", "demote")
    /\ operated' = TRUE
    /\ UNCHANGED <<lease, ctl, server>>

\* Mutant: the permit is not dropped with the request.
admin_dropped_keeps_permit(n) ==
    /\ task[n]["admin"].at # "idle"
    /\ Move(n, "admin", Idle)
    /\ UNCHANGED <<lease, ctl, server, history>>

\* The client hangs up: the handler's future is dropped at its await, its
\* permit and renewer with it.
admin_dropped(n) ==
    /\ task[n]["admin"].at # "idle"
    /\ IF task[n]["admin"].job = "admin" THEN PromoteReturns(n, "admin", TRUE)
       ELSE Move(n, "admin", Idle) /\ UNCHANGED <<promotion_inflight, opened>>
    /\ UNCHANGED <<lease, ctl, db, writer_bound, created, history>>

crash(n) ==
    /\ ctl' = [ctl EXCEPT ![n] = Passive]
    /\ db' = [db EXCEPT ![n] = "none"]
    /\ opened' = [opened EXCEPT ![n] = "none"]
    /\ writer_bound' = [writer_bound EXCEPT ![n] = FALSE]
    /\ promotion_inflight' = [promotion_inflight EXCEPT ![n] = FALSE]
    /\ task' = [task EXCEPT ![n] = [t \in Tasks |-> IF t = "ha" THEN At("boot", "none") ELSE Idle]]
    /\ UNCHANGED <<lease, created, history>>

\* One unit later; below `floor` the code tells no two values apart.
Later(left, floor) == IF left > floor THEN left - 1 ELSE left

tick ==
    /\ \A n \in Node, t \in Tasks : Waiting(task[n][t]) => task[n][t].age < MaxDelay
    /\ lease' = [lease EXCEPT !.left = Later(@, Released)]
    /\ ctl' = [n \in Node |-> [ctl[n] EXCEPT !.left = Later(@, SafetyMargin)]]
    /\ task' = [n \in Node |-> [t \in Tasks |->
                  [task[n][t] EXCEPT !.age = IF Waiting(task[n][t]) THEN @ + 1 ELSE @,
                                     !.reply.left = Later(@, SafetyMargin)]]]
    /\ UNCHANGED <<server, history>>

Init ==
    /\ lease = [holder |-> NoNode, epoch |-> 0, left |-> Released]
    /\ ctl = [n \in Node |-> Passive]
    /\ db = [n \in Node |-> "none"]
    /\ opened = [n \in Node |-> "none"]
    /\ writer_bound = [n \in Node |-> FALSE]
    /\ promotion_inflight = [n \in Node |-> FALSE]
    /\ created = FALSE
    /\ task = [n \in Node |-> [t \in Tasks |-> IF t = "ha" THEN At("boot", "none") ELSE Idle]]
    /\ operated = FALSE /\ handed_back = FALSE

\* One step of task t of node n.
Step(n, t) ==
    \/ Serve(n, t) \/ renew_replied(n, t) \/ acquire_replied(n, t)
    \/ open_writer(n, t) \/ check_lease(n, t) \/ bind_writer(n, t) \/ start_loops(n, t)
    \/ release_replied(n, t) \/ detach(n, t) \/ rebind(n, t)

Next ==
    \/ tick
    \/ \E n \in Node :
         \/ bootstrap(n) \/ ha_tick(n) \/ renewer_wakes(n)
         \/ admin_promote(n) \/ admin_demote(n) \/ admin_dropped(n) \/ crash(n)
         \/ \E t \in Tasks : Step(n, t)

\* The runtime schedules every ready task, the HA loop ticks for ever and time
\* passes.
Fairness ==
    /\ WF_vars(tick)
    /\ \A n \in Node :
         /\ WF_vars(bootstrap(n)) /\ WF_vars(ha_tick(n)) /\ WF_vars(renewer_wakes(n))
         /\ \A t \in Tasks : WF_vars(Step(n, t))

Spec == Init /\ [][Next]_vars

FairSpec == Spec /\ Fairness

-----------------------------------------------------------------------------
(* Properties.                                                             *)

Jobs == {"none", "boot", "tick", "quiet", "unbound", "admin", "demote", "renewer"}
Steps == {"idle", "boot", "acquire", "renew", "release", "open", "check", "bind",
          "start", "detach", "rebind", "sleep"}

\* Leases never outlive the TTL, calls never outlive their bound, and every
\* task is at a step of its own: no reply arithmetic leaves its range.
TypeOK ==
    /\ lease \in [holder : Node \cup {NoNode}, epoch : 0..MaxEpoch, left : Released..Ttl]
    /\ ctl \in [Node -> [role : {"Active", "Passive"}, epoch : 0..MaxEpoch, left : Released..Ttl]]
    /\ db \in [Node -> {"none", "reader", "writer", "fenced"}]
    /\ opened \in [Node -> {"none", "writer", "fenced"}]
    /\ writer_bound \in [Node -> BOOLEAN]
    /\ promotion_inflight \in [Node -> BOOLEAN]
    /\ created \in BOOLEAN /\ operated \in BOOLEAN
    /\ \A n \in Node, t \in Tasks :
         /\ task[n][t].at \in Steps /\ task[n][t].job \in Jobs
         /\ task[n][t].age \in 0..MaxDelay

\* A fencing token names one holder: no two nodes ever believe in the same
\* epoch, however late a reply arrives.
EpochNamesOneNode ==
    \A m, n \in Node :
        /\ m # n /\ ctl[m].role = "Active" /\ ctl[n].role = "Active"
        => ctl[m].epoch # ctl[n].epoch

\* Self-fencing: as long as no lease was handed back, a node that believes it
\* is active holds the lease and the lease is live, through failovers, stalls,
\* crashes, lost replies, replies and calls that arrive late and out of order.
\* The margin has to cover the longest call: of two renewals by one node the
\* one that read the clock first may reach the store last and set the expiry
\* back by that much.
ActiveHoldsLease ==
    MaxDelay <= SafetyMargin /\ ~handed_back => \A n \in Node :
        is_active(n) => lease.holder = n /\ lease.left > 0

\* The promotion permit: one promotion at a time runs on a node, and the flag
\* is set exactly while it does, also when its request is dropped midway, so
\* that no later promotion is refused for ever.
PermitHeldByPromotion ==
    \A n \in Node :
        LET promoting == {t \in Tasks : task[n][t].job \in {"boot", "tick", "admin"}
                                        /\ task[n][t].at # "renew"}
        IN  /\ Cardinality(promoting) <= 1
            /\ promotion_inflight[n] <=> promoting # {}

\* Left to the HA loops, a node that accepts writes is bound to a writer Db,
\* never to the replica it was before.
WriterBoundToWriter ==
    ~operated => \A n \in Node : is_writer(n) => db[n] \in {"writer", "fenced"}

\* The fencing token only grows, and a lease changes hands only once it has
\* expired or was released, however long ago the new holder's call read the
\* clock, and with a new token.
TokenAdvances ==
    [][/\ lease'.epoch >= lease.epoch
       /\ lease'.holder # lease.holder => lease.left <= 0 /\ lease'.epoch > lease.epoch]_vars

\* A lease held without a bound writer, after an /admin/promote was dropped or
\* a reply came late, is given up or expires: it does not block failover.
UnboundLeaseGivenUp ==
    \A n \in Node :
        is_active(n) /\ ~writer_bound[n] /\ ~promotion_inflight[n]
        ~> ~is_active(n) \/ writer_bound[n] \/ promotion_inflight[n]

-----------------------------------------------------------------------------
(* What the comments and the documentation say, and the code does not keep. *)

\* docs/ha/active-passive.md: "Promotion acquires the lease first, then opens
\* and swaps in the writer `Db`.  A node reports `active` (and accepts
\* writer-gated traffic) only after that swap.  During the brief gap it still
\* holds its pre-failover replica view, so it reports `passive`."
PassiveUntilSwap ==
    \A n \in Node, t \in Tasks :
        task[n][t].at \in {"open", "check", "bind"} => ~is_writer(n)

\* controller.rs: "promote only succeeds if the LeaseProvider grants the
\* lease, so two nodes can't both go Active."
OneActive ==
    \A m, n \in Node : is_active(m) /\ is_active(n) => m = n

=============================================================================
