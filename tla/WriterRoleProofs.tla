-------------------------- MODULE WriterRoleProofs --------------------------
(***************************************************************************)
(* Proofs about WriterRole, for every set of nodes, every lifetime, margin *)
(* and delay, and any number of failovers.                                 *)
(*                                                                         *)
(* The inductive invariant has five parts.  RoleTypes gives every record   *)
(* of every task its range.  Discipline says which jobs each task runs and *)
(* which step belongs to which job; the permit, the epochs and the binding *)
(* all rest on it.  Epochs, Leases and Binding speak of what a node holds  *)
(* AND of what is on its way to it: a granted reply that no task has read  *)
(* yet is a claim like the controller's own.                               *)
(***************************************************************************)
EXTENDS WriterRole, FiniteSetTheorems, TLAPS

Replies == [kind : {"waiting", "granted", "denied", "error"}, epoch : 0..MaxEpoch,
            left : Released..Ttl]

TaskStates == [at : Steps, job : Jobs, age : 0..MaxDelay, epoch : 0..MaxEpoch,
               reply : Replies]

RoleTypes ==
    /\ TypeOK
    /\ handed_back \in BOOLEAN
    /\ task \in [Node -> [Tasks -> TaskStates]]

-----------------------------------------------------------------------------
(* Which task is where.                                                    *)

PromotionSteps == {"acquire", "open", "check", "bind", "start", "release"}
PromotionJobs == {"boot", "tick", "admin"}

\* A task that is running AppState::promote.
Promotes(k) == k.at \in PromotionSteps /\ k.job \in PromotionJobs

Quiet(k) == k.at \in {"idle", "detach", "rebind"} /\ k.job = "none"

HaTask(k) ==
    \/ Quiet(k)
    \/ k.at = "boot" /\ k.job = "none"
    \/ k.at \in PromotionSteps /\ k.job \in {"boot", "tick"}
    \/ k.at = "renew" /\ k.job \in {"tick", "quiet"}
    \/ k.at = "release" /\ k.job = "unbound"

AdminTask(k) ==
    \/ Quiet(k)
    \/ k.at \in PromotionSteps /\ k.job = "admin"
    \/ k.at = "release" /\ k.job = "demote"

RenewerTask(k) ==
    \/ k.at = "idle" /\ k.job = "none"
    \/ k.at \in {"sleep", "renew"} /\ k.job = "renewer"

\* Each task runs its own jobs, and at most one of a node's tasks a promotion,
\* exactly while the permit is taken.
TasksOK(ha, admin, renewer, inflight) ==
    /\ HaTask(ha) /\ AdminTask(admin) /\ RenewerTask(renewer)
    /\ ~(Promotes(ha) /\ Promotes(admin))
    /\ inflight <=> (Promotes(ha) \/ Promotes(admin))

Discipline ==
    \A n \in Node : TasksOK(task[n]["ha"], task[n]["admin"], task[n]["renewer"],
                            promotion_inflight[n])

-----------------------------------------------------------------------------
(* What a node claims: the lease its controller believes in, and the grants *)
(* that are on their way to it.                                            *)

Claims(n, epoch, left) ==
    \/ ctl[n].role = "Active" /\ ctl[n].epoch = epoch /\ ctl[n].left = left
    \/ \E t \in Tasks : LET r == task[n][t].reply
                        IN  r.kind = "granted" /\ r.epoch = epoch /\ r.left = left

Epoch == 0..MaxEpoch
Left == Released..Ttl

\* No claim is ahead of the store, the newest one is the holder's, and no two
\* nodes claim one epoch.
Epochs ==
    \A n \in Node, e \in Epoch, l \in Left : Claims(n, e, l) =>
        /\ e <= lease.epoch
        /\ e = lease.epoch => lease.holder = n
        /\ \A m \in Node, k \in Left : Claims(m, e, k) => m = n

\* Until a lease is handed back no release is on its way, and whoever has a
\* claim outside the margin holds the lease, which runs out at most MaxDelay
\* before the claim does.
Leases ==
    (MaxDelay <= SafetyMargin /\ ~handed_back) =>
        /\ \A n \in Node, t \in Tasks :
             task[n][t].at = "release" => task[n][t].reply.kind # "waiting"
        /\ \A n \in Node, e \in Epoch, l \in Left :
             Claims(n, e, l) /\ l > SafetyMargin =>
                lease.holder = n /\ lease.left >= l - MaxDelay

Writers == {"writer", "fenced"}

\* Left to the HA loop, the flag is set only over a writer, a promotion about
\* to bind has one open, and the reader is bound under a lowered flag.
Binding ==
    ~operated => \A n \in Node :
        /\ task[n]["admin"].at = "idle"
        /\ writer_bound[n] => db[n] \in Writers
        /\ task[n]["ha"].at \in {"check", "bind"} => opened[n] \in Writers
        /\ task[n]["ha"].at = "rebind" => ~writer_bound[n]

RoleInv == RoleTypes /\ Discipline /\ Epochs /\ Leases /\ Binding

-----------------------------------------------------------------------------
(* Task records.                                                           *)

LEMMA Ranges ==
    /\ 0 \in Left /\ 0 \in Epoch /\ 0 \in 0..MaxDelay /\ SafetyMargin \in Left
    /\ Released \in Left /\ Released \in Int
    /\ \A age \in 0..MaxDelay : NewLeft(age) \in Left
BY RoleAssumption DEF Left, Epoch, Released, NewLeft

LEMMA AtFields ==
    ASSUME NEW step \in Steps, NEW job \in Jobs
    PROVE  /\ At(step, job) \in TaskStates
           /\ At(step, job).at = step /\ At(step, job).job = job
           /\ At(step, job).reply.kind = "waiting" /\ At(step, job).age = 0
BY Ranges DEF At, NoReply, TaskStates, Replies, Left, Epoch

LEMMA IdleFields ==
    /\ Idle \in TaskStates /\ Idle.at = "idle" /\ Idle.job = "none"
    /\ Idle.reply.kind = "waiting"
BY AtFields DEF Idle, Steps, Jobs

LEMMA CallFields ==
    ASSUME NEW op \in Steps, NEW job \in Jobs, NEW epoch \in Epoch
    PROVE  /\ Call(op, job, epoch) \in TaskStates
           /\ Call(op, job, epoch).at = op /\ Call(op, job, epoch).job = job
           /\ Call(op, job, epoch).reply.kind = "waiting"
BY Ranges DEF Call, At, NoReply, TaskStates, Replies, Left, Epoch

LEMMA RepliedFields ==
    ASSUME NEW k \in TaskStates, NEW kind \in {"granted", "denied", "error"},
           NEW epoch \in Epoch, NEW left \in Left
    PROVE  /\ Replied(k, kind, epoch, left) \in TaskStates
           /\ Replied(k, kind, epoch, left).at = k.at
           /\ Replied(k, kind, epoch, left).job = k.job
           /\ Replied(k, kind, epoch, left).reply.kind = kind
           /\ Replied(k, kind, epoch, left).reply.epoch = epoch
           /\ Replied(k, kind, epoch, left).reply.left = left
BY Ranges DEF Replied, At, NoReply, TaskStates, Replies, Left, Epoch

\* A refused or failed call.
LEMMA RefusedFields ==
    ASSUME NEW k \in TaskStates, NEW kind \in {"denied", "error"}
    PROVE  /\ Replied(k, kind, 0, 0) \in TaskStates
           /\ Replied(k, kind, 0, 0).at = k.at
           /\ Replied(k, kind, 0, 0).job = k.job
           /\ Replied(k, kind, 0, 0).reply.kind = kind
BY Ranges DEF Replied, At, NoReply, TaskStates, Replies, Left, Epoch

\* Exactly task t of node n has moved, to k.
Moved(n, t, k) ==
    /\ task' \in [Node -> [Tasks -> TaskStates]]
    /\ task'[n][t] = k
    /\ \A m \in Node, u \in Tasks : m # n \/ u # t => task'[m][u] = task[m][u]

LEMMA MoveMoves ==
    ASSUME task \in [Node -> [Tasks -> TaskStates]],
           NEW n \in Node, NEW t \in Tasks, NEW k \in TaskStates, Move(n, t, k)
    PROVE  Moved(n, t, k)
BY DEF Move, Moved

\* Task t of node n has moved to k and its renewer to r.
MovedBoth(n, t, k, r) ==
    /\ task' \in [Node -> [Tasks -> TaskStates]]
    /\ task'[n][t] = k /\ task'[n]["renewer"] = r
    /\ \A m \in Node, u \in Tasks :
         m # n \/ u \notin {t, "renewer"} => task'[m][u] = task[m][u]

\* A task that has left a promotion and holds no call.
Returned(k) == Quiet(k) /\ k.at # "rebind" /\ k.reply.kind = "waiting"

LEMMA ReaderFields ==
    ASSUME NEW n \in Node
    PROVE  ReaderIfUnbound(n) \in TaskStates /\ Returned(ReaderIfUnbound(n))
BY AtFields, IdleFields DEF ReaderIfUnbound, Returned, Quiet, Steps, Jobs

LEMMA PromoteReturnsMoves ==
    ASSUME task \in [Node -> [Tasks -> TaskStates]], NEW n \in Node, NEW t \in {"ha", "admin"},
           NEW ok \in BOOLEAN, PromoteReturns(n, t, ok),
           ok \/ task[n][t].job \in PromotionJobs
    PROVE  \E k \in TaskStates : Returned(k) /\ (ok => k = Idle) /\ MovedBoth(n, t, k, Idle)
<1> DEFINE k == IF ok THEN Idle
                ELSE CASE task[n][t].job = "boot" -> At("detach", "none")
                       [] task[n][t].job = "tick" -> ReaderIfUnbound(n)
                       [] task[n][t].job = "admin" -> Idle
<1>1. k \in TaskStates /\ Returned(k)
  BY AtFields, IdleFields, ReaderFields DEF PromotionJobs, Returned, Quiet, Steps, Jobs
<1>2. task' = [task EXCEPT ![n]["renewer"] = Idle, ![n][t] = k]
  BY DEF PromoteReturns
<1> HIDE DEF k
<1>3. MovedBoth(n, t, k, Idle)
  BY <1>1, <1>2, IdleFields DEF MovedBoth, Tasks
<1> QED BY <1>1, <1>3 DEF k

-----------------------------------------------------------------------------
(* Steps that leave the lease alone.                                       *)

\* No node has a claim it did not have.
NoNewClaims ==
    \A m \in Node, e \in Epoch, l \in Left : Claims(m, e, l)' => Claims(m, e, l)

\* A reply stays what it was until it is read, and a controller that changes
\* its mind takes over a grant that had arrived.
LEMMA ClaimsKept ==
    ASSUME RoleTypes, task' \in [Node -> [Tasks -> TaskStates]],
           NEW n \in Node, NEW t \in Tasks,
           \A m \in Node, u \in Tasks :
              task'[m][u] = task[m][u] \/ task'[m][u].reply.kind # "granted",
           \/ UNCHANGED ctl
           \/ set_passive(n)
           \/ set_active(n, task[n][t].reply) /\ task[n][t].reply.kind = "granted"
    PROVE  NoNewClaims
<1> SUFFICES ASSUME NEW m \in Node, NEW e \in Epoch, NEW l \in Left, Claims(m, e, l)'
             PROVE  Claims(m, e, l)
  BY DEF NoNewClaims
<1>1. CASE \E u \in Tasks : LET r == task'[m][u].reply
                            IN  r.kind = "granted" /\ r.epoch = e /\ r.left = l
  <2> PICK u \in Tasks : LET r == task'[m][u].reply
                         IN  r.kind = "granted" /\ r.epoch = e /\ r.left = l
    BY <1>1
  <2>1. task'[m][u] = task[m][u]
    OBVIOUS
  <2> QED BY <2>1 DEF Claims
<1>2. CASE ctl'[m].role = "Active" /\ ctl'[m].epoch = e /\ ctl'[m].left = l
  <2>1. CASE ctl'[m] = ctl[m]
    BY <1>2, <2>1 DEF Claims
  <2>2. CASE ctl'[m] # ctl[m]
    <3>1. ctl \in [Node -> [role : {"Active", "Passive"}, epoch : 0..MaxEpoch, left : Released..Ttl]]
      BY DEF RoleTypes, TypeOK
    <3>2. m = n
      BY <2>2, <3>1 DEF set_passive, set_active
    <3>3. ~UNCHANGED ctl
      BY <2>2
    <3>4. ~set_passive(n)
      BY <1>2, <3>1, <3>2 DEF set_passive, Passive
    <3>5. set_active(n, task[n][t].reply) /\ task[n][t].reply.kind = "granted"
      BY <3>3, <3>4
    <3>6. task[n][t].reply.epoch = e /\ task[n][t].reply.left = l
      BY <1>2, <3>1, <3>2, <3>5 DEF set_active
    <3> QED BY <3>2, <3>5, <3>6 DEF Claims
  <2> QED BY <2>1, <2>2
<1> QED BY <1>1, <1>2 DEF Claims

LEMMA EpochsKept ==
    ASSUME Epochs, NoNewClaims, lease'.epoch = lease.epoch, lease'.holder = lease.holder
    PROVE  Epochs'
BY DEF Epochs, NoNewClaims

\* A step that sends a release says so.
LEMMA LeasesKept ==
    ASSUME Leases, NoNewClaims, lease' = lease,
           \/ handed_back' = TRUE
           \/ /\ handed_back' = handed_back
              /\ \A m \in Node, u \in Tasks :
                   \/ task'[m][u] = task[m][u]
                   \/ ~(task'[m][u].at = "release" /\ task'[m][u].reply.kind = "waiting")
    PROVE  Leases'
<1> SUFFICES ASSUME MaxDelay <= SafetyMargin, ~handed_back'
             PROVE  /\ \A n \in Node, t \in Tasks :
                         task'[n][t].at = "release" => task'[n][t].reply.kind # "waiting"
                    /\ \A n \in Node, e \in Epoch, l \in Left :
                         Claims(n, e, l)' /\ l > SafetyMargin =>
                           lease'.holder = n /\ lease'.left >= l - MaxDelay
  BY DEF Leases
<1> QED BY DEF Leases, NoNewClaims

-----------------------------------------------------------------------------
(* The HA loop, the renewer and the operator.                              *)

LEMMA BeginPromoteMoves ==
    ASSUME RoleInv, NEW n \in Node, NEW t \in {"ha", "admin"},
           NEW job \in PromotionJobs, BeginPromote(n, t, job)
    PROVE  \E k \in TaskStates :
             /\ Moved(n, t, k) /\ k.reply.kind = "waiting"
             /\ \/ promotion_inflight[n] /\ Returned(k) /\ promotion_inflight' = promotion_inflight
                   /\ (job = "admin" => k.at = "idle")
                \/ /\ ~promotion_inflight[n] /\ k.at = "acquire" /\ k.job = job
                   /\ promotion_inflight' = [promotion_inflight EXCEPT ![n] = TRUE]
<1> USE DEF PromotionJobs, Tasks
<1>1. task \in [Node -> [Tasks -> TaskStates]]
  BY DEF RoleInv, RoleTypes
<1>2. CASE promotion_inflight[n]
  <2> DEFINE k == IF job = "tick" THEN ReaderIfUnbound(n) ELSE Idle
  <2>1. k \in TaskStates /\ Returned(k) /\ (job = "admin" => k.at = "idle")
    BY IdleFields, ReaderFields DEF Returned, Quiet
  <2>2. Move(n, t, k) /\ promotion_inflight' = promotion_inflight
    BY <1>2 DEF BeginPromote
  <2> HIDE DEF k
  <2>3. Moved(n, t, k)
    BY <1>1, <2>1, <2>2, MoveMoves
  <2> QED BY <1>2, <2>1, <2>2, <2>3 DEF Returned
<1>3. CASE ~promotion_inflight[n]
  <2> DEFINE k == Call("acquire", job, 0)
  <2>1. k \in TaskStates /\ k.at = "acquire" /\ k.job = job /\ k.reply.kind = "waiting"
    BY CallFields, Ranges DEF Steps, Jobs
  <2>2. Move(n, t, k) /\ promotion_inflight' = [promotion_inflight EXCEPT ![n] = TRUE]
    BY <1>3 DEF BeginPromote
  <2> HIDE DEF k
  <2>3. Moved(n, t, k)
    BY <1>1, <2>1, <2>2, MoveMoves
  <2> QED BY <1>3, <2>1, <2>2, <2>3
<1> QED BY <1>2, <1>3

\* A task with a release to wait for, or, when there is nothing to release,
\* with its answer.
Releasing(k, job) ==
    /\ k.at = "release" /\ k.job = job /\ k.reply.kind # "granted"
    /\ \/ handed_back' = TRUE
       \/ handed_back' = handed_back /\ k.reply.kind # "waiting"

LEMMA BeginReleaseMoves ==
    ASSUME RoleInv, NEW n \in Node, NEW t \in {"ha", "admin"}, NEW job \in Jobs,
           BeginRelease(n, t, job)
    PROVE  \E k \in TaskStates : Moved(n, t, k) /\ Releasing(k, job)
<1>1. task \in [Node -> [Tasks -> TaskStates]] /\ ctl[n].epoch \in Epoch /\ t \in Tasks
  BY DEF RoleInv, RoleTypes, TypeOK, Epoch, Tasks
<1>2. CASE ctl[n].role = "Active"
  <2> DEFINE k == Call("release", job, ctl[n].epoch)
  <2>1. k \in TaskStates /\ k.at = "release" /\ k.job = job /\ k.reply.kind = "waiting"
    BY <1>1, CallFields DEF Steps
  <2>2. Move(n, t, k) /\ handed_back' = TRUE
    BY <1>2 DEF BeginRelease
  <2> HIDE DEF k
  <2> QED BY <1>1, <2>1, <2>2, MoveMoves DEF Releasing
<1>3. CASE ctl[n].role # "Active"
  <2>0. PICK a \in TaskStates : a = At("release", job) /\ a.at = "release" /\ a.job = job
    BY AtFields DEF Steps
  <2> DEFINE k == Replied(a, "denied", 0, 0)
  <2>1. k \in TaskStates /\ k.at = "release" /\ k.job = job /\ k.reply.kind = "denied"
    BY <2>0, RefusedFields
  <2>2. Move(n, t, k) /\ handed_back' = handed_back
    BY <1>3, <2>0 DEF BeginRelease
  <2> HIDE DEF k
  <2> QED BY <1>1, <2>1, <2>2, MoveMoves DEF Releasing
<1> QED BY <1>2, <1>3

\* A step of one task that grants nothing and leaves the lease alone keeps
\* what is said of epochs and leases.
LEMMA MovedKeepsClaims ==
    ASSUME RoleInv, NEW n \in Node, NEW t \in Tasks, NEW k \in TaskStates,
           Moved(n, t, k), k.reply.kind # "granted", lease' = lease,
           \/ UNCHANGED ctl
           \/ set_passive(n)
           \/ set_active(n, task[n][t].reply) /\ task[n][t].reply.kind = "granted",
           \/ handed_back' = TRUE
           \/ /\ handed_back' = handed_back
              /\ k.at = "release" => k.reply.kind # "waiting"
    PROVE  Epochs' /\ Leases'
<1>1. NoNewClaims
  BY ClaimsKept DEF RoleInv, Moved
<1> QED BY <1>1, EpochsKept, LeasesKept DEF RoleInv, Moved

LEMMA MovedBothKeepsClaims ==
    ASSUME RoleInv, NEW n \in Node, NEW t \in Tasks, NEW k \in TaskStates,
           NEW r \in TaskStates, MovedBoth(n, t, k, r),
           k.reply.kind # "granted", r.reply.kind # "granted",
           k.at # "release", r.at # "release", lease' = lease,
           \/ UNCHANGED ctl
           \/ set_passive(n)
           \/ set_active(n, task[n][t].reply) /\ task[n][t].reply.kind = "granted",
           handed_back' = handed_back
    PROVE  Epochs' /\ Leases'
<1>1. \A m \in Node, u \in Tasks :
        \/ task'[m][u] = task[m][u]
        \/ task'[m][u].reply.kind # "granted" /\ task'[m][u].at # "release"
  BY DEF MovedBoth, Tasks
<1>2. NoNewClaims
  BY <1>1, ClaimsKept DEF RoleInv, MovedBoth
<1> QED BY <1>1, <1>2, EpochsKept, LeasesKept DEF RoleInv

\* What RoleTypes says of the variables other than the tasks.
LEMMA TypesFromTasks ==
    ASSUME task' \in [Node -> [Tasks -> TaskStates]],
           lease' \in [holder : Node \cup {NoNode}, epoch : 0..MaxEpoch, left : Released..Ttl],
           ctl' \in [Node -> [role : {"Active", "Passive"}, epoch : 0..MaxEpoch,
                              left : Released..Ttl]],
           db' \in [Node -> {"none", "reader", "writer", "fenced"}],
           opened' \in [Node -> {"none", "writer", "fenced"}],
           writer_bound' \in [Node -> BOOLEAN], promotion_inflight' \in [Node -> BOOLEAN],
           created' \in BOOLEAN, operated' \in BOOLEAN, handed_back' \in BOOLEAN
    PROVE  RoleTypes'
<1>1. \A n \in Node, t \in Tasks : task'[n][t] \in TaskStates
  OBVIOUS
<1>2. \A n \in Node, t \in Tasks :
        /\ task'[n][t].at \in Steps /\ task'[n][t].job \in Jobs
        /\ task'[n][t].age \in 0..MaxDelay
  BY <1>1 DEF TaskStates
<1> QED BY <1>2 DEF RoleTypes, TypeOK

\* A step of node n alone leaves the other nodes' tasks in order.
LEMMA DisciplineKept ==
    ASSUME Discipline, NEW n \in Node,
           \A m \in Node : m # n => /\ \A u \in Tasks : task'[m][u] = task[m][u]
                                   /\ promotion_inflight'[m] = promotion_inflight[m],
           TasksOK(task'[n]["ha"], task'[n]["admin"], task'[n]["renewer"],
                   promotion_inflight'[n])
    PROVE  Discipline'
<1> SUFFICES ASSUME NEW m \in Node
             PROVE  TasksOK(task'[m]["ha"], task'[m]["admin"], task'[m]["renewer"],
                            promotion_inflight'[m])
  BY DEF Discipline
<1>1. CASE m = n
  BY <1>1
<1>2. CASE m # n
  <2>1. /\ task'[m]["ha"] = task[m]["ha"] /\ task'[m]["admin"] = task[m]["admin"]
        /\ task'[m]["renewer"] = task[m]["renewer"]
        /\ promotion_inflight'[m] = promotion_inflight[m]
    BY <1>2 DEF Tasks
  <2> QED BY <2>1 DEF Discipline
<1> QED BY <1>1, <1>2

\* The jobs of task t.
Fits(t, k) ==
    /\ t = "ha" => HaTask(k)
    /\ t = "admin" => AdminTask(k)
    /\ t = "renewer" => RenewerTask(k)

OthersKeepPermit(n) ==
    \A m \in Node : m # n => promotion_inflight'[m] = promotion_inflight[m]

LEMMA MovedDiscipline ==
    ASSUME RoleInv, NEW n \in Node, NEW t \in Tasks, NEW k \in TaskStates, Moved(n, t, k),
           OthersKeepPermit(n), Fits(t, k),
           \/ /\ Promotes(k) <=> Promotes(task[n][t])
              /\ promotion_inflight'[n] = promotion_inflight[n]
           \/ /\ ~promotion_inflight[n] /\ Promotes(k)
              /\ promotion_inflight'[n] = TRUE /\ t # "renewer"
    PROVE  Discipline'
<1>1. TasksOK(task[n]["ha"], task[n]["admin"], task[n]["renewer"], promotion_inflight[n])
  BY DEF RoleInv, Discipline
<1>2. TasksOK(task'[n]["ha"], task'[n]["admin"], task'[n]["renewer"], promotion_inflight'[n])
  <2>1. CASE t = "ha"
    <3>1. task'[n]["ha"] = k /\ task'[n]["admin"] = task[n]["admin"]
          /\ task'[n]["renewer"] = task[n]["renewer"]
      BY <2>1 DEF Moved, Tasks
    <3> QED BY <1>1, <2>1, <3>1 DEF TasksOK, Fits
  <2>2. CASE t = "admin"
    <3>1. task'[n]["ha"] = task[n]["ha"] /\ task'[n]["admin"] = k
          /\ task'[n]["renewer"] = task[n]["renewer"]
      BY <2>2 DEF Moved, Tasks
    <3> QED BY <1>1, <2>2, <3>1 DEF TasksOK, Fits
  <2>3. CASE t = "renewer"
    <3>1. task'[n]["ha"] = task[n]["ha"] /\ task'[n]["admin"] = task[n]["admin"]
          /\ task'[n]["renewer"] = k
      BY <2>3 DEF Moved, Tasks
    <3>2. promotion_inflight'[n] = promotion_inflight[n]
      BY <2>3
    <3> QED BY <1>1, <2>3, <3>1, <3>2 DEF TasksOK, Fits
  <2> QED BY <2>1, <2>2, <2>3 DEF Tasks
<1> QED BY <1>2, DisciplineKept DEF RoleInv, Moved, OthersKeepPermit

LEMMA MovedBothDiscipline ==
    ASSUME RoleInv, NEW n \in Node, NEW t \in {"ha", "admin"}, NEW k \in TaskStates,
           NEW r \in TaskStates, MovedBoth(n, t, k, r), OthersKeepPermit(n),
           Fits(t, k), RenewerTask(r),
           \/ /\ Promotes(k) <=> Promotes(task[n][t])
              /\ promotion_inflight'[n] = promotion_inflight[n]
           \/ Promotes(task[n][t]) /\ ~Promotes(k) /\ promotion_inflight'[n] = FALSE
    PROVE  Discipline'
<1>1. TasksOK(task[n]["ha"], task[n]["admin"], task[n]["renewer"], promotion_inflight[n])
  BY DEF RoleInv, Discipline
<1>2. TasksOK(task'[n]["ha"], task'[n]["admin"], task'[n]["renewer"], promotion_inflight'[n])
  <2>1. CASE t = "ha"
    <3>1. task'[n]["ha"] = k /\ task'[n]["admin"] = task[n]["admin"] /\ task'[n]["renewer"] = r
      BY <2>1 DEF MovedBoth, Tasks
    <3> QED BY <1>1, <2>1, <3>1 DEF TasksOK, Fits
  <2>2. CASE t = "admin"
    <3>1. task'[n]["ha"] = task[n]["ha"] /\ task'[n]["admin"] = k /\ task'[n]["renewer"] = r
      BY <2>2 DEF MovedBoth, Tasks
    <3> QED BY <1>1, <2>2, <3>1 DEF TasksOK, Fits
  <2> QED BY <2>1, <2>2
<1>3. \A m \in Node : m # n => \A u \in Tasks : task'[m][u] = task[m][u]
  BY DEF MovedBoth
<1> QED BY <1>2, <1>3, DisciplineKept DEF RoleInv, OthersKeepPermit

LEMMA BootstrapInv ==
    ASSUME RoleInv, NEW n \in Node, bootstrap(n)
    PROVE  RoleInv'
<1> USE DEF Tasks
<1>1. /\ task[n]["ha"].at = "boot" /\ lease' = lease
      /\ UNCHANGED <<ctl, db, writer_bound, opened, created, operated, handed_back>>
  BY DEF bootstrap, history
<1>2. task \in [Node -> [Tasks -> TaskStates]]
  BY DEF RoleInv, RoleTypes
<1>3. \E k \in TaskStates :
        /\ Moved(n, "ha", k) /\ k.reply.kind = "waiting" /\ k.at # "release"
        /\ \/ Returned(k) /\ promotion_inflight' = promotion_inflight
           \/ /\ ~promotion_inflight[n] /\ k.at = "acquire" /\ k.job = "boot"
              /\ promotion_inflight' = [promotion_inflight EXCEPT ![n] = TRUE]
  <2>1. CASE BeginPromote(n, "ha", "boot")
    BY <2>1, BeginPromoteMoves DEF PromotionJobs, Returned, Quiet
  <2>2. CASE Move(n, "ha", At("detach", "none")) /\ UNCHANGED promotion_inflight
    <3>1. At("detach", "none") \in TaskStates /\ Returned(At("detach", "none"))
      BY AtFields DEF Returned, Quiet, Steps, Jobs
    <3>2. Moved(n, "ha", At("detach", "none"))
      BY <1>2, <2>2, <3>1, MoveMoves
    <3> QED BY <2>2, <3>1, <3>2 DEF Returned, Quiet
  <2> QED BY <2>1, <2>2 DEF bootstrap
<1>4. PICK k \in TaskStates :
        /\ Moved(n, "ha", k) /\ k.reply.kind = "waiting" /\ k.at # "release"
        /\ \/ Returned(k) /\ promotion_inflight' = promotion_inflight
           \/ /\ ~promotion_inflight[n] /\ k.at = "acquire" /\ k.job = "boot"
              /\ promotion_inflight' = [promotion_inflight EXCEPT ![n] = TRUE]
  BY <1>3
<1>5. RoleTypes'
  BY <1>1, <1>4, TypesFromTasks DEF RoleInv, RoleTypes, TypeOK, Moved
<1>6. Epochs' /\ Leases'
  BY <1>1, <1>4, MovedKeepsClaims
<1>7. Discipline'
  <2>1. TasksOK(task[n]["ha"], task[n]["admin"], task[n]["renewer"], promotion_inflight[n])
    BY DEF RoleInv, Discipline
  <2>2. OthersKeepPermit(n)
    BY <1>4 DEF OthersKeepPermit, RoleInv, RoleTypes, TypeOK
  <2>3. promotion_inflight \in [Node -> BOOLEAN]
    BY DEF RoleInv, RoleTypes, TypeOK
  <2> QED BY <1>1, <1>4, <2>1, <2>2, <2>3, MovedDiscipline
          DEF Fits, HaTask, Promotes, Returned, Quiet, PromotionSteps, PromotionJobs
<1>8. Binding'
  BY <1>1, <1>4 DEF RoleInv, Binding, Moved, Returned, Quiet
<1> QED BY <1>5, <1>6, <1>7, <1>8 DEF RoleInv

LEMMA HaTickInv ==
    ASSUME RoleInv, NEW n \in Node, ha_tick(n)
    PROVE  RoleInv'
<1> USE DEF Tasks
<1>1. /\ task[n]["ha"].at = "idle" /\ lease' = lease
      /\ UNCHANGED <<ctl, db, writer_bound, opened, created, operated>>
  BY DEF ha_tick
<1>2. /\ task \in [Node -> [Tasks -> TaskStates]] /\ promotion_inflight \in [Node -> BOOLEAN]
      /\ handed_back \in BOOLEAN /\ ctl[n].epoch \in Epoch
  BY DEF RoleInv, RoleTypes, TypeOK, Epoch
<1>3. PICK k \in TaskStates :
        /\ Moved(n, "ha", k) /\ k.reply.kind # "granted" /\ HaTask(k)
        /\ k.at \notin {"check", "bind", "rebind"}
        /\ \/ ~Promotes(k) /\ promotion_inflight' = promotion_inflight
           \/ /\ ~promotion_inflight[n] /\ Promotes(k)
              /\ promotion_inflight' = [promotion_inflight EXCEPT ![n] = TRUE]
        /\ \/ handed_back' = TRUE
           \/ handed_back' = handed_back /\ (k.at = "release" => k.reply.kind # "waiting")
  <2>1. CASE BeginPromote(n, "ha", "tick") /\ UNCHANGED handed_back
    <3>1. PICK k \in TaskStates :
             /\ Moved(n, "ha", k) /\ k.reply.kind = "waiting"
             /\ \/ promotion_inflight[n] /\ Returned(k) /\ promotion_inflight' = promotion_inflight
                \/ /\ ~promotion_inflight[n] /\ k.at = "acquire" /\ k.job = "tick"
                   /\ promotion_inflight' = [promotion_inflight EXCEPT ![n] = TRUE]
      BY <2>1, BeginPromoteMoves DEF PromotionJobs
    <3> QED BY <2>1, <3>1 DEF Returned, Quiet, HaTask, Promotes, PromotionSteps, PromotionJobs
  <2>2. CASE /\ Move(n, "ha", Call("renew", "tick", ctl[n].epoch))
             /\ UNCHANGED <<promotion_inflight, handed_back>>
    <3>1. PICK k \in TaskStates : /\ k = Call("renew", "tick", ctl[n].epoch)
                                  /\ k.at = "renew" /\ k.job = "tick" /\ k.reply.kind = "waiting"
      BY <1>2, CallFields DEF Steps, Jobs
    <3>2. Moved(n, "ha", k)
      BY <1>2, <2>2, <3>1, MoveMoves
    <3> QED BY <2>2, <3>1, <3>2 DEF HaTask, Promotes, PromotionSteps
  <2>3. CASE /\ Move(n, "ha", Call("renew", "quiet", ctl[n].epoch))
             /\ UNCHANGED <<promotion_inflight, handed_back>>
    <3>1. PICK k \in TaskStates : /\ k = Call("renew", "quiet", ctl[n].epoch)
                                  /\ k.at = "renew" /\ k.job = "quiet" /\ k.reply.kind = "waiting"
      BY <1>2, CallFields DEF Steps, Jobs
    <3>2. Moved(n, "ha", k)
      BY <1>2, <2>3, <3>1, MoveMoves
    <3> QED BY <2>3, <3>1, <3>2 DEF HaTask, Promotes, PromotionSteps
  <2>4. CASE BeginRelease(n, "ha", "unbound") /\ UNCHANGED promotion_inflight
    <3>1. PICK k \in TaskStates : Moved(n, "ha", k) /\ Releasing(k, "unbound")
      BY <2>4, BeginReleaseMoves DEF Jobs
    <3> QED BY <2>4, <3>1 DEF Releasing, HaTask, Promotes, PromotionJobs
  <2> QED BY <2>1, <2>2, <2>3, <2>4 DEF ha_tick
<1>4. RoleTypes'
  BY <1>1, <1>2, <1>3, TypesFromTasks DEF RoleInv, RoleTypes, TypeOK, Moved
<1>5. Epochs' /\ Leases'
  BY <1>1, <1>3, MovedKeepsClaims
<1>6. Discipline'
  <2>1. ~Promotes(task[n]["ha"])
    BY <1>1 DEF Promotes, PromotionSteps
  <2>2. OthersKeepPermit(n)
    BY <1>2, <1>3 DEF OthersKeepPermit
  <2>3. Fits("ha", k)
    BY <1>3 DEF Fits
  <2> QED BY <1>2, <1>3, <2>1, <2>2, <2>3, MovedDiscipline
<1>7. Binding'
  BY <1>1, <1>3 DEF RoleInv, Binding, Moved
<1> QED BY <1>4, <1>5, <1>6, <1>7 DEF RoleInv

LEMMA RenewerWakesInv ==
    ASSUME RoleInv, NEW n \in Node, renewer_wakes(n)
    PROVE  RoleInv'
<1> USE DEF Tasks
<1>1. /\ task[n]["renewer"].at = "sleep" /\ lease' = lease
      /\ UNCHANGED <<ctl, db, writer_bound, promotion_inflight, opened, created, operated,
                     handed_back>>
  BY DEF renewer_wakes, server, history
<1>2. task \in [Node -> [Tasks -> TaskStates]] /\ ctl[n].epoch \in Epoch
  BY DEF RoleInv, RoleTypes, TypeOK, Epoch
<1>3. PICK k \in TaskStates :
        Moved(n, "renewer", k) /\ k.reply.kind = "waiting" /\ RenewerTask(k)
  <2>1. CASE ctl[n].role = "Active"
    <3>1. PICK k \in TaskStates : /\ k = Call("renew", "renewer", ctl[n].epoch)
                                  /\ k.at = "renew" /\ k.job = "renewer"
                                  /\ k.reply.kind = "waiting"
      BY <1>2, CallFields DEF Steps, Jobs
    <3>2. Move(n, "renewer", k)
      BY <2>1, <3>1 DEF renewer_wakes
    <3> QED BY <1>2, <3>1, <3>2, MoveMoves DEF RenewerTask
  <2>2. CASE ctl[n].role # "Active"
    <3>1. Move(n, "renewer", Idle)
      BY <2>2 DEF renewer_wakes
    <3> QED BY <1>2, <3>1, IdleFields, MoveMoves DEF RenewerTask
  <2> QED BY <2>1, <2>2
<1>4. RoleTypes'
  BY <1>1, <1>3, TypesFromTasks DEF RoleInv, RoleTypes, TypeOK, Moved
<1>5. Epochs' /\ Leases'
  BY <1>1, <1>3, MovedKeepsClaims DEF RenewerTask
<1>6. Discipline'
  <2>1. ~Promotes(task[n]["renewer"]) /\ ~Promotes(k)
    BY <1>1, <1>3 DEF Promotes, PromotionSteps, PromotionJobs, RenewerTask
  <2>2. OthersKeepPermit(n) /\ Fits("renewer", k)
    BY <1>1, <1>3 DEF OthersKeepPermit, Fits
  <2> QED BY <1>1, <1>3, <2>1, <2>2, MovedDiscipline
<1>7. Binding'
  BY <1>1, <1>3 DEF RoleInv, Binding, Moved
<1> QED BY <1>4, <1>5, <1>6, <1>7 DEF RoleInv

LEMMA AdminPromoteInv ==
    ASSUME RoleInv, NEW n \in Node, admin_promote(n)
    PROVE  RoleInv'
<1> USE DEF Tasks
<1>1. /\ task[n]["admin"].at = "idle" /\ lease' = lease /\ operated' = TRUE
      /\ UNCHANGED <<ctl, db, writer_bound, opened, created, handed_back>>
  BY DEF admin_promote
<1>2. promotion_inflight \in [Node -> BOOLEAN]
  BY DEF RoleInv, RoleTypes, TypeOK
<1>3. PICK k \in TaskStates :
        /\ Moved(n, "admin", k) /\ k.reply.kind = "waiting"
        /\ \/ promotion_inflight[n] /\ Returned(k) /\ promotion_inflight' = promotion_inflight
           \/ /\ ~promotion_inflight[n] /\ k.at = "acquire" /\ k.job = "admin"
              /\ promotion_inflight' = [promotion_inflight EXCEPT ![n] = TRUE]
  BY BeginPromoteMoves DEF PromotionJobs, admin_promote
<1>4. RoleTypes'
  BY <1>1, <1>3, TypesFromTasks DEF RoleInv, RoleTypes, TypeOK, Moved
<1>5. Epochs' /\ Leases'
  BY <1>1, <1>3, MovedKeepsClaims DEF Returned, Quiet
<1>6. Discipline'
  <2>1. ~Promotes(task[n]["admin"]) /\ (Returned(k) => ~Promotes(k))
    BY <1>1, <1>3 DEF Promotes, PromotionSteps, PromotionJobs, Returned, Quiet
  <2>2. k.at = "acquire" /\ k.job = "admin" => Promotes(k)
    BY DEF Promotes, PromotionSteps, PromotionJobs
  <2>3. OthersKeepPermit(n)
    BY <1>2, <1>3 DEF OthersKeepPermit
  <2>4. Fits("admin", k)
    BY <1>3 DEF Fits, AdminTask, Returned, PromotionSteps
  <2> QED BY <1>2, <1>3, <2>1, <2>2, <2>3, <2>4, MovedDiscipline
<1>7. Binding'
  BY <1>1 DEF Binding
<1> QED BY <1>4, <1>5, <1>6, <1>7 DEF RoleInv

LEMMA AdminDemoteInv ==
    ASSUME RoleInv, NEW n \in Node, admin_demote(n)
    PROVE  RoleInv'
<1> USE DEF Tasks
<1>1. /\ task[n]["admin"].at = "idle" /\ lease' = lease /\ operated' = TRUE
      /\ UNCHANGED <<ctl, db, writer_bound, promotion_inflight, opened, created>>
  BY DEF admin_demote, server
<1>2. handed_back \in BOOLEAN
  BY DEF RoleInv, RoleTypes
<1>3. PICK k \in TaskStates : Moved(n, "admin", k) /\ Releasing(k, "demote")
  BY BeginReleaseMoves DEF Jobs, admin_demote
<1>4. RoleTypes'
  BY <1>1, <1>2, <1>3, TypesFromTasks DEF RoleInv, RoleTypes, TypeOK, Moved, Releasing
<1>5. Epochs' /\ Leases'
  BY <1>1, <1>3, MovedKeepsClaims DEF Releasing
<1>6. Discipline'
  <2>1. ~Promotes(task[n]["admin"]) /\ ~Promotes(k)
    BY <1>1, <1>3 DEF Promotes, PromotionSteps, PromotionJobs, Releasing
  <2>2. OthersKeepPermit(n) /\ Fits("admin", k)
    BY <1>1, <1>3 DEF OthersKeepPermit, Fits, AdminTask, Releasing
  <2> QED BY <1>1, <1>3, <2>1, <2>2, MovedDiscipline
<1>7. Binding'
  BY <1>1 DEF Binding
<1> QED BY <1>4, <1>5, <1>6, <1>7 DEF RoleInv

CtlStates == [role : {"Active", "Passive"}, epoch : 0..MaxEpoch, left : Released..Ttl]

\* A controller is left alone, stands down, or takes over a reply.
LEMMA CtlTypes ==
    ASSUME RoleTypes, NEW n \in Node, NEW t \in Tasks,
           UNCHANGED ctl \/ set_passive(n) \/ set_active(n, task[n][t].reply)
    PROVE  ctl' \in [Node -> CtlStates]
<1>1. ctl \in [Node -> CtlStates]
  BY DEF RoleTypes, TypeOK, CtlStates
<1>2. CASE set_passive(n)
  <2>1. Passive \in CtlStates
    BY Ranges DEF Passive, CtlStates, Left, Epoch
  <2> QED BY <1>1, <1>2, <2>1 DEF set_passive
<1>3. CASE set_active(n, task[n][t].reply)
  <2>1. task[n][t].reply \in Replies
    BY DEF RoleTypes, TaskStates
  <2>2. [role |-> "Active", epoch |-> task[n][t].reply.epoch, left |-> task[n][t].reply.left]
          \in CtlStates
    BY <2>1 DEF Replies, CtlStates
  <2> QED BY <1>1, <1>3, <2>2 DEF set_active
<1> QED BY <1>1, <1>2, <1>3

\* A promotion that returns drops its permit and its renewer.
LEMMA PromoteReturnsInv ==
    ASSUME RoleInv, NEW n \in Node, NEW t \in {"ha", "admin"}, NEW ok \in BOOLEAN,
           Promotes(task[n][t]), PromoteReturns(n, t, ok), lease' = lease,
           UNCHANGED <<db, writer_bound, created, operated, handed_back>>,
           UNCHANGED ctl \/ set_passive(n)
    PROVE  RoleInv'
<1> USE DEF Tasks
<1>1. PICK k \in TaskStates : Returned(k) /\ MovedBoth(n, t, k, Idle)
  BY PromoteReturnsMoves DEF RoleInv, RoleTypes, Promotes
<1>2. /\ promotion_inflight' = [promotion_inflight EXCEPT ![n] = FALSE]
      /\ opened' = [opened EXCEPT ![n] = "none"]
  BY DEF PromoteReturns
<1>3. RoleTypes'
  <2>1. ctl' \in [Node -> [role : {"Active", "Passive"}, epoch : 0..MaxEpoch,
                           left : Released..Ttl]]
    BY CtlTypes DEF RoleInv, CtlStates
  <2>2. /\ promotion_inflight' \in [Node -> BOOLEAN]
        /\ opened' \in [Node -> {"none", "writer", "fenced"}]
    BY <1>2 DEF RoleInv, RoleTypes, TypeOK
  <2> QED BY <1>1, <2>1, <2>2, TypesFromTasks DEF RoleInv, RoleTypes, TypeOK, MovedBoth
<1>4. Epochs' /\ Leases'
  <2>1. /\ k.reply.kind # "granted" /\ k.at # "release"
        /\ Idle.reply.kind # "granted" /\ Idle.at # "release" /\ Idle \in TaskStates
    BY <1>1, IdleFields DEF Returned, Quiet
  <2> QED BY <1>1, <2>1, MovedBothKeepsClaims
<1>5. Discipline'
  <2>1. ~Promotes(k) /\ Fits(t, k)
    BY <1>1 DEF Promotes, PromotionJobs, Fits, HaTask, AdminTask, Returned, Quiet
  <2>2. OthersKeepPermit(n) /\ promotion_inflight'[n] = FALSE
    BY <1>2 DEF OthersKeepPermit, RoleInv, RoleTypes, TypeOK
  <2>3. RenewerTask(Idle) /\ Idle \in TaskStates
    BY IdleFields DEF RenewerTask
  <2> QED BY <1>1, <2>1, <2>2, <2>3, MovedBothDiscipline
<1>6. Binding'
  <2> SUFFICES ASSUME ~operated, NEW m \in Node
               PROVE  /\ task'[m]["admin"].at = "idle"
                      /\ writer_bound'[m] => db'[m] \in Writers
                      /\ task'[m]["ha"].at \in {"check", "bind"} => opened'[m] \in Writers
                      /\ task'[m]["ha"].at = "rebind" => ~writer_bound'[m]
    BY DEF Binding
  <2>1. /\ task[m]["admin"].at = "idle"
        /\ writer_bound[m] => db[m] \in Writers
        /\ task[m]["ha"].at \in {"check", "bind"} => opened[m] \in Writers
        /\ task[m]["ha"].at = "rebind" => ~writer_bound[m]
    BY DEF RoleInv, Binding
  <2>2. CASE m # n
    <3>1. task'[m]["ha"] = task[m]["ha"] /\ task'[m]["admin"] = task[m]["admin"]
      BY <1>1, <2>2 DEF MovedBoth
    <3>2. opened'[m] = opened[m]
      BY <1>2, <2>2 DEF RoleInv, RoleTypes, TypeOK
    <3> QED BY <2>1, <3>1, <3>2
  <2>3. CASE m = n
    <3>1. t = "ha"
      BY <2>1, <2>3 DEF Promotes, PromotionSteps
    <3>2. task'[n]["ha"] = k /\ task'[n]["admin"] = task[n]["admin"]
      BY <1>1, <3>1 DEF MovedBoth
    <3> QED BY <1>1, <2>1, <2>3, <3>2 DEF Returned, Quiet
  <2> QED BY <2>2, <2>3
<1> QED BY <1>3, <1>4, <1>5, <1>6 DEF RoleInv

LEMMA AdminDroppedInv ==
    ASSUME RoleInv, NEW n \in Node, admin_dropped(n)
    PROVE  RoleInv'
<1> USE DEF Tasks
<1>1. /\ task[n]["admin"].at # "idle" /\ lease' = lease
      /\ UNCHANGED <<ctl, db, writer_bound, created, operated, handed_back>>
  BY DEF admin_dropped, history
<1>2. AdminTask(task[n]["admin"])
  BY DEF RoleInv, Discipline, TasksOK
<1>3. CASE task[n]["admin"].job = "admin"
  <2>1. Promotes(task[n]["admin"])
    BY <1>2, <1>3 DEF AdminTask, Promotes, Quiet, PromotionJobs
  <2>2. PromoteReturns(n, "admin", TRUE)
    BY <1>3 DEF admin_dropped
  <2> QED BY <1>1, <2>1, <2>2, PromoteReturnsInv
<1>4. CASE task[n]["admin"].job # "admin"
  <2>1. /\ Move(n, "admin", Idle) /\ UNCHANGED <<promotion_inflight, opened>>
    BY <1>4 DEF admin_dropped
  <2>2. Moved(n, "admin", Idle) /\ Idle \in TaskStates
    BY <2>1, MoveMoves, IdleFields DEF RoleInv, RoleTypes
  <2>3. RoleTypes'
    BY <1>1, <2>1, <2>2, TypesFromTasks DEF RoleInv, RoleTypes, TypeOK, Moved
  <2>4. Epochs' /\ Leases'
    BY <1>1, <2>2, MovedKeepsClaims, IdleFields
  <2>5. Discipline'
    <3>1. ~Promotes(task[n]["admin"]) /\ ~Promotes(Idle)
      BY <1>2, <1>4, IdleFields DEF Promotes, PromotionJobs, AdminTask, Quiet
    <3>2. OthersKeepPermit(n) /\ Fits("admin", Idle)
      BY <2>1, IdleFields DEF OthersKeepPermit, Fits, AdminTask, Quiet
    <3> QED BY <2>1, <2>2, <3>1, <3>2, MovedDiscipline
  <2>6. Binding'
    BY <1>1, <2>1, <2>2, IdleFields DEF RoleInv, Binding, Moved
  <2> QED BY <2>3, <2>4, <2>5, <2>6 DEF RoleInv
<1> QED BY <1>3, <1>4

LEMMA CrashInv ==
    ASSUME RoleInv, NEW n \in Node, crash(n)
    PROVE  RoleInv'
<1> USE DEF Tasks
<1> DEFINE fresh == [t \in Tasks |-> IF t = "ha" THEN At("boot", "none") ELSE Idle]
<1>1. At("boot", "none") \in TaskStates /\ At("boot", "none").at = "boot"
      /\ At("boot", "none").job = "none" /\ At("boot", "none").reply.kind = "waiting"
  BY AtFields DEF Steps, Jobs
<1>2. fresh \in [Tasks -> TaskStates] /\ fresh["ha"] = At("boot", "none")
      /\ fresh["admin"] = Idle /\ fresh["renewer"] = Idle
  BY <1>1, IdleFields
<1>3. task' = [task EXCEPT ![n] = fresh]
  BY DEF crash
<1> HIDE DEF fresh
<1>4. task \in [Node -> [Tasks -> TaskStates]]
  BY DEF RoleInv, RoleTypes
<1>5. /\ task' \in [Node -> [Tasks -> TaskStates]] /\ task'[n] = fresh
      /\ \A m \in Node : m # n => task'[m] = task[m]
  BY <1>2, <1>3, <1>4
<1>6. /\ set_passive(n) /\ db' = [db EXCEPT ![n] = "none"]
      /\ opened' = [opened EXCEPT ![n] = "none"]
      /\ writer_bound' = [writer_bound EXCEPT ![n] = FALSE]
      /\ promotion_inflight' = [promotion_inflight EXCEPT ![n] = FALSE]
      /\ lease' = lease /\ UNCHANGED <<created, operated, handed_back>>
  BY DEF crash, set_passive, history
<1>7. RoleTypes'
  <2>1. ctl' \in [Node -> [role : {"Active", "Passive"}, epoch : 0..MaxEpoch,
                           left : Released..Ttl]]
    BY <1>6, CtlTypes DEF RoleInv, CtlStates
  <2>2. /\ db' \in [Node -> {"none", "reader", "writer", "fenced"}]
        /\ opened' \in [Node -> {"none", "writer", "fenced"}]
        /\ writer_bound' \in [Node -> BOOLEAN] /\ promotion_inflight' \in [Node -> BOOLEAN]
    BY <1>6 DEF RoleInv, RoleTypes, TypeOK
  <2> QED BY <1>5, <1>6, <2>1, <2>2, TypesFromTasks DEF RoleInv, RoleTypes, TypeOK
<1>8. \A m \in Node, u \in Tasks :
        \/ task'[m][u] = task[m][u]
        \/ task'[m][u].reply.kind # "granted" /\ task'[m][u].at # "release"
  BY <1>1, <1>2, <1>5, IdleFields
<1>9. Epochs' /\ Leases'
  <2>1. NoNewClaims
    BY <1>5, <1>6, <1>8, ClaimsKept DEF RoleInv
  <2> QED BY <1>6, <1>8, <2>1, EpochsKept, LeasesKept DEF RoleInv
<1>10. Discipline'
  <2>1. TasksOK(fresh["ha"], fresh["admin"], fresh["renewer"], FALSE)
    BY <1>1, <1>2, IdleFields DEF TasksOK, HaTask, AdminTask, RenewerTask, Quiet, Promotes,
       PromotionSteps, PromotionJobs
  <2>2. /\ promotion_inflight'[n] = FALSE
        /\ \A m \in Node : m # n => promotion_inflight'[m] = promotion_inflight[m]
    BY <1>6 DEF RoleInv, RoleTypes, TypeOK
  <2> QED BY <1>5, <2>1, <2>2, DisciplineKept DEF RoleInv
<1>11. Binding'
  BY <1>1, <1>2, <1>5, <1>6, IdleFields DEF RoleInv, RoleTypes, TypeOK, Binding
<1> QED BY <1>7, <1>9, <1>10, <1>11 DEF RoleInv

-----------------------------------------------------------------------------
(* The steps of a promotion, of a renewal and of stepping down.            *)

\* Which task is at which step.
LEMMA WhoIsWhere ==
    ASSUME RoleInv, NEW n \in Node, NEW t \in Tasks
    PROVE  /\ Fits(t, task[n][t])
           /\ task[n][t].at \in {"acquire", "open", "check", "bind", "start"} =>
                t \in {"ha", "admin"} /\ Promotes(task[n][t])
           /\ task[n][t].at = "release" =>
                /\ t \in {"ha", "admin"}
                /\ task[n][t].job \in PromotionJobs \cup {"unbound", "demote"}
           /\ task[n][t].at \in {"detach", "rebind"} =>
                t \in {"ha", "admin"} /\ ~Promotes(task[n][t])
           /\ task[n][t].at = "renew" =>
                /\ \/ t = "ha" /\ task[n][t].job \in {"tick", "quiet"}
                   \/ t = "renewer" /\ task[n][t].job = "renewer"
                /\ ~Promotes(task[n][t])
<1>1. TasksOK(task[n]["ha"], task[n]["admin"], task[n]["renewer"], promotion_inflight[n])
  BY DEF RoleInv, Discipline
<1>2. CASE t = "ha"
  BY <1>1, <1>2 DEF TasksOK, HaTask, Fits, Promotes, Quiet, PromotionSteps, PromotionJobs
<1>3. CASE t = "admin"
  BY <1>1, <1>3 DEF TasksOK, AdminTask, Fits, Promotes, Quiet, PromotionSteps, PromotionJobs
<1>4. CASE t = "renewer"
  BY <1>1, <1>4 DEF TasksOK, RenewerTask, Fits, Promotes, Quiet, PromotionSteps, PromotionJobs
<1> QED BY <1>2, <1>3, <1>4 DEF Tasks

\* One task moves on and nothing but the controller changes with it: the
\* permit and what is bound are as before.
LEMMA MovedInv ==
    ASSUME RoleInv, NEW n \in Node, NEW t \in Tasks, NEW k \in TaskStates, Moved(n, t, k),
           lease' = lease, k.reply.kind # "granted", Fits(t, k),
           Promotes(k) <=> Promotes(task[n][t]),
           UNCHANGED <<db, writer_bound, promotion_inflight, opened, created, operated>>,
           \/ UNCHANGED ctl
           \/ set_passive(n)
           \/ set_active(n, task[n][t].reply) /\ task[n][t].reply.kind = "granted",
           \/ handed_back' = TRUE
           \/ /\ handed_back' = handed_back
              /\ k.at = "release" => k.reply.kind # "waiting",
           k.at # "rebind",
           k.at \in {"check", "bind"} => task[n][t].at = "check",
           t = "admin" => task[n][t].at # "idle"
    PROVE  RoleInv'
<1>1. RoleTypes'
  <2>1. ctl' \in [Node -> [role : {"Active", "Passive"}, epoch : 0..MaxEpoch,
                           left : Released..Ttl]]
    BY CtlTypes DEF RoleInv, CtlStates
  <2>2. handed_back' \in BOOLEAN
    BY DEF RoleInv, RoleTypes
  <2> QED BY <2>1, <2>2, TypesFromTasks DEF RoleInv, RoleTypes, TypeOK, Moved
<1>2. Epochs' /\ Leases'
  BY MovedKeepsClaims
<1>3. Discipline'
  BY MovedDiscipline DEF OthersKeepPermit
<1>4. Binding'
  BY DEF RoleInv, Binding, Moved, Tasks
<1> QED BY <1>1, <1>2, <1>3, <1>4 DEF RoleInv

LEMMA RenewRepliedInv ==
    ASSUME RoleInv, NEW n \in Node, NEW t \in Tasks, renew_replied(n, t)
    PROVE  RoleInv'
<1> DEFINE k == task[n][t]
<1>1. k.at = "renew" /\ k \in TaskStates /\ ~Waiting(k)
  BY DEF renew_replied, RoleInv, RoleTypes
<1>2. k.reply.kind \in {"granted", "denied", "error"}
  BY <1>1 DEF Waiting, TaskStates, Replies
<1>3. \/ UNCHANGED ctl
      \/ set_passive(n)
      \/ set_active(n, k.reply) /\ k.reply.kind = "granted"
  <2>1. CASE k.reply.kind = "granted"
    BY <2>1 DEF renew_replied
  <2>2. CASE k.reply.kind = "denied"
    BY <2>2 DEF renew_replied
  <2>3. CASE k.reply.kind = "error"
    BY <2>3 DEF renew_replied
  <2> QED BY <1>2, <2>1, <2>2, <2>3
<1>4. /\ lease' = lease
      /\ UNCHANGED <<db, writer_bound, promotion_inflight, opened, created, operated, handed_back>>
  BY DEF renew_replied, server, history
<1>5. /\ \/ t = "ha" /\ k.job \in {"tick", "quiet"}
         \/ t = "renewer" /\ k.job = "renewer"
      /\ ~Promotes(k)
  BY <1>1, WhoIsWhere
<1>6. PICK j \in TaskStates :
        /\ Move(n, t, j) /\ Fits(t, j) /\ ~Promotes(j) /\ j.reply.kind = "waiting"
        /\ j.at \in {"sleep", "idle", "detach"}
  <2>1. CASE k.job = "renewer"
    <3>1. PICK j \in TaskStates : /\ j = IF k.reply.kind = "granted" THEN At("sleep", "renewer") ELSE Idle
                                  /\ \/ j.at = "sleep" /\ j.job = "renewer"
                                     \/ j.at = "idle" /\ j.job = "none"
                                  /\ j.reply.kind = "waiting"
      BY AtFields, IdleFields DEF Steps, Jobs
    <3>2. Move(n, t, j)
      BY <2>1, <3>1 DEF renew_replied
    <3> QED BY <1>5, <2>1, <3>1, <3>2 DEF Fits, RenewerTask, Promotes, PromotionJobs
  <2>2. CASE k.job = "tick"
    <3>1. PICK j \in TaskStates : /\ j = IF k.reply.kind = "granted" THEN Idle ELSE At("detach", "none")
                                  /\ j.at \in {"idle", "detach"} /\ j.job = "none"
                                  /\ j.reply.kind = "waiting"
      BY AtFields, IdleFields DEF Steps, Jobs
    <3>2. Move(n, t, j)
      BY <2>2, <3>1 DEF renew_replied
    <3> QED BY <1>5, <2>2, <3>1, <3>2 DEF Fits, HaTask, Quiet, Promotes, PromotionJobs
  <2>3. CASE k.job = "quiet"
    <3>1. Move(n, t, Idle)
      BY <2>3 DEF renew_replied
    <3> QED BY <1>5, <2>3, <3>1, IdleFields DEF Fits, HaTask, Quiet, Promotes, PromotionJobs
  <2> QED BY <1>5, <2>1, <2>2, <2>3
<1>7. Moved(n, t, j)
  BY <1>6, MoveMoves DEF RoleInv, RoleTypes
<1> HIDE DEF k
<1> QED BY <1>3, <1>4, <1>5, <1>6, <1>7, MovedInv DEF k

LEMMA AcquireRepliedInv ==
    ASSUME RoleInv, NEW n \in Node, NEW t \in Tasks, acquire_replied(n, t)
    PROVE  RoleInv'
<1> DEFINE k == task[n][t]
<1>1. /\ k.at = "acquire" /\ k \in TaskStates /\ lease' = lease
      /\ UNCHANGED <<db, writer_bound, created, operated, handed_back>>
  BY DEF acquire_replied, RoleInv, RoleTypes, history
<1>2. t \in {"ha", "admin"} /\ Promotes(k) /\ Fits(t, k)
  BY <1>1, WhoIsWhere
<1>3. CASE k.reply.kind # "granted"
  <2>1. PromoteReturns(n, t, FALSE) /\ UNCHANGED ctl
    BY <1>3 DEF acquire_replied
  <2> QED BY <1>1, <1>2, <2>1, PromoteReturnsInv
<1>4. CASE k.reply.kind = "granted"
  <2>1. PICK j \in TaskStates : /\ j = At("open", k.job)
                                /\ j.at = "open" /\ j.job = k.job /\ j.reply.kind = "waiting"
    BY <1>1, AtFields DEF Steps, TaskStates
  <2>2. PICK r \in TaskStates : /\ r = At("sleep", "renewer")
                                /\ r.at = "sleep" /\ r.job = "renewer" /\ r.reply.kind = "waiting"
    BY AtFields DEF Steps, Jobs
  <2>3. /\ set_active(n, k.reply) /\ UNCHANGED <<promotion_inflight, opened>>
        /\ task' = [task EXCEPT ![n][t] = j, ![n]["renewer"] = r]
    BY <1>4, <2>1, <2>2 DEF acquire_replied
  <2>4. MovedBoth(n, t, j, r)
    BY <1>2, <2>3 DEF MovedBoth, RoleInv, RoleTypes, Tasks
  <2>5. RoleTypes'
    <3>1. ctl' \in [Node -> [role : {"Active", "Passive"}, epoch : 0..MaxEpoch,
                             left : Released..Ttl]]
      BY <2>3, CtlTypes DEF RoleInv, CtlStates
    <3> QED BY <1>1, <2>3, <2>4, <3>1, TypesFromTasks DEF RoleInv, RoleTypes, TypeOK, MovedBoth
  <2>6. Epochs' /\ Leases'
    BY <1>1, <1>4, <2>1, <2>2, <2>3, <2>4, MovedBothKeepsClaims
  <2>7. Discipline'
    <3>1. Promotes(j) /\ Fits(t, j) /\ RenewerTask(r)
      BY <1>1, <1>2, <2>1, <2>2 DEF Promotes, PromotionSteps, Fits, HaTask, AdminTask, RenewerTask, Quiet
    <3> QED BY <1>2, <2>3, <2>4, <3>1, MovedBothDiscipline DEF OthersKeepPermit
  <2>8. Binding'
    BY <1>1, <1>2, <2>1, <2>3, <2>4 DEF RoleInv, Binding, MovedBoth, Tasks
  <2> QED BY <2>5, <2>6, <2>7, <2>8 DEF RoleInv
<1> QED BY <1>3, <1>4

LEMMA OpenWriterInv ==
    ASSUME RoleInv, NEW n \in Node, NEW t \in Tasks, open_writer(n, t)
    PROVE  RoleInv'
<1> DEFINE job == task[n][t].job
<1>1. /\ task[n][t].at = "open" /\ task[n][t] \in TaskStates /\ job \in Jobs /\ lease' = lease
      /\ UNCHANGED <<ctl, writer_bound, promotion_inflight, operated>>
  BY DEF open_writer, RoleInv, RoleTypes, TaskStates
<1>2. t \in {"ha", "admin"} /\ Promotes(task[n][t]) /\ Fits(t, task[n][t])
  BY <1>1, WhoIsWhere
<1>3. CASE BeginRelease(n, t, job) /\ UNCHANGED <<db, opened, created>>
  <2>1. PICK k \in TaskStates : Moved(n, t, k) /\ Releasing(k, job)
    BY <1>1, <1>2, <1>3, BeginReleaseMoves
  <2>2. Promotes(k) /\ Fits(t, k)
    BY <1>1, <1>2, <2>1 DEF Releasing, Promotes, PromotionSteps, Fits, HaTask, AdminTask, Quiet
  <2> QED BY <1>1, <1>2, <1>3, <2>1, <2>2, MovedInv DEF Releasing
<1>4. CASE /\ db' = [m \in Node |-> Fence(db[m])]
           /\ opened' = [m \in Node |-> IF m = n THEN "writer" ELSE Fence(opened[m])]
           /\ created' = TRUE
           /\ Move(n, t, At("check", job))
           /\ UNCHANGED handed_back
  <2>1. PICK k \in TaskStates : /\ k = At("check", job)
                                /\ k.at = "check" /\ k.job = job /\ k.reply.kind = "waiting"
    BY <1>1, AtFields DEF Steps
  <2>2. Moved(n, t, k)
    BY <1>4, <2>1, MoveMoves DEF RoleInv, RoleTypes
  <2>3. RoleTypes'
    <3>1. /\ db' \in [Node -> {"none", "reader", "writer", "fenced"}]
          /\ opened' \in [Node -> {"none", "writer", "fenced"}]
      BY <1>4 DEF RoleInv, RoleTypes, TypeOK, Fence
    <3> QED BY <1>1, <1>4, <2>2, <3>1, TypesFromTasks DEF RoleInv, RoleTypes, TypeOK, Moved
  <2>4. Epochs' /\ Leases'
    BY <1>1, <1>4, <2>1, <2>2, MovedKeepsClaims
  <2>5. Discipline'
    <3>1. Promotes(k) /\ Fits(t, k)
      BY <1>1, <1>2, <2>1 DEF Promotes, PromotionSteps, Fits, HaTask, AdminTask, Quiet
    <3> QED BY <1>1, <1>2, <2>2, <3>1, MovedDiscipline DEF OthersKeepPermit
  <2>6. Binding'
    <3> SUFFICES ASSUME ~operated, NEW m \in Node
                 PROVE  /\ task'[m]["admin"].at = "idle"
                        /\ writer_bound'[m] => db'[m] \in Writers
                        /\ task'[m]["ha"].at \in {"check", "bind"} => opened'[m] \in Writers
                        /\ task'[m]["ha"].at = "rebind" => ~writer_bound'[m]
      BY <1>1 DEF Binding
    <3>1. /\ task[m]["admin"].at = "idle"
          /\ writer_bound[m] => db[m] \in Writers
          /\ task[m]["ha"].at \in {"check", "bind"} => opened[m] \in Writers
          /\ task[m]["ha"].at = "rebind" => ~writer_bound[m]
      BY DEF RoleInv, Binding
    <3>2. db'[m] = Fence(db[m]) /\ (opened[m] \in Writers => opened'[m] \in Writers)
          /\ opened'[n] \in Writers
      BY <1>4 DEF Fence, Writers
    <3>3. db[m] \in Writers => db'[m] \in Writers
      BY <3>2 DEF Fence, Writers
    <3>4. CASE m # n
      BY <1>1, <2>2, <3>1, <3>2, <3>3, <3>4 DEF Moved, Tasks
    <3>5. CASE m = n
      <4>1. t = "ha"
        BY <1>1, <1>2, <3>1, <3>5
      <4>2. task'[n]["ha"] = k /\ task'[n]["admin"] = task[n]["admin"]
        BY <2>2, <4>1 DEF Moved, Tasks
      <4> QED BY <1>1, <2>1, <3>1, <3>2, <3>3, <3>5, <4>2
    <3> QED BY <3>4, <3>5
  <2> QED BY <2>3, <2>4, <2>5, <2>6 DEF RoleInv
<1> QED BY <1>3, <1>4 DEF open_writer

LEMMA CheckLeaseInv ==
    ASSUME RoleInv, NEW n \in Node, NEW t \in Tasks, check_lease(n, t)
    PROVE  RoleInv'
<1> DEFINE job == task[n][t].job
<1>1. /\ task[n][t].at = "check" /\ task[n][t] \in TaskStates /\ job \in Jobs /\ lease' = lease
      /\ UNCHANGED <<ctl, db, writer_bound, created, operated, handed_back>>
  BY DEF check_lease, RoleInv, RoleTypes, TaskStates, history
<1>2. t \in {"ha", "admin"} /\ Promotes(task[n][t]) /\ Fits(t, task[n][t])
  BY <1>1, WhoIsWhere
<1>3. CASE is_active(n)
  <2>1. PICK k \in TaskStates : /\ k = At("bind", job)
                                /\ k.at = "bind" /\ k.job = job /\ k.reply.kind = "waiting"
    BY <1>1, AtFields DEF Steps
  <2>2. Move(n, t, k) /\ UNCHANGED <<promotion_inflight, opened>>
    BY <1>3, <2>1 DEF check_lease
  <2>3. Moved(n, t, k)
    BY <2>2, MoveMoves DEF RoleInv, RoleTypes
  <2>4. Promotes(k) /\ Fits(t, k)
    BY <1>1, <1>2, <2>1 DEF Promotes, PromotionSteps, Fits, HaTask, AdminTask, Quiet
  <2> QED BY <1>1, <1>2, <2>1, <2>2, <2>3, <2>4, MovedInv
<1>4. CASE ~is_active(n)
  <2>1. PromoteReturns(n, t, FALSE)
    BY <1>4 DEF check_lease
  <2> QED BY <1>1, <1>2, <2>1, PromoteReturnsInv
<1> QED BY <1>3, <1>4

LEMMA BindWriterInv ==
    ASSUME RoleInv, NEW n \in Node, NEW t \in Tasks, bind_writer(n, t)
    PROVE  RoleInv'
<1> DEFINE job == task[n][t].job
<1>1. /\ task[n][t].at = "bind" /\ task[n][t] \in TaskStates /\ job \in Jobs /\ lease' = lease
      /\ db' = [db EXCEPT ![n] = opened[n]] /\ opened' = [opened EXCEPT ![n] = "none"]
      /\ writer_bound' = [writer_bound EXCEPT ![n] = TRUE]
      /\ UNCHANGED <<ctl, promotion_inflight, created, operated, handed_back>>
  BY DEF bind_writer, RoleInv, RoleTypes, TaskStates, history
<1>2. t \in {"ha", "admin"} /\ Promotes(task[n][t]) /\ Fits(t, task[n][t])
  BY <1>1, WhoIsWhere
<1>3. PICK k \in TaskStates : /\ k = At("start", job)
                              /\ k.at = "start" /\ k.job = job /\ k.reply.kind = "waiting"
  BY <1>1, AtFields DEF Steps
<1>4. Moved(n, t, k)
  BY <1>3, MoveMoves DEF bind_writer, RoleInv, RoleTypes
<1>5. RoleTypes'
  <2>1. /\ db' \in [Node -> {"none", "reader", "writer", "fenced"}]
        /\ opened' \in [Node -> {"none", "writer", "fenced"}]
        /\ writer_bound' \in [Node -> BOOLEAN]
    BY <1>1 DEF RoleInv, RoleTypes, TypeOK
  <2> QED BY <1>1, <1>4, <2>1, TypesFromTasks DEF RoleInv, RoleTypes, TypeOK, Moved
<1>6. Epochs' /\ Leases'
  BY <1>1, <1>3, <1>4, MovedKeepsClaims
<1>7. Discipline'
  <2>1. Promotes(k) /\ Fits(t, k)
    BY <1>1, <1>2, <1>3 DEF Promotes, PromotionSteps, Fits, HaTask, AdminTask, Quiet
  <2> QED BY <1>1, <1>2, <1>4, <2>1, MovedDiscipline DEF OthersKeepPermit
<1>8. Binding'
  <2> SUFFICES ASSUME ~operated, NEW m \in Node
               PROVE  /\ task'[m]["admin"].at = "idle"
                      /\ writer_bound'[m] => db'[m] \in Writers
                      /\ task'[m]["ha"].at \in {"check", "bind"} => opened'[m] \in Writers
                      /\ task'[m]["ha"].at = "rebind" => ~writer_bound'[m]
    BY <1>1 DEF Binding
  <2>1. /\ task[m]["admin"].at = "idle"
        /\ writer_bound[m] => db[m] \in Writers
        /\ task[m]["ha"].at \in {"check", "bind"} => opened[m] \in Writers
        /\ task[m]["ha"].at = "rebind" => ~writer_bound[m]
    BY DEF RoleInv, Binding
  <2>2. CASE m # n
    <3>1. db'[m] = db[m] /\ opened'[m] = opened[m] /\ writer_bound'[m] = writer_bound[m]
      BY <1>1, <2>2 DEF RoleInv, RoleTypes, TypeOK
    <3> QED BY <1>4, <2>1, <2>2, <3>1 DEF Moved, Tasks
  <2>3. CASE m = n
    <3>1. t = "ha"
      BY <1>1, <1>2, <2>1, <2>3
    <3>2. task'[n]["ha"] = k /\ task'[n]["admin"] = task[n]["admin"] /\ db'[n] = opened[n]
      BY <1>1, <1>4, <3>1 DEF Moved, Tasks, RoleInv, RoleTypes, TypeOK
    <3> QED BY <1>1, <1>3, <2>1, <2>3, <3>1, <3>2
  <2> QED BY <2>2, <2>3
<1> QED BY <1>5, <1>6, <1>7, <1>8 DEF RoleInv

LEMMA StartLoopsInv ==
    ASSUME RoleInv, NEW n \in Node, NEW t \in Tasks, start_loops(n, t)
    PROVE  RoleInv'
<1>1. /\ task[n][t].at = "start" /\ lease' = lease
      /\ UNCHANGED <<ctl, db, writer_bound, created, operated, handed_back>>
  BY DEF start_loops, history
<1>2. t \in {"ha", "admin"} /\ Promotes(task[n][t])
  BY <1>1, WhoIsWhere
<1>3. PICK ok \in BOOLEAN : PromoteReturns(n, t, ok)
  BY DEF start_loops
<1> QED BY <1>1, <1>2, <1>3, PromoteReturnsInv

LEMMA ReleaseRepliedInv ==
    ASSUME RoleInv, NEW n \in Node, NEW t \in Tasks, release_replied(n, t)
    PROVE  RoleInv'
<1> DEFINE k == task[n][t]
           ok == k.reply.kind # "error"
<1>1. /\ k.at = "release" /\ k \in TaskStates /\ lease' = lease
      /\ UNCHANGED <<db, writer_bound, created, operated, handed_back>>
  BY DEF release_replied, RoleInv, RoleTypes, history
<1>2. /\ t \in {"ha", "admin"} /\ k.job \in PromotionJobs \cup {"unbound", "demote"}
      /\ Fits(t, k)
  BY <1>1, WhoIsWhere
<1>3. UNCHANGED ctl \/ set_passive(n)
  <2>1. CASE ok
    BY <2>1 DEF release_replied
  <2>2. CASE ~ok
    BY <2>2 DEF release_replied
  <2> QED BY <2>1, <2>2
<1>4. CASE k.job \in PromotionJobs
  <2>1. Promotes(k)
    BY <1>1, <1>4 DEF Promotes, PromotionSteps
  <2>2. PromoteReturns(n, t, FALSE)
    BY <1>4 DEF release_replied, PromotionJobs
  <2> QED BY <1>1, <1>2, <1>3, <2>1, <2>2, PromoteReturnsInv
<1>5. CASE k.job \in {"unbound", "demote"}
  <2>1. ~Promotes(k)
    BY <1>5 DEF Promotes, PromotionJobs
  <2>2. PICK j \in TaskStates : /\ Move(n, t, j) /\ Returned(j)
                                /\ UNCHANGED <<promotion_inflight, opened>>
    <3>1. CASE k.job = "demote"
      <4>1. PICK j \in TaskStates : /\ j = IF ok THEN At("detach", "none") ELSE Idle
                                    /\ Returned(j)
        BY AtFields, IdleFields DEF Steps, Jobs, Returned, Quiet
      <4>2. Move(n, t, j) /\ UNCHANGED <<promotion_inflight, opened>>
        BY <3>1, <4>1 DEF release_replied
      <4> QED BY <4>1, <4>2
    <3>2. CASE k.job = "unbound"
      <4>1. Move(n, t, ReaderIfUnbound(n)) /\ UNCHANGED <<promotion_inflight, opened>>
        BY <3>2 DEF release_replied
      <4> QED BY <4>1, ReaderFields
    <3> QED BY <1>5, <3>1, <3>2
  <2>3. Moved(n, t, j)
    BY <2>2, MoveMoves DEF RoleInv, RoleTypes
  <2>4. ~Promotes(j) /\ Fits(t, j) /\ j.reply.kind = "waiting" /\ j.at \in {"idle", "detach"}
    BY <1>2, <2>2 DEF Returned, Quiet, Promotes, PromotionJobs, Fits, HaTask, AdminTask
  <2> QED BY <1>1, <1>2, <1>3, <2>1, <2>2, <2>3, <2>4, MovedInv
<1> QED BY <1>2, <1>4, <1>5

LEMMA DetachInv ==
    ASSUME RoleInv, NEW n \in Node, NEW t \in Tasks, detach(n, t)
    PROVE  RoleInv'
<1>1. /\ task[n][t].at = "detach" /\ lease' = lease
      /\ writer_bound' = [writer_bound EXCEPT ![n] = FALSE]
      /\ UNCHANGED <<ctl, db, promotion_inflight, opened, created, operated, handed_back>>
  BY DEF detach, history
<1>2. t \in {"ha", "admin"} /\ ~Promotes(task[n][t])
  BY <1>1, WhoIsWhere
<1>3. PICK k \in TaskStates : /\ k = At("rebind", "none")
                              /\ k.at = "rebind" /\ k.job = "none" /\ k.reply.kind = "waiting"
  BY AtFields DEF Steps, Jobs
<1>4. Moved(n, t, k)
  BY <1>3, MoveMoves DEF detach, RoleInv, RoleTypes
<1>5. RoleTypes'
  <2>1. writer_bound' \in [Node -> BOOLEAN]
    BY <1>1 DEF RoleInv, RoleTypes, TypeOK
  <2> QED BY <1>1, <1>4, <2>1, TypesFromTasks DEF RoleInv, RoleTypes, TypeOK, Moved
<1>6. Epochs' /\ Leases'
  BY <1>1, <1>3, <1>4, MovedKeepsClaims
<1>7. Discipline'
  <2>1. ~Promotes(k) /\ Fits(t, k)
    BY <1>2, <1>3 DEF Promotes, PromotionSteps, Fits, HaTask, AdminTask, Quiet
  <2> QED BY <1>1, <1>2, <1>4, <2>1, MovedDiscipline DEF OthersKeepPermit
<1>8. Binding'
  <2>1. \A m \in Node : writer_bound'[m] => writer_bound[m] /\ m # n
    BY <1>1 DEF RoleInv, RoleTypes, TypeOK
  <2> QED BY <1>1, <1>2, <1>3, <1>4, <2>1 DEF RoleInv, Binding, Moved, Tasks
<1> QED BY <1>5, <1>6, <1>7, <1>8 DEF RoleInv

LEMMA RebindInv ==
    ASSUME RoleInv, NEW n \in Node, NEW t \in Tasks, rebind(n, t)
    PROVE  RoleInv'
<1>1. /\ task[n][t].at = "rebind" /\ lease' = lease
      /\ db' = [db EXCEPT ![n] = "reader"] \/ db' = [db EXCEPT ![n] = "none"]
      /\ UNCHANGED <<ctl, writer_bound, promotion_inflight, opened, created, operated, handed_back>>
  BY DEF rebind, history
<1>2. t \in {"ha", "admin"} /\ ~Promotes(task[n][t])
  BY <1>1, WhoIsWhere
<1>3. Moved(n, t, Idle) /\ Idle \in TaskStates
  BY IdleFields, MoveMoves DEF rebind, RoleInv, RoleTypes
<1>4. RoleTypes'
  <2>1. db' \in [Node -> {"none", "reader", "writer", "fenced"}]
    BY <1>1 DEF RoleInv, RoleTypes, TypeOK
  <2> QED BY <1>1, <1>3, <2>1, TypesFromTasks DEF RoleInv, RoleTypes, TypeOK, Moved
<1>5. Epochs' /\ Leases'
  BY <1>1, <1>3, IdleFields, MovedKeepsClaims
<1>6. Discipline'
  <2>1. ~Promotes(Idle) /\ Fits(t, Idle)
    BY <1>2, IdleFields DEF Promotes, PromotionSteps, Fits, HaTask, AdminTask, Quiet
  <2> QED BY <1>1, <1>2, <1>3, <2>1, MovedDiscipline DEF OthersKeepPermit
<1>7. Binding'
  <2>1. \A m \in Node : m # n => db'[m] = db[m]
    BY <1>1 DEF RoleInv, RoleTypes, TypeOK
  <2> QED BY <1>1, <1>2, <1>3, <2>1, IdleFields DEF RoleInv, Binding, Moved, Tasks
<1> QED BY <1>4, <1>5, <1>6, <1>7 DEF RoleInv

-----------------------------------------------------------------------------
(* The lease store.                                                        *)

LeaseStates == [holder : Node \cup {NoNode}, epoch : 0..MaxEpoch, left : Released..Ttl]

\* What the store makes of call k of node n: it leaves the row alone, gives n
\* the epoch it holds already or the next one, or ends n's lease.
Keeps(n, k) == Row(n, k) = lease /\ ~Granted(n, k)

Grants(n, k, epoch) ==
    /\ Granted(n, k) /\ k.at # "release"
    /\ Row(n, k) = Grant(n, epoch, k.age)
    /\ lease.holder = n \/ ~LiveAt(k.age)
    /\ \/ epoch = lease.epoch + 1
       \/ epoch = lease.epoch /\ lease.holder = n

Ends(n, k) ==
    /\ k.at = "release" /\ ~Granted(n, k)
    /\ Row(n, k) = [lease EXCEPT !.left = Released]

LEMMA RowCases ==
    ASSUME NEW n \in Node, NEW k, k.at \in {"acquire", "renew", "release"}
    PROVE  Keeps(n, k) \/ Ends(n, k) \/ \E epoch : Grants(n, k, epoch)
<1>1. CASE k.at = "acquire"
  <2>1. Row(n, k) = try_acquire(n, k.age) /\ (Granted(n, k) <=> Acquires(n, k.age))
    BY <1>1 DEF Row, Granted
  <2>2. CASE Acquires(n, k.age)
    <3>1. Row(n, k) = Grant(n, NextEpoch(n, k.age), k.age)
      BY <2>1, <2>2 DEF try_acquire
    <3>2. \/ NextEpoch(n, k.age) = lease.epoch + 1
          \/ NextEpoch(n, k.age) = lease.epoch /\ lease.holder = n
      BY DEF NextEpoch
    <3> QED BY <1>1, <2>1, <2>2, <3>1, <3>2 DEF Acquires, Grants
  <2>3. CASE ~Acquires(n, k.age)
    BY <2>1, <2>3 DEF try_acquire, Keeps
  <2> QED BY <2>2, <2>3
<1>2. CASE k.at = "renew"
  <2>1. Row(n, k) = renew(n, k.epoch, k.age) /\ (Granted(n, k) <=> Renews(n, k.epoch, k.age))
    BY <1>2 DEF Row, Granted
  <2>2. CASE Renews(n, k.epoch, k.age)
    BY <1>2, <2>1, <2>2 DEF renew, Renews, Grants
  <2>3. CASE ~Renews(n, k.epoch, k.age)
    BY <2>1, <2>3 DEF renew, Keeps
  <2> QED BY <2>2, <2>3
<1>3. CASE k.at = "release"
  <2>1. Row(n, k) = release(n, k.epoch) /\ ~Granted(n, k)
    BY <1>3 DEF Row, Granted
  <2> QED BY <1>3, <2>1 DEF release, Keeps, Ends
<1> QED BY <1>1, <1>2, <1>3

\* A grant: the one new claim is the holder's, newer than any other node's,
\* and no claim that reaches beyond the margin was another node's.
LEMMA GrantInv ==
    ASSUME RoleInv, NEW n \in Node, NEW t \in Tasks, NEW epoch \in Epoch, NEW age \in 0..MaxDelay,
           lease' = Grant(n, epoch, age),
           lease.holder = n \/ ~LiveAt(age),
           \/ epoch = lease.epoch + 1
           \/ epoch = lease.epoch /\ lease.holder = n,
           \A m \in Node, e \in Epoch, l \in Left :
              Claims(m, e, l)' =>
                 Claims(m, e, l) \/ (m = n /\ e = epoch /\ l = NewLeft(age)),
           handed_back' = handed_back,
           \A m \in Node, u \in Tasks :
              \/ task'[m][u] = task[m][u]
              \/ task'[m][u].reply.kind # "waiting"
    PROVE  Epochs' /\ Leases'
<1>1. /\ lease'.holder = n /\ lease'.epoch = epoch /\ lease'.left = NewLeft(age)
  BY DEF Grant
<1>2. /\ lease.epoch \in Int /\ lease.left \in Int /\ age \in Int /\ NewLeft(age) = Ttl - age
      /\ epoch \in Int
  BY RoleAssumption DEF RoleInv, RoleTypes, TypeOK, Released, NewLeft, Epoch
<1>3. Epochs'
  <2> SUFFICES ASSUME NEW m \in Node, NEW e \in Epoch, NEW l \in Left, Claims(m, e, l)'
               PROVE  /\ e <= lease'.epoch
                      /\ e = lease'.epoch => lease'.holder = m
                      /\ \A p \in Node, k \in Left : Claims(p, e, k)' => p = m
    BY DEF Epochs
  <2>1. \A p \in Node, k \in Left : Claims(p, e, k) =>
           e <= lease.epoch /\ (e = lease.epoch => lease.holder = p)
    BY DEF RoleInv, Epochs
  <2>2. \A p, q \in Node, j, k \in Left : Claims(p, e, k) /\ Claims(q, e, j) => p = q
    BY DEF RoleInv, Epochs
  <2>3. e \in Int
    BY RoleAssumption DEF Epoch
  <2>4. \A p \in Node, k \in Left : Claims(p, e, k)' =>
           Claims(p, e, k) \/ (p = n /\ e = epoch)
    OBVIOUS
  <2>5. CASE e = epoch
    <3>1. \A p \in Node, k \in Left : Claims(p, e, k) => p = n
      BY <1>2, <2>1, <2>3, <2>5
    <3>2. \A p \in Node, k \in Left : Claims(p, e, k)' => p = n
      BY <2>4, <3>1
    <3> QED BY <1>1, <1>2, <2>5, <3>2
  <2>6. CASE e # epoch
    <3>1. \A p \in Node, k \in Left : Claims(p, e, k)' => Claims(p, e, k)
      BY <2>4, <2>6
    <3>2. Claims(m, e, l)
      BY <3>1
    <3> QED BY <1>1, <1>2, <2>1, <2>2, <2>3, <2>6, <3>1, <3>2
  <2> QED BY <2>5, <2>6
<1>4. Leases'
  <2> SUFFICES ASSUME MaxDelay <= SafetyMargin, ~handed_back
               PROVE  /\ \A m \in Node, u \in Tasks :
                           task'[m][u].at = "release" => task'[m][u].reply.kind # "waiting"
                      /\ \A m \in Node, e \in Epoch, l \in Left :
                           Claims(m, e, l)' /\ l > SafetyMargin =>
                             lease'.holder = m /\ lease'.left >= l - MaxDelay
    BY DEF Leases
  <2>1. /\ \A m \in Node, u \in Tasks :
             task[m][u].at = "release" => task[m][u].reply.kind # "waiting"
        /\ \A m \in Node, e \in Epoch, l \in Left :
             Claims(m, e, l) /\ l > SafetyMargin =>
                lease.holder = m /\ lease.left >= l - MaxDelay
    BY DEF RoleInv, Leases
  <2>2. \A m \in Node, u \in Tasks :
          task'[m][u].at = "release" => task'[m][u].reply.kind # "waiting"
    BY <2>1
  <2>3. ASSUME NEW m \in Node, NEW e \in Epoch, NEW l \in Left, Claims(m, e, l)', l > SafetyMargin
        PROVE  lease'.holder = m /\ lease'.left >= l - MaxDelay
    <3>1. l \in Int /\ l <= Ttl
      BY RoleAssumption DEF Left, Released
    <3>2. lease'.left >= l - MaxDelay
      BY <1>1, <1>2, <3>1, RoleAssumption
    <3>3. CASE Claims(m, e, l)
      <4>1. lease.holder = m /\ lease.left >= l - MaxDelay
        BY <2>1, <2>3, <3>3
      <4>2. lease.left > 0
        BY <1>2, <2>3, <3>1, <4>1, RoleAssumption
      <4>3. LiveAt(age)
        BY <1>2, <4>2 DEF LiveAt
      <4> QED BY <1>1, <3>2, <4>1, <4>3
    <3>4. CASE m = n
      BY <1>1, <3>2, <3>4
    <3> QED BY <2>3, <3>3, <3>4
  <2> QED BY <2>2, <2>3
<1> QED BY <1>3, <1>4

\* The reply to call k: it is the call's own task that has it.
Answered(n, t, j) ==
    /\ Moved(n, t, j)
    /\ j.at = task[n][t].at /\ j.job = task[n][t].job /\ j.reply.kind # "waiting"

\* Everything but the lease and the claims.
LEMMA AnsweredInv ==
    ASSUME RoleInv, NEW n \in Node, NEW t \in Tasks, NEW j \in TaskStates, Answered(n, t, j),
           UNCHANGED <<ctl, server, history>>, lease' \in LeaseStates
    PROVE  RoleTypes' /\ Discipline' /\ Binding'
<1>1. RoleTypes'
  BY TypesFromTasks DEF RoleInv, RoleTypes, TypeOK, Answered, Moved, server, history, LeaseStates
<1>2. Discipline'
  <2>1. Fits(t, task[n][t])
    BY WhoIsWhere
  <2>2. Fits(t, j) /\ (Promotes(j) <=> Promotes(task[n][t]))
    BY <2>1 DEF Answered, Fits, HaTask, AdminTask, RenewerTask, Quiet, Promotes
  <2> QED BY <2>2, MovedDiscipline DEF Answered, OthersKeepPermit, server
<1>3. Binding'
  BY DEF RoleInv, Binding, Answered, Moved, server, history, Tasks
<1> QED BY <1>1, <1>2, <1>3

\* No claim comes with a reply that grants nothing.
LEMMA AnsweredNo ==
    ASSUME RoleInv, NEW n \in Node, NEW t \in Tasks, NEW j \in TaskStates, Answered(n, t, j),
           j.reply.kind # "granted", UNCHANGED <<ctl, server, history>>
    PROVE  /\ NoNewClaims
           /\ lease' = lease => Epochs' /\ Leases'
<1>1. NoNewClaims
  BY ClaimsKept DEF RoleInv, Answered, Moved
<1>2. lease' = lease => Epochs' /\ Leases'
  BY <1>1, EpochsKept, LeasesKept DEF RoleInv, Answered, Moved, history
<1> QED BY <1>1, <1>2

LEMMA ServeInv ==
    ASSUME RoleInv, NEW n \in Node, NEW t \in Tasks, Serve(n, t)
    PROVE  RoleInv'
<1> DEFINE k == task[n][t]
           row == Row(n, k)
<1>1. /\ Waiting(k) /\ UNCHANGED <<ctl, server, history>>
      /\ k \in TaskStates /\ lease \in LeaseStates /\ k.age \in 0..MaxDelay
  BY DEF Serve, RoleInv, RoleTypes, TypeOK, LeaseStates, TaskStates
<1>2. k.at \in {"acquire", "renew", "release"} /\ k.reply.kind = "waiting"
  BY <1>1 DEF Waiting
<1>3. ASSUME NEW kind \in {"denied", "error"}, Move(n, t, Replied(k, kind, 0, 0))
      PROVE  \E j \in TaskStates : Answered(n, t, j) /\ j.reply.kind # "granted"
  <2>1. PICK j \in TaskStates : /\ j = Replied(k, kind, 0, 0)
                                /\ j.at = k.at /\ j.job = k.job /\ j.reply.kind = kind
    BY <1>1, RefusedFields
  <2>2. Moved(n, t, j)
    BY <1>3, <2>1, MoveMoves DEF RoleInv, RoleTypes
  <2> QED BY <2>1, <2>2 DEF Answered
<1>4. CASE lease' = lease /\ Move(n, t, Failed(k))
  <2>1. PICK j \in TaskStates : Answered(n, t, j) /\ j.reply.kind # "granted"
    BY <1>3, <1>4 DEF Failed
  <2> QED BY <1>1, <1>4, <2>1, AnsweredInv, AnsweredNo DEF RoleInv
<1>5. CASE /\ row.epoch <= MaxEpoch /\ lease' = row
           /\ \/ Move(n, t, IF Granted(n, k) THEN Replied(k, "granted", row.epoch, row.left)
                            ELSE Replied(k, "denied", 0, 0))
              \/ Move(n, t, Failed(k))
  <2>1. CASE ~Granted(n, k)
    <3>1. PICK j \in TaskStates : Answered(n, t, j) /\ j.reply.kind # "granted"
      BY <1>3, <1>5, <2>1 DEF Failed
    <3>2. CASE Keeps(n, k)
      BY <1>1, <1>5, <3>1, <3>2, AnsweredInv, AnsweredNo DEF RoleInv, Keeps
    <3>3. CASE Ends(n, k)
      <4>1. /\ lease' = [lease EXCEPT !.left = Released]
            /\ k.at = "release"
        BY <1>5, <3>3 DEF Ends
      <4>2. lease' \in LeaseStates /\ lease'.epoch = lease.epoch /\ lease'.holder = lease.holder
        BY <1>1, <4>1, Ranges DEF LeaseStates, Left
      <4>3. Epochs'
        BY <1>1, <3>1, <4>2, AnsweredNo, EpochsKept DEF RoleInv
      <4>4. ~(MaxDelay <= SafetyMargin /\ ~handed_back)
        BY <1>2, <4>1 DEF RoleInv, Leases
      <4>5. Leases'
        BY <1>1, <4>4 DEF Leases, history
      <4> QED BY <1>1, <3>1, <4>2, <4>3, <4>5, AnsweredInv DEF RoleInv
    <3> QED BY <1>2, <2>1, <3>2, <3>3, RowCases DEF Grants
  <2>2. CASE Granted(n, k)
    <3>1. PICK epoch : Grants(n, k, epoch)
      BY <1>2, <2>2, RowCases DEF Keeps, Ends
    <3>2. /\ row = Grant(n, epoch, k.age)
          /\ lease.holder = n \/ ~LiveAt(k.age)
          /\ \/ epoch = lease.epoch + 1
             \/ epoch = lease.epoch /\ lease.holder = n
      BY <3>1 DEF Grants
    <3>3. row.epoch = epoch /\ row.left = NewLeft(k.age) /\ row.holder = n
      BY <3>2 DEF Grant
    <3>4. epoch \in Epoch /\ NewLeft(k.age) \in Left
      BY <1>1, <1>5, <3>2, <3>3, Ranges, RoleAssumption DEF LeaseStates, Epoch
    <3>5. row \in LeaseStates
      BY <3>2, <3>4 DEF Grant, LeaseStates, Epoch, Left
    <3>6. PICK j \in TaskStates :
            /\ Answered(n, t, j)
            /\ j.reply.kind = "granted" => j.reply.epoch = epoch /\ j.reply.left = NewLeft(k.age)
      <4>1. CASE Move(n, t, Failed(k))
        BY <1>3, <4>1 DEF Failed
      <4>2. CASE Move(n, t, Replied(k, "granted", row.epoch, row.left))
        <5>1. PICK j \in TaskStates : /\ j = Replied(k, "granted", epoch, NewLeft(k.age))
                                      /\ j.at = k.at /\ j.job = k.job /\ j.reply.kind = "granted"
                                      /\ j.reply.epoch = epoch /\ j.reply.left = NewLeft(k.age)
          BY <1>1, <3>4, RepliedFields
        <5>2. Moved(n, t, j)
          BY <3>3, <4>2, <5>1, MoveMoves DEF RoleInv, RoleTypes
        <5> QED BY <5>1, <5>2 DEF Answered
      <4> QED BY <1>5, <2>2, <4>1, <4>2
    <3>7. \A m \in Node, e \in Epoch, l \in Left :
            Claims(m, e, l)' =>
              Claims(m, e, l) \/ (m = n /\ e = epoch /\ l = NewLeft(k.age))
      <4> SUFFICES ASSUME NEW m \in Node, NEW e \in Epoch, NEW l \in Left, Claims(m, e, l)',
                          ~(m = n /\ e = epoch /\ l = NewLeft(k.age))
                   PROVE  Claims(m, e, l)
        OBVIOUS
      <4>1. CASE ctl'[m].role = "Active" /\ ctl'[m].epoch = e /\ ctl'[m].left = l
        BY <1>1, <4>1 DEF Claims
      <4>2. CASE \E u \in Tasks : LET r == task'[m][u].reply
                                  IN  r.kind = "granted" /\ r.epoch = e /\ r.left = l
        <5> PICK u \in Tasks : LET r == task'[m][u].reply
                               IN  r.kind = "granted" /\ r.epoch = e /\ r.left = l
          BY <4>2
        <5>1. task'[m][u] = task[m][u]
          BY <3>6 DEF Answered, Moved
        <5> QED BY <5>1 DEF Claims
      <4> QED BY <4>1, <4>2 DEF Claims
    <3>8. \A m \in Node, u \in Tasks :
            task'[m][u] = task[m][u] \/ task'[m][u].reply.kind # "waiting"
      BY <3>6 DEF Answered, Moved
    <3>9. Epochs' /\ Leases'
      <4>1. lease' = Grant(n, epoch, k.age) /\ handed_back' = handed_back
        BY <1>1, <1>5, <3>2 DEF history
      <4> QED BY <1>1, <3>2, <3>4, <3>7, <3>8, <4>1, GrantInv
    <3> QED BY <1>1, <1>5, <3>5, <3>6, <3>9, AnsweredInv DEF RoleInv
  <2> QED BY <2>1, <2>2
<1> QED BY <1>4, <1>5 DEF Serve

-----------------------------------------------------------------------------
(* Time.                                                                   *)

LEMMA LaterFacts ==
    ASSUME NEW left \in Left, NEW floor \in Left
    PROVE  /\ Later(left, floor) \in Left
           /\ Later(left, floor) >= left - 1
           /\ Later(left, floor) > floor => left = Later(left, floor) + 1
BY RoleAssumption DEF Later, Left, Released

\* A task one unit later.
LEMMA TaskLater ==
    ASSUME NEW k \in TaskStates, NEW age \in 0..MaxDelay
    PROVE  LET j == [k EXCEPT !.age = age, !.reply.left = Later(@, SafetyMargin)]
           IN  /\ j \in TaskStates /\ j.at = k.at /\ j.job = k.job
               /\ j.reply.kind = k.reply.kind /\ j.reply.epoch = k.reply.epoch
               /\ j.reply.left = Later(k.reply.left, SafetyMargin)
<1>1. k.reply \in Replies /\ k.reply.left \in Left
  BY DEF TaskStates, Replies, Left
<1>2. Later(k.reply.left, SafetyMargin) \in Released..Ttl
  BY <1>1, LaterFacts, Ranges DEF Left
<1> QED BY <1>1, <1>2 DEF TaskStates, Replies

LEMMA TickInv ==
    ASSUME RoleInv, tick
    PROVE  RoleInv'
<1>1. /\ lease \in LeaseStates /\ ctl \in [Node -> CtlStates]
      /\ task \in [Node -> [Tasks -> TaskStates]]
  BY DEF RoleInv, RoleTypes, TypeOK, LeaseStates, CtlStates
<1>2. /\ UNCHANGED <<db, writer_bound, promotion_inflight, opened, created, operated, handed_back>>
  BY DEF tick, server, history
<1>3. /\ lease' \in LeaseStates /\ lease'.holder = lease.holder /\ lease'.epoch = lease.epoch
      /\ lease'.left = Later(lease.left, Released)
  <2>1. Later(lease.left, Released) \in Released..Ttl
    BY <1>1, LaterFacts, Ranges DEF LeaseStates, Left
  <2> QED BY <1>1, <2>1 DEF tick, LeaseStates
<1>4. /\ ctl' \in [Node -> CtlStates]
      /\ \A n \in Node : /\ ctl'[n].role = ctl[n].role /\ ctl'[n].epoch = ctl[n].epoch
                         /\ ctl'[n].left = Later(ctl[n].left, SafetyMargin)
  <2>1. \A n \in Node : Later(ctl[n].left, SafetyMargin) \in Released..Ttl
    BY <1>1, LaterFacts, Ranges DEF CtlStates, Left
  <2>2. ctl' = [n \in Node |-> [ctl[n] EXCEPT !.left = Later(@, SafetyMargin)]]
    BY DEF tick
  <2> QED BY <1>1, <2>1, <2>2 DEF CtlStates
<1> DEFINE Age(k) == IF Waiting(k) THEN k.age + 1 ELSE k.age
           Aged(k) == [k EXCEPT !.age = Age(k), !.reply.left = Later(@, SafetyMargin)]
<1>5. \A n \in Node, t \in Tasks :
        /\ Aged(task[n][t]) \in TaskStates
        /\ Aged(task[n][t]).at = task[n][t].at /\ Aged(task[n][t]).job = task[n][t].job
        /\ Aged(task[n][t]).reply.kind = task[n][t].reply.kind
        /\ Aged(task[n][t]).reply.epoch = task[n][t].reply.epoch
        /\ Aged(task[n][t]).reply.left = Later(task[n][t].reply.left, SafetyMargin)
  <2> TAKE n \in Node, t \in Tasks
  <2>1. PICK k \in TaskStates : k = task[n][t]
    BY <1>1
  <2>2. Age(k) \in 0..MaxDelay
    <3>1. k.age \in 0..MaxDelay
      BY DEF TaskStates
    <3>2. Waiting(k) => k.age < MaxDelay
      BY <2>1 DEF tick
    <3> QED BY <3>1, <3>2, RoleAssumption
  <2> HIDE DEF Age
  <2>3. /\ Aged(k) \in TaskStates /\ Aged(k).at = k.at /\ Aged(k).job = k.job
        /\ Aged(k).reply.kind = k.reply.kind /\ Aged(k).reply.epoch = k.reply.epoch
        /\ Aged(k).reply.left = Later(k.reply.left, SafetyMargin)
    BY <2>2, TaskLater
  <2> QED BY <2>1, <2>3
<1>6. task' = [n \in Node |-> [t \in Tasks |-> Aged(task[n][t])]]
  BY DEF tick
<1> HIDE DEF Aged
<1>7. /\ task' \in [Node -> [Tasks -> TaskStates]]
      /\ \A n \in Node, t \in Tasks :
           /\ task'[n][t].at = task[n][t].at /\ task'[n][t].job = task[n][t].job
           /\ task'[n][t].reply.kind = task[n][t].reply.kind
           /\ task'[n][t].reply.epoch = task[n][t].reply.epoch
           /\ task'[n][t].reply.left = Later(task[n][t].reply.left, SafetyMargin)
  BY <1>5, <1>6
<1>8. RoleTypes'
  BY <1>2, <1>3, <1>4, <1>7, TypesFromTasks DEF RoleInv, RoleTypes, TypeOK, LeaseStates, CtlStates
<1>9. Discipline'
  <2> SUFFICES ASSUME NEW n \in Node
               PROVE  TasksOK(task'[n]["ha"], task'[n]["admin"], task'[n]["renewer"],
                              promotion_inflight'[n])
    BY DEF Discipline
  <2>1. TasksOK(task[n]["ha"], task[n]["admin"], task[n]["renewer"], promotion_inflight[n])
    BY DEF RoleInv, Discipline
  <2>2. \A t \in Tasks : task'[n][t].at = task[n][t].at /\ task'[n][t].job = task[n][t].job
    BY <1>7
  <2> QED BY <1>2, <2>1, <2>2 DEF Tasks, TasksOK, HaTask, AdminTask, RenewerTask, Promotes, Quiet
<1>10. Binding'
  BY <1>2, <1>7 DEF RoleInv, Binding, Tasks
<1>11. ASSUME NEW n \in Node, NEW e \in Epoch, NEW l \in Left, Claims(n, e, l)'
       PROVE  \E k \in Left : /\ Claims(n, e, k)
                              /\ l = Later(k, SafetyMargin)
  <2>1. CASE ctl'[n].role = "Active" /\ ctl'[n].epoch = e /\ ctl'[n].left = l
    <3>1. ctl[n].left \in Left
      BY <1>1 DEF CtlStates, Left
    <3> QED BY <1>4, <2>1, <3>1 DEF Claims
  <2>2. CASE \E t \in Tasks : LET r == task'[n][t].reply
                              IN  r.kind = "granted" /\ r.epoch = e /\ r.left = l
    <3> PICK t \in Tasks : LET r == task'[n][t].reply
                           IN  r.kind = "granted" /\ r.epoch = e /\ r.left = l
      BY <2>2
    <3>1. task[n][t].reply.left \in Left
      BY <1>1 DEF TaskStates, Replies, Left
    <3>2. /\ task[n][t].reply.kind = "granted" /\ task[n][t].reply.epoch = e
          /\ l = Later(task[n][t].reply.left, SafetyMargin)
      BY <1>7
    <3> QED BY <3>1, <3>2 DEF Claims
  <2> QED BY <1>11, <2>1, <2>2 DEF Claims
<1>12. Epochs'
  <2> SUFFICES ASSUME NEW n \in Node, NEW e \in Epoch, NEW l \in Left, Claims(n, e, l)'
               PROVE  /\ e <= lease'.epoch
                      /\ e = lease'.epoch => lease'.holder = n
                      /\ \A m \in Node, k \in Left : Claims(m, e, k)' => m = n
    BY DEF Epochs
  <2>1. PICK k \in Left : Claims(n, e, k)
    BY <1>11
  <2> QED BY <1>3, <1>11, <2>1 DEF RoleInv, Epochs
<1>13. Leases'
  <2> SUFFICES ASSUME MaxDelay <= SafetyMargin, ~handed_back
               PROVE  /\ \A n \in Node, t \in Tasks :
                           task'[n][t].at = "release" => task'[n][t].reply.kind # "waiting"
                      /\ \A n \in Node, e \in Epoch, l \in Left :
                           Claims(n, e, l)' /\ l > SafetyMargin =>
                             lease'.holder = n /\ lease'.left >= l - MaxDelay
    BY <1>2 DEF Leases
  <2>1. \A n \in Node, t \in Tasks :
          task'[n][t].at = "release" => task'[n][t].reply.kind # "waiting"
    BY <1>7 DEF RoleInv, Leases
  <2>2. ASSUME NEW n \in Node, NEW e \in Epoch, NEW l \in Left, Claims(n, e, l)', l > SafetyMargin
        PROVE  lease'.holder = n /\ lease'.left >= l - MaxDelay
    <3>1. PICK k \in Left : Claims(n, e, k) /\ l = Later(k, SafetyMargin)
      BY <1>11, <2>2
    <3>2. k = l + 1 /\ k \in Int /\ l \in Int
      BY <2>2, <3>1, LaterFacts, Ranges, RoleAssumption DEF Left, Released
    <3>3. lease.holder = n /\ lease.left >= k - MaxDelay
      BY <2>2, <3>1, <3>2, RoleAssumption DEF RoleInv, Leases
    <3>4. lease.left \in Left /\ lease.left \in Int /\ lease'.left \in Int
      BY <1>1, <1>3, RoleAssumption DEF LeaseStates, Left, Released
    <3>5. lease'.left >= lease.left - 1
      BY <1>3, <3>4, LaterFacts, Ranges
    <3> QED BY <1>3, <3>2, <3>3, <3>4, <3>5, RoleAssumption
  <2> QED BY <2>1, <2>2
<1> QED BY <1>8, <1>9, <1>10, <1>12, <1>13 DEF RoleInv

-----------------------------------------------------------------------------
(* The theorems.                                                           *)

LEMMA InitRole == Init => RoleInv
<1> SUFFICES ASSUME Init PROVE RoleInv
  OBVIOUS
<1> USE DEF Tasks
<1>1. /\ At("boot", "none") \in TaskStates /\ At("boot", "none").at = "boot"
      /\ At("boot", "none").job = "none" /\ At("boot", "none").reply.kind = "waiting"
  BY AtFields DEF Steps, Jobs
<1>2. /\ task \in [Node -> [Tasks -> TaskStates]]
      /\ \A n \in Node : /\ task[n]["ha"] = At("boot", "none")
                         /\ task[n]["admin"] = Idle /\ task[n]["renewer"] = Idle
  BY <1>1, IdleFields DEF Init
<1>3. RoleTypes
  <2>1. \A n \in Node, t \in Tasks : task[n][t] \in TaskStates
    BY <1>2
  <2>2. /\ lease \in [holder : Node \cup {NoNode}, epoch : 0..MaxEpoch, left : Released..Ttl]
        /\ Passive \in CtlStates
    BY Ranges DEF Init, Passive, CtlStates, Left, Epoch
  <2>3. \A n \in Node, t \in Tasks :
          /\ task[n][t].at \in Steps /\ task[n][t].job \in Jobs
          /\ task[n][t].age \in 0..MaxDelay
    BY <2>1 DEF TaskStates
  <2> QED BY <1>2, <2>2, <2>3 DEF Init, RoleTypes, TypeOK, CtlStates
<1>4. Discipline
  BY <1>1, <1>2, IdleFields DEF Init, Discipline, TasksOK, HaTask, AdminTask, RenewerTask, Quiet,
     Promotes, PromotionSteps, PromotionJobs
<1>5. \A n \in Node, e \in Epoch, l \in Left : ~Claims(n, e, l)
  BY <1>1, <1>2, IdleFields DEF Init, Passive, Claims
<1>6. Epochs /\ Leases
  BY <1>1, <1>2, <1>5, IdleFields DEF Epochs, Leases
<1>7. Binding
  BY <1>1, <1>2, IdleFields DEF Init, Binding
<1> QED BY <1>3, <1>4, <1>6, <1>7 DEF RoleInv

LEMMA NextRole == RoleInv /\ [Next]_vars => RoleInv'
<1> SUFFICES ASSUME RoleInv, [Next]_vars PROVE RoleInv'
  OBVIOUS
<1>1. CASE tick
  BY <1>1, TickInv
<1>2. ASSUME NEW n \in Node, NEW t \in Tasks, Step(n, t)
      PROVE  RoleInv'
  BY <1>2, ServeInv, RenewRepliedInv, AcquireRepliedInv, OpenWriterInv, CheckLeaseInv,
     BindWriterInv, StartLoopsInv, ReleaseRepliedInv, DetachInv, RebindInv DEF Step
<1>3. ASSUME NEW n \in Node,
             \/ bootstrap(n) \/ ha_tick(n) \/ renewer_wakes(n)
             \/ admin_promote(n) \/ admin_demote(n) \/ admin_dropped(n) \/ crash(n)
      PROVE  RoleInv'
  BY <1>3, BootstrapInv, HaTickInv, RenewerWakesInv, AdminPromoteInv, AdminDemoteInv,
     AdminDroppedInv, CrashInv
<1>4. CASE UNCHANGED vars
  BY <1>4 DEF vars, server, history, RoleInv, RoleTypes, TypeOK, Discipline, Epochs, Leases,
     Binding, Claims
<1> QED BY <1>1, <1>2, <1>3, <1>4 DEF Next

LEMMA RoleInvHolds == Spec => []RoleInv
BY InitRole, NextRole, PTL DEF Spec

\* For any number of nodes, any lifetimes and any delay: leases stay within the
\* TTL, calls within their bound, and every task at a step of its own.
THEOREM RoleTypeCorrect == Spec => []TypeOK
<1>1. RoleInv => TypeOK
  BY DEF RoleInv, RoleTypes
<1> QED BY <1>1, RoleInvHolds, PTL

\* Fencing tokens: no two controllers are ever Active under one epoch, whatever
\* replies were late, lost or reordered and however often nodes crashed.
THEOREM TokensNameOneNode == Spec => []EpochNamesOneNode
<1>1. RoleInv => EpochNamesOneNode
  <2> SUFFICES ASSUME RoleInv, NEW m \in Node, NEW n \in Node, m # n,
                      ctl[m].role = "Active", ctl[n].role = "Active",
                      ctl[m].epoch = ctl[n].epoch
               PROVE  FALSE
    BY DEF EpochNamesOneNode
  <2>1. ctl[m] \in CtlStates /\ ctl[n] \in CtlStates
    BY DEF RoleInv, RoleTypes, TypeOK, CtlStates
  <2>2. /\ ctl[m].epoch \in Epoch /\ ctl[m].left \in Left /\ ctl[n].left \in Left
        /\ Claims(m, ctl[m].epoch, ctl[m].left) /\ Claims(n, ctl[m].epoch, ctl[n].left)
    BY <2>1 DEF CtlStates, Epoch, Left, Claims
  <2> QED BY <2>2 DEF RoleInv, Epochs
<1> QED BY <1>1, RoleInvHolds, PTL

\* Self-fencing: with a margin that covers the longest call, and until a lease
\* is handed back, a node that believes it is active holds a live lease.
THEOREM ActiveNodesHoldTheLease == Spec => []ActiveHoldsLease
<1>1. RoleInv => ActiveHoldsLease
  <2> SUFFICES ASSUME RoleInv, MaxDelay <= SafetyMargin, ~handed_back,
                      NEW n \in Node, is_active(n)
               PROVE  lease.holder = n /\ lease.left > 0
    BY DEF ActiveHoldsLease
  <2>1. ctl[n] \in CtlStates /\ lease \in LeaseStates
    BY DEF RoleInv, RoleTypes, TypeOK, CtlStates, LeaseStates
  <2>2. /\ ctl[n].epoch \in Epoch /\ ctl[n].left \in Left /\ ctl[n].left > SafetyMargin
        /\ Claims(n, ctl[n].epoch, ctl[n].left)
    BY <2>1 DEF CtlStates, Epoch, Left, Claims, is_active
  <2>3. lease.holder = n /\ lease.left >= ctl[n].left - MaxDelay
    BY <2>2 DEF RoleInv, Leases
  <2>4. lease.left \in Int /\ ctl[n].left \in Int
    BY <2>1, RoleAssumption DEF LeaseStates, CtlStates, Released
  <2> QED BY <2>2, <2>3, <2>4, RoleAssumption
<1> QED BY <1>1, RoleInvHolds, PTL

\* The promotion permit is taken exactly while one promotion runs, also when
\* its request is dropped midway or its node restarts.
THEOREM PermitIsThePromotion == Spec => []PermitHeldByPromotion
<1>1. RoleInv => PermitHeldByPromotion
  <2> SUFFICES ASSUME RoleInv, NEW n \in Node
               PROVE  LET promoting == {t \in Tasks : task[n][t].job \in {"boot", "tick", "admin"}
                                                      /\ task[n][t].at # "renew"}
                      IN  /\ Cardinality(promoting) <= 1
                          /\ promotion_inflight[n] <=> promoting # {}
    BY DEF PermitHeldByPromotion
  <2> DEFINE promoting == {t \in Tasks : task[n][t].job \in {"boot", "tick", "admin"}
                                         /\ task[n][t].at # "renew"}
  <2>1. TasksOK(task[n]["ha"], task[n]["admin"], task[n]["renewer"], promotion_inflight[n])
    BY DEF RoleInv, Discipline
  <2>2. \A t \in Tasks : t \in promoting <=> t \in {"ha", "admin"} /\ Promotes(task[n][t])
    BY <2>1 DEF Tasks, TasksOK, HaTask, AdminTask, RenewerTask, Quiet, Promotes, PromotionSteps,
       PromotionJobs
  <2>3. promoting \subseteq Tasks
    OBVIOUS
  <2> HIDE DEF promoting
  <2>4. promoting = {} \/ promoting = {"ha"} \/ promoting = {"admin"}
    BY <2>1, <2>2, <2>3 DEF TasksOK, Tasks
  <2>5. Cardinality(promoting) <= 1
    <3>1. Cardinality({}) = 0 /\ Cardinality({"ha"}) = 1 /\ Cardinality({"admin"}) = 1
      BY FS_EmptySet, FS_Singleton
    <3> QED BY <2>4, <3>1
  <2>6. promotion_inflight[n] <=> promoting # {}
    BY <2>1, <2>2, <2>3 DEF TasksOK, Tasks
  <2> QED BY <2>5, <2>6 DEF promoting
<1> QED BY <1>1, RoleInvHolds, PTL

\* Left to the HA loops, no node accepts writes over the replica it was before.
THEOREM WritersAreBound == Spec => []WriterBoundToWriter
<1>1. RoleInv => WriterBoundToWriter
  BY DEF RoleInv, Binding, WriterBoundToWriter, is_writer, Writers
<1> QED BY <1>1, RoleInvHolds, PTL

\* The token in the lease row never goes back, and the lease changes hands
\* only once it is over, with a greater token.
THEOREM TokensAdvance == Spec => TokenAdvances
<1> DEFINE Advance == /\ lease'.epoch >= lease.epoch
                      /\ lease'.holder # lease.holder => lease.left <= 0 /\ lease'.epoch > lease.epoch
<1>1. RoleInv /\ [Next]_vars => [Advance]_vars
  <2> SUFFICES ASSUME RoleInv, Next PROVE Advance
    OBVIOUS
  <2>1. lease \in LeaseStates /\ lease.epoch \in Int
    BY RoleAssumption DEF RoleInv, RoleTypes, TypeOK, LeaseStates
  <2>2. CASE lease' = lease
    BY <2>1, <2>2
  <2>3. CASE tick
    <3>1. lease' = [lease EXCEPT !.left = Later(lease.left, Released)]
      BY <2>3 DEF tick
    <3>2. lease'.epoch = lease.epoch /\ lease'.holder = lease.holder
      BY <2>1, <3>1 DEF LeaseStates
    <3> QED BY <2>1, <3>2
  <2>4. ASSUME NEW n \in Node, NEW t \in Tasks, Serve(n, t)
        PROVE  Advance
    <3> DEFINE k == task[n][t]
    <3>1. k.at \in {"acquire", "renew", "release"} /\ (lease' = lease \/ lease' = Row(n, k))
      BY <2>4 DEF Serve, Waiting
    <3>2. CASE Keeps(n, k)
      BY <2>2, <3>1, <3>2 DEF Keeps
    <3>3. CASE Ends(n, k)
      BY <2>1, <2>2, <3>1, <3>3 DEF Ends, LeaseStates
    <3>4. ASSUME NEW epoch, Grants(n, k, epoch)
          PROVE  Advance
      <4>1. CASE lease' = Row(n, k)
        <5>1. lease'.epoch = epoch /\ lease'.holder = n
          BY <3>4, <4>1 DEF Grants, Grant
        <5>2. k.age \in Nat /\ lease.left \in Int
          BY <2>1, RoleAssumption DEF RoleInv, RoleTypes, TypeOK, Released
        <5>3. lease.holder # n => lease.left <= 0
          BY <3>4, <5>2 DEF Grants, LiveAt
        <5> QED BY <2>1, <3>4, <5>1, <5>3 DEF Grants
      <4> QED BY <2>2, <3>1, <4>1
    <3> QED BY <3>1, <3>2, <3>3, <3>4, RowCases
  <2>5. CASE lease' # lease
    <3>1. \A n \in Node : ~(bootstrap(n) \/ ha_tick(n) \/ renewer_wakes(n))
      BY <2>5 DEF bootstrap, ha_tick, renewer_wakes
    <3>2. \A n \in Node : ~(admin_promote(n) \/ admin_demote(n) \/ admin_dropped(n) \/ crash(n))
      BY <2>5 DEF admin_promote, admin_demote, admin_dropped, crash
    <3>3. \A n \in Node, t \in Tasks : ~(renew_replied(n, t) \/ acquire_replied(n, t))
      BY <2>5 DEF renew_replied, acquire_replied
    <3>4. \A n \in Node, t \in Tasks :
            ~(open_writer(n, t) \/ check_lease(n, t) \/ bind_writer(n, t) \/ start_loops(n, t))
      BY <2>5 DEF open_writer, check_lease, bind_writer, start_loops
    <3>5. \A n \in Node, t \in Tasks : ~(release_replied(n, t) \/ detach(n, t) \/ rebind(n, t))
      BY <2>5 DEF release_replied, detach, rebind
    <3>6. tick \/ \E n \in Node, t \in Tasks : Serve(n, t)
      BY <3>1, <3>2, <3>3, <3>4, <3>5 DEF Next, Step
    <3> QED BY <2>3, <2>4, <3>6
  <2> QED BY <2>2, <2>5
<1> QED BY <1>1, RoleInvHolds, PTL DEF Spec, TokenAdvances

=============================================================================
