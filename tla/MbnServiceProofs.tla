-------------------------- MODULE MbnServiceProofs --------------------------
(***************************************************************************)
(* Proofs about the MBN service, for any SIMs, profiles and requests, any  *)
(* number of operations and any number of faults.                          *)
(***************************************************************************)
EXTENDS MbnService, TLAPS

(* ---------------------------------------------------------------------- *)
(* Types                                                                   *)
(* ---------------------------------------------------------------------- *)

Labels == {"idle", "begin", "open", "inspect", "save", "cancelled", "preflight", "prepare",
           "apply", "applying", "autosel", "select", "waiting", "reboot", "reenumerate",
           "verifying", "readback", "upload", "uploading", "importing", "add", "added",
           "deleting", "delete", "deleted", "next", "observe", "poll", "candidate",
           "restore", "restoring", "close", "end", "leave"}
Phases == {"main", "loop", "trial", "delete", "restore"}
Stages == {"queued", "reading_original", "original_saved", "preparing", "applying",
           "waiting_reboot", "verifying", "uploading_to_modem", "importing", "deleting",
           "observing_registration", "candidate_complete", "restoring", "restored", "resuming"}
Errors == {"owner", "cancel", "goal", "other"}

Modems == [auto : BOOLEAN, selected : Profiles, activated : Profiles, installed : SUBSET Profiles]

Runs == [op : Nat, pc : Labels, then : Labels \cup {"none"}, phase : Phases, stage : Stages,
         original : Snapshots \cup {None}, current : Snapshots \cup {None}, errs : SUBSET Errors,
         left : Seq(Profiles), open : BOOLEAN, owner : Owners \cup {None}, epoch : Nat,
         target : Target \cup {None}]

AutoRequests == [kind : {"apply"}, target : Target, replacement : {None}, candidates : {<<>>},
                 restore : {0}, adds : Profiles \cup {None}]
Wanted == {Requests[name] : name \in DOMAIN Requests} \cup AutoRequests

Keys == ((DOMAIN Requests) \X {0} \X {None} \X {0} \X {0}) \cup ({"policy"} \X Nat \X Sims \X Nat \X Nat)

Operations == [key : Keys, request : Wanted, policy : BOOLEAN, owner : Owners,
               recoveryOf : SUBSET Nat, original : Snapshots \cup {None},
               current : Snapshots \cup {None}, status : Statuses, stage : Stages, cancel : BOOLEAN]

Overrides == [target : Target, gen : Nat]
Policies == [target : Target, import : BOOLEAN, version : Nat]
Recons == [pc : {"idle", "inspect", "start"}, owner : Owners \cup {None},
           policy : Policies \cup {None}, request : AutoRequests \cup {None}]

Typed ==
    /\ process \in {"up", "stopping", "down"} /\ session \in Nat
    /\ ops \in Seq(Operations) /\ run \in Runs /\ recon \in Recons
    /\ policies \in [PolicyKeys -> [choice : PolicyChoices, version : Nat]]
    /\ overrides \in [Sims -> Overrides \cup {None}]
    /\ modem \in Modems /\ owner \in Owners /\ epoch \in Nat /\ ready \in BOOLEAN
    /\ active \in Nat /\ dirty \in [Sims -> Nat] /\ lost \in SUBSET Nat /\ faults \in Nat

(* ---------------------------------------------------------------------- *)
(* Where the goroutine is                                                  *)
(* ---------------------------------------------------------------------- *)

\* Between two steps a run may look for a cancel: what counts is where it goes on.
Place == IF run.pc = "cancelled" THEN run.then ELSE run.pc

Ending == {"close", "end", "leave"}
Opening == {"begin", "open"}
\* The device session is open, its identity has been compared with the operation's,
\* and the request has been accepted.
Inside == Labels \ ({"idle", "cancelled"} \cup Opening \cup Ending)
Matched == Inside \ {"inspect"}
Working == Matched \ {"save", "preflight"}

Applies == {"apply", "applying", "autosel", "select", "waiting", "verifying", "readback"}
Reboots == {"reboot", "reenumerate"}
InApply == Place \in Applies \/ (Place \in Reboots /\ run.then = "verifying")
Observes == {"observe", "poll", "candidate"}
Imports == {"upload", "uploading", "importing", "add", "added"}
InDelete == Place \in {"deleting", "delete", "deleted"} \/ (Place \in Reboots /\ run.then = "deleted")

ThenAt ==
    /\ run.pc = "cancelled" => run.then \in {"preflight", "importing", "deleting", "next", "poll"}
    /\ run.pc \in Reboots => run.then \in {"verifying", "deleted"}
    /\ run.pc = "uploading" => run.then = "importing"
    /\ run.pc = "delete" => run.then = "deleted"

PhaseAt ==
    /\ Place = "next" <=> run.phase = "loop" /\ Place \notin Ending
    /\ Place \in Observes => run.phase = "trial"
    /\ Place \in Inside /\ ~InApply /\ Place \notin Observes /\ Place # "next" => run.phase = "main"
    /\ Place \in Opening => run.phase = "main"

KindAt ==
    LET kind == Request.kind IN
    /\ Place = "next" \/ Place \in Observes => kind = "trial"
    /\ InDelete => kind = "delete"
    /\ Place \in Imports => kind \in {"apply", "import"} /\ Request.adds \in Profiles
    /\ Place \in {"restore", "restoring"} => kind \in {"trial", "restore"}
    /\ InApply => CASE run.phase = "main" -> kind = "apply"
                    [] run.phase = "trial" -> kind = "trial"
                    [] run.phase = "delete" -> kind = "delete"
                    [] OTHER -> kind \in {"trial", "restore"}

\* What is running is the newest operation.
Busy == run.pc # "idle"
Counted ==
    /\ active = run.op
    /\ run.op = 0 <=> ~Busy
    /\ Busy => run.op = Len(ops)
    /\ ~Busy => run = NoRun
    /\ process = "down" => ~Busy /\ recon.pc = "idle"
    /\ lost \subseteq DOMAIN ops
    /\ \A i \in DOMAIN ops : ops[i].recoveryOf \subseteq 1..(i-1)
    /\ \A i \in DOMAIN ops : ops[i].request.kind = "restore" => ops[i].request.restore \in 1..(i-1)

Shared ==
    /\ Place \in Inside => run.open
    /\ run.open => recon.pc = "idle" /\ (Place \in Inside \/ Place = "close")
    /\ Place \in Inside => run.owner \in Owners
    /\ Place \in Matched => run.owner.sim = ops[run.op].owner.sim /\ run.original \in Snapshots

Backed ==
    /\ Busy /\ run.pc # "leave" => Running(ops[run.op]) /\ run.op \notin lost
    /\ Busy /\ run.pc = "leave" => ~Running(ops[run.op]) \/ run.op \in lost
    /\ process # "down" => \A i \in DOMAIN ops : Running(ops[i]) => i \in lost \/ run.op = i

\* The target is the one the request, the trial or the restore asks for.
AimAt ==
    /\ Place \in Working /\ Request.kind = "restore" => ops[Request.restore].original \in Snapshots
    /\ Place = "prepare" /\ Request.kind = "delete" /\ Request.target.profile \in InUse(run.original)
          => Request.replacement \in Profiles
    /\ Place \in Observes \/ InApply => run.target \in Target
    /\ Place = "select" => ~run.target.auto
    /\ Place = "next" => run.left # <<>>
    /\ run.phase \in {"loop", "trial"} => ToSet(run.left) \subseteq ToSet(Request.candidates)
    /\ Place \in Observes \/ (InApply /\ run.phase = "trial") =>
          ~run.target.auto /\ run.target.profile \in ToSet(Request.candidates)
    /\ InApply /\ run.phase = "main" => run.target = Request.target
    /\ InApply /\ run.phase = "restore" => run.target = RestoreTarget

\* The target is in force, said of the modem itself.
Shown(t) == modem.auto = t.auto /\ (t.auto \/ {modem.selected, modem.activated} = {t.profile})

\* What the modem shows when the operation has reached its aim, or a trial has put
\* back what it found.
GoalMet ==
    LET kind == Request.kind IN
    /\ kind = "apply" => Shown(Request.target)
    /\ kind = "import" => modem.installed \ run.original.installed # {}
    /\ kind = "delete" => Request.target.profile \notin modem.installed
    /\ kind = "restore" => Shown(ActiveChoice(ops[Request.restore].original))
    /\ kind = "trial" /\ run.stage = "restored" => Shown(ActiveChoice(run.original))
    /\ kind = "trial" /\ run.stage # "restored" =>
          \E p \in ToSet(Request.candidates) : Shown([auto |-> FALSE, profile |-> p])

Clean == dirty[ops[run.op].owner.sim] = 0

\* What a run that reports success, or that it restored, has read back.
ProvenAt ==
    /\ Place \in {"observe", "poll"} \/ (Place = "candidate" /\ run.errs = {}) =>
          Shown(run.target) /\ Clean /\ run.current \in Snapshots
    /\ run.pc \in {"close", "end"} /\ (run.errs = {} \/ run.stage = "restored") => GoalMet /\ Clean
    /\ run.stage = "restored" => run.pc \in Ending

Untouched == Opening \cup {"inspect", "save", "preflight", "prepare", "upload", "uploading", "importing"}

\* The stage that announces a write has been saved before it.
MarkedAt == run.pc \in {"autosel", "select", "add", "delete"} => run.stage \in Unconfirmed

DirtyAt ==
    /\ \A s \in Sims : dirty[s] # 0 => dirty[s] \in DOMAIN ops /\ ops[dirty[s]].owner.sim = s
    /\ Place \in Untouched => \A s \in Sims : dirty[s] # run.op
    /\ MarkedAt
    /\ \A s \in Sims : dirty[s] = run.op /\ Busy /\ run.pc # "leave" =>
          run.stage \in Unconfirmed \cup {"candidate_complete"}
    /\ \A s \in Sims : LET i == dirty[s] IN
          i # 0 /\ (i = run.op => run.pc = "leave") =>
             Running(ops[i]) \/ ops[i].status = "needs_attention" \/ ops[i].stage = "candidate_complete"
    /\ \A j \in DOMAIN ops : LET d == dirty[ops[j].owner.sim] IN
          ops[j].status = "succeeded" \/ (ops[j].status \in {"failed", "cancelled"} /\ ops[j].stage = "restored")
             => d = 0 \/ d > j

ReconAt ==
    /\ recon.pc # "idle" => /\ recon.owner \in Owners /\ recon.policy \in Policies
                            /\ Current(recon.owner) # None => recon.policy.target = Current(recon.owner).target
    /\ recon.pc = "start" => recon.request \in AutoRequests /\ recon.request.target = recon.policy.target


\* What most steps leave alone.
Locals(r, q) ==
    /\ q.op = r.op /\ q.left = r.left /\ q.open = r.open /\ q.owner = r.owner /\ q.epoch = r.epoch
    /\ q.original = r.original /\ q.current = r.current /\ q.target = r.target

\* The fields of a goroutine's state have their types.
LEMMA RunFields ==
    ASSUME NEW r \in Runs
    PROVE  /\ r.op \in Nat /\ r.pc \in Labels /\ r.then \in Labels \cup {"none"} /\ r.phase \in Phases
           /\ r.stage \in Stages /\ r.original \in Snapshots \cup {None} /\ r.current \in Snapshots \cup {None}
           /\ r.errs \in SUBSET Errors /\ r.left \in Seq(Profiles) /\ r.open \in BOOLEAN
           /\ r.owner \in Owners \cup {None} /\ r.epoch \in Nat /\ r.target \in Target \cup {None}
BY DEF Runs

\* Where an error leads (Service.trial, Service.restore, Service.run).
RaiseTo(r, e, q) ==
    /\ q \in Runs /\ Locals(r, q) /\ q.then = r.then
    /\ r.phase = "loop" => q.errs = e /\ q.phase = "main" /\ q.pc = "restore" /\ q.stage = r.stage
    /\ r.phase = "trial" => q.errs = e /\ q.phase = r.phase /\ q.pc = "candidate" /\ q.stage = r.stage
    /\ r.phase = "restore" =>
          q.errs = r.errs \cup e /\ q.phase = r.phase /\ q.pc = "close" /\ q.stage = "restoring"
    /\ r.phase \in {"main", "delete"} =>
          q.errs = r.errs \cup e /\ q.phase = r.phase /\ q.pc = "close" /\ q.stage = r.stage

\* An error leads where RaiseTo says, whatever the phase.
LEMMA RaiseShape ==
    ASSUME NEW r \in Runs, NEW e \in SUBSET Errors, NEW q, q = Raise(r, e)
    PROVE  RaiseTo(r, e, q)
<1>0. /\ {"main"} \subseteq Phases /\ {"restore", "candidate", "close"} \subseteq Labels /\ "restoring" \in Stages
      /\ r.errs \cup e \in SUBSET Errors
  BY RunFields DEF Phases, Labels, Stages
<1>1. CASE r.phase = "loop"
  <2>1. q = [r EXCEPT !.errs = e, !.phase = "main", !.pc = "restore"]
    BY <1>1 DEF Raise
  <2> QED BY <1>0, <1>1, <2>1, RunFields, ZenonT(40) DEF Runs, Locals, RaiseTo
<1>2. CASE r.phase = "trial"
  <2>1. q = [r EXCEPT !.errs = e, !.pc = "candidate"]
    BY <1>2 DEF Raise
  <2> QED BY <1>0, <1>2, <2>1, RunFields, ZenonT(40) DEF Runs, Locals, RaiseTo
<1>3. CASE r.phase = "restore"
  <2>1. q = [r EXCEPT !.errs = r.errs \cup e, !.stage = "restoring", !.pc = "close"]
    BY <1>3 DEF Raise
  <2> QED BY <1>0, <1>3, <2>1, RunFields, ZenonT(40) DEF Runs, Locals, RaiseTo
<1>4. CASE r.phase \in {"main", "delete"}
  <2>1. q = [r EXCEPT !.errs = r.errs \cup e, !.pc = "close"]
    BY <1>4 DEF Raise
  <2> QED BY <1>0, <1>4, <2>1, RunFields, ZenonT(40) DEF Runs, Locals, RaiseTo
<1> QED BY <1>1, <1>2, <1>3, <1>4, RunFields DEF Phases

\* Looking for a cancel first changes only where the goroutine is.
LEMMA LaterShape ==
    ASSUME NEW r \in Runs, NEW p \in Labels, NEW q, q = Later(r, p)
    PROVE  /\ q \in Runs /\ Locals(r, q) /\ q.then = p /\ q.pc = "cancelled"
           /\ q.phase = r.phase /\ q.stage = r.stage /\ q.errs = r.errs
<1>1. "cancelled" \in Labels
  BY DEF Labels
<1>2. q = [r EXCEPT !.pc = "cancelled", !.then = p]
  BY DEF Later
<1> QED BY <1>1, <1>2, RunFields DEF Runs, Locals

\* Applying a target changes only the target, the phase and the place.
LEMMA ApplyingShape ==
    ASSUME NEW r \in Runs, NEW t \in Target, NEW ph \in Phases, NEW q, q = Applying(r, t, ph)
    PROVE  /\ q \in Runs /\ q.pc = "apply" /\ q.phase = ph /\ q.target = t
           /\ q.op = r.op /\ q.left = r.left /\ q.open = r.open /\ q.owner = r.owner /\ q.epoch = r.epoch
           /\ q.original = r.original /\ q.current = r.current /\ q.then = r.then
           /\ q.stage = r.stage /\ q.errs = r.errs
<1>1. "apply" \in Labels
  BY DEF Labels
<1>2. q = [r EXCEPT !.target = t, !.phase = ph, !.pc = "apply"]
  BY DEF Applying
<1> QED BY <1>1, <1>2, RunFields, ZenonT(40) DEF Runs, Locals

(* ---------------------------------------------------------------------- *)
(* What a step of the goroutine does                                       *)
(* ---------------------------------------------------------------------- *)

\* The table keeps its operations; only the one that is running is written, and it
\* stays a running one.
Books ==
    /\ ops' \in Seq(Operations) /\ Len(ops') = Len(ops)
    /\ \A i \in DOMAIN ops : /\ ops'[i].key = ops[i].key /\ ops'[i].request = ops[i].request
                             /\ ops'[i].policy = ops[i].policy /\ ops'[i].owner = ops[i].owner
                             /\ ops'[i].recoveryOf = ops[i].recoveryOf
                             /\ i # run.op => ops'[i] = ops[i]
    /\ Running(ops[run.op]) => Running(ops'[run.op])

\* The goroutine goes on with what it knows.
Carries ==
    /\ run' \in Runs /\ run'.op = run.op /\ run'.left = run.left /\ run'.open = run.open
    /\ run'.owner = run.owner /\ run'.epoch = run.epoch /\ run'.original = run.original
    /\ run'.target = run.target /\ run'.errs = run.errs

\* It meets an error.
Stumbles ==
    /\ run' \in Runs /\ run'.op = run.op /\ run'.left = run.left /\ run'.open = run.open
    /\ run'.owner = run.owner /\ run'.epoch = run.epoch /\ run'.target = run.target
    /\ run'.original = run.original \/ run.pc = "inspect"
    /\ run'.errs # {}
    /\ \/ run.phase = "loop" /\ run'.phase = "main" /\ run'.pc = "restore"
       \/ run.phase = "trial" /\ run'.phase = "trial" /\ run'.pc = "candidate"
       \/ run.phase \in {"main", "delete", "restore"} /\ run'.phase = run.phase /\ run'.pc = "close"
    /\ \/ run'.stage = run.stage \/ run'.stage \in Unconfirmed
       \/ run.pc \in {"begin", "save", "upload", "observe"} /\ run'.stage # "restored"

\* Raise, from a goroutine that has noted what it read or announced.
LEMMA RaiseStumbles ==
    ASSUME run \in Runs, NEW r \in Runs, NEW e \in SUBSET Errors, e # {}, run' = Raise(r, e),
           r.op = run.op, r.left = run.left, r.open = run.open, r.owner = run.owner,
           r.epoch = run.epoch, r.target = run.target, r.phase = run.phase, r.errs = run.errs,
           r.original = run.original \/ run.pc = "inspect",
           \/ r.stage = run.stage \/ r.stage \in Unconfirmed
           \/ run.pc \in {"begin", "save", "upload", "observe"} /\ r.stage # "restored"
    PROVE  Stumbles
<1>1. PICK q : q = run'
  OBVIOUS
<1>2. RaiseTo(r, e, q)
  BY <1>1, RaiseShape
<1> QED BY <1>1, <1>2, RunFields DEF RaiseTo, Locals, Stumbles, Phases, Unconfirmed

\* A save writes the operation that is running and nothing that identifies it.
LEMMA SavedShape ==
    ASSUME ops \in Seq(Operations), NEW r \in Runs, r.op \in DOMAIN ops, NEW st \in Stages,
           NEW o, o = Saved(r, st)
    PROVE  /\ o \in Operations /\ o.key = ops[r.op].key /\ o.request = ops[r.op].request
           /\ o.policy = ops[r.op].policy /\ o.owner = ops[r.op].owner
           /\ o.recoveryOf = ops[r.op].recoveryOf /\ o.cancel = ops[r.op].cancel
           /\ o.stage = st /\ o.original = r.original /\ o.current = r.current
           /\ o.status \in {"running", "cancelling"}
<1>1. PICK p \in Operations : p = ops[r.op]
  OBVIOUS
<1>2. PICK status \in {"running", "cancelling"} : status = IF p.cancel THEN "cancelling" ELSE "running"
  OBVIOUS
<1>3. status \in Statuses
  BY <1>2 DEF Statuses
<1>4. o = [p EXCEPT !.stage = st, !.original = r.original, !.current = r.current, !.status = status]
  BY <1>1, <1>2 DEF Saved
<1> QED BY <1>1, <1>2, <1>3, <1>4, RunFields DEF Operations

\* A saved stage leaves every other operation alone.
LEMMA SavedBooks ==
    ASSUME ops \in Seq(Operations), NEW r \in Runs, r.op = run.op, run.op \in DOMAIN ops, NEW st \in Stages,
           ops' = [ops EXCEPT ![run.op] = Saved(r, st)]
    PROVE  Books /\ Running(ops'[run.op]) /\ ops'[run.op].stage = st
<1>1. PICK o : o = Saved(r, st)
  OBVIOUS
<1>2. ops' = [ops EXCEPT ![run.op] = o]
  BY <1>1
<1>3. ops'[run.op] = o /\ \A i \in DOMAIN ops \ {run.op} : ops'[i] = ops[i]
  BY <1>2
<1>4. o \in Operations
  BY <1>1, SavedShape
<1>5. ops' \in Seq(Operations) /\ Len(ops') = Len(ops)
  BY <1>2, <1>4
<1> QED BY <1>1, <1>3, <1>5, SavedShape DEF Books, Running

\* What the goroutine works with: its operation is in the table.
Engaged ==
    /\ ops \in Seq(Operations) /\ run \in Runs /\ run.op \in DOMAIN ops
    /\ modem \in Modems /\ owner \in Owners /\ epoch \in Nat /\ process \in {"up", "stopping", "down"}
    /\ dirty \in [Sims -> Nat] /\ overrides \in [Sims -> Overrides \cup {None}] /\ faults \in Nat
    /\ ready \in BOOLEAN

\* The stages a failed save may leave behind besides the one that is saved.
Announces(st) ==
    st = run.stage \/ st \in Unconfirmed \/ (run.pc \in {"begin", "save", "upload", "observe"} /\ st # "restored")

\* A checkpoint saves its stage and goes on, or meets an error and saves nothing.
LEMMA CheckpointShape ==
    ASSUME Engaged, NEW r \in Runs, Locals(run, r), r.phase = run.phase, r.errs = run.errs, r.stage = run.stage,
           NEW st \in Stages, NEW p \in Labels, Announces(st), Checkpoint(r, st, p)
    PROVE  /\ faults' \in Nat
           /\ \/ /\ process = "up" /\ Books /\ Carries
                 /\ run'.then = r.then /\ run'.current = run.current /\ run'.phase = run.phase
                 /\ run'.stage = st /\ run'.pc = p
              \/ UNCHANGED ops /\ Stumbles
<1>1. CASE /\ process = "up" /\ ops' = [ops EXCEPT ![r.op] = Saved(r, st)]
           /\ run' = [r EXCEPT !.stage = st, !.pc = p] /\ UNCHANGED faults
  <2>1. PICK q : q = run'
    OBVIOUS
  <2>2. q = [r EXCEPT !.stage = st, !.pc = p]
    BY <1>1, <2>1
  <2>3. /\ q \in Runs /\ Locals(r, q) /\ q.then = r.then /\ q.phase = r.phase /\ q.errs = r.errs
        /\ q.stage = st /\ q.pc = p
    BY <2>2, RunFields DEF Runs, Locals
  <2>4. Books
    BY <1>1, SavedBooks DEF Engaged, Locals
  <2> QED BY <1>1, <2>1, <2>3, <2>4 DEF Locals, Carries, Engaged
<1>2. ASSUME NEW e \in {"cancel", "other"}, NEW s \in {st, r.stage},
             Fails(e), run' = Raise([r EXCEPT !.stage = s], {e}), UNCHANGED ops
      PROVE  faults' \in Nat /\ Stumbles
  <2>1. PICK q : q = [r EXCEPT !.stage = s]
    OBVIOUS
  <2>2. s \in Stages /\ {e} \in SUBSET Errors /\ Announces(s)
    BY RunFields DEF Errors, Announces
  <2>3. /\ q \in Runs /\ Locals(r, q) /\ q.phase = r.phase /\ q.errs = r.errs /\ q.stage = s
    BY <2>1, <2>2, RunFields DEF Runs, Locals
  <2>4. run' = Raise(q, {e})
    BY <1>2, <2>1
  <2>5. faults' \in Nat
    BY <1>2 DEF Fails, Engaged
  <2>6. /\ q.op = run.op /\ q.left = run.left /\ q.open = run.open /\ q.owner = run.owner
        /\ q.epoch = run.epoch /\ q.target = run.target /\ q.original = run.original
    BY <2>3 DEF Locals
  <2>7. Stumbles
    BY <2>2, <2>3, <2>4, <2>6, RaiseStumbles DEF Engaged, Announces
  <2> QED BY <2>5, <2>7
<1> QED BY <1>1, <1>2 DEF Checkpoint

\* An error by itself.
LEMMA PlainRaise ==
    ASSUME Engaged, NEW e \in Errors, run' = Raise(run, {e})
    PROVE  Stumbles
<1>1. {e} \in SUBSET Errors /\ {e} # {} /\ run \in Runs
  BY DEF Engaged
<1> QED BY <1>1, RaiseStumbles

\* A failure that the world causes is an error like any other.
LEMMA FailsShape ==
    ASSUME Engaged, NEW e \in {"cancel", "other"}, Fails(e), run' = Raise(run, {e})
    PROVE  Stumbles /\ faults' \in Nat
<1>1. e \in Errors
  BY DEF Errors
<1>2. Stumbles
  BY <1>1, PlainRaise
<1> QED BY <1>2 DEF Fails, Engaged

\* A command that reads goes on or meets an error, and changes nothing of the modem.
LEMMA ReadShape ==
    ASSUME Engaged, NEW r, Read(r)
    PROVE  /\ faults' \in Nat /\ UNCHANGED <<modem, dirty>>
           /\ (Valid /\ process = "up" /\ run' = r) \/ Stumbles
BY FailsShape, PlainRaise DEF Read, Engaged, Errors

\* A command that writes is marked before it can change the modem; a session that is no
\* longer valid writes nothing.
LEMMA WriteShape ==
    ASSUME Engaged, NEW obeyed, obeyed \in SUBSET Modems, NEW r, Write(obeyed, r)
    PROVE  /\ faults' \in Nat /\ modem' \in Modems /\ dirty' \in [Sims -> Nat]
           /\ \/ /\ Valid /\ dirty' = [dirty EXCEPT ![owner.sim] = run.op]
                 /\ modem' \in obeyed \cup {modem}
                 /\ run' = r \/ Stumbles
              \/ ~Valid /\ Stumbles /\ UNCHANGED <<modem, dirty>>
<1>0. owner.sim \in Sims /\ run.op \in Nat
  BY RunFields DEF Engaged, Owners
<1>1. CASE Valid
  <2>1. dirty' = [dirty EXCEPT ![owner.sim] = run.op]
    BY <1>1 DEF Write
  <2>2. dirty' \in [Sims -> Nat]
    BY <1>0, <2>1 DEF Engaged
  <2>3. /\ faults' \in Nat /\ modem' \in obeyed \cup {modem}
        /\ run' = r \/ Stumbles
    BY <1>1, FailsShape DEF Write, Engaged
  <2> QED BY <1>1, <2>1, <2>2, <2>3 DEF Engaged
<1>2. CASE ~Valid
  BY <1>2, PlainRaise DEF Write, Engaged, Errors
<1> QED BY <1>1, <1>2

(* ---------------------------------------------------------------------- *)
(* What is read from the modem                                             *)
(* ---------------------------------------------------------------------- *)

\* A snapshot shows a target in force exactly when the modem has it in force.
LEMMA SnapshotShape ==
    ASSUME modem \in Modems, NEW o \in Owners
    PROVE  /\ Snapshot(o) \in Snapshots /\ Snapshot(o).owner = o
           /\ Snapshot(o).installed = modem.installed
           /\ \A t : InForce(t, Snapshot(o)) <=> Shown(t)
<1>1. Snapshot(o) \in Snapshots
  BY DEF Snapshot, Snapshots, Modems
<1> QED BY <1>1 DEF Snapshot, InForce, InUse, Shown

\* What a snapshot shows can be chosen and kept.
LEMMA ChoiceShape ==
    ASSUME NEW snap \in Snapshots
    PROVE  ActiveChoice(snap) \in Target /\ Choice(snap) \in Overrides
<1>1. snap.auto \in BOOLEAN /\ snap.activated \in Profiles /\ snap.owner.gen \in Nat
  BY DEF Snapshots, Owners
<1>2. ActiveChoice(snap) \in Target
  BY <1>1 DEF ActiveChoice, Target
<1> QED BY <1>1, <1>2 DEF Choice, Overrides

\* What the goroutine remembers when it has read the modem.
LEMMA FoundShape ==
    ASSUME Engaged, Valid, NEW q, q = Found
    PROVE  /\ q \in Runs /\ q.current \in Snapshots /\ q.current.owner = owner
           /\ q.op = run.op /\ q.left = run.left /\ q.open = run.open /\ q.owner = run.owner
           /\ q.epoch = run.epoch /\ q.original = run.original /\ q.target = run.target
           /\ q.then = run.then /\ q.phase = run.phase /\ q.stage = run.stage /\ q.errs = run.errs
           /\ q.pc = run.pc
<1>1. PICK snap \in Snapshots : snap = Snapshot(run.owner) /\ snap.owner = owner
  BY SnapshotShape DEF Engaged, Valid
<1>2. q = [run EXCEPT !.current = snap]
  BY <1>1 DEF Found
<1> QED BY <1>1, <1>2, RunFields DEF Runs, Engaged

\* The profile was found in force (Service.apply), and what follows in each phase.
Settles(phase) ==
    /\ Carries
    /\ run'.current \in Snapshots
    /\ UNCHANGED <<modem, faults>>
    /\ overrides' \in [Sims -> Overrides \cup {None}]
    /\ dirty' = [dirty EXCEPT ![owner.sim] = 0] /\ dirty' \in [Sims -> Nat]
    /\ phase = "trial" => run'.pc = "observe" /\ run'.phase = "trial" /\ run'.stage = run.stage
    /\ phase = "delete" => /\ run'.pc = "cancelled" /\ run'.then = "deleting"
                           /\ run'.phase = "main" /\ run'.stage = run.stage
    /\ phase = "restore" => run'.pc = "close" /\ run'.stage = "restored"
    /\ phase \in {"main", "loop"} => run'.pc = "close" /\ run'.stage = run.stage
    /\ phase \in {"main", "loop", "restore"} => run'.phase = phase

\* A confirmed profile clears the mark and leads where the phase says.
LEMMA ConfirmedShape ==
    ASSUME Engaged, Valid, NEW r \in Runs, r.current \in Snapshots, r.current.owner = owner,
           r.op = run.op, r.left = run.left, r.open = run.open, r.owner = run.owner,
           r.epoch = run.epoch, r.original = run.original, r.target = run.target,
           r.stage = run.stage, r.errs = run.errs, Confirmed(r)
    PROVE  Settles(r.phase)
<1>0. /\ {"observe", "close", "cancelled", "deleting"} \subseteq Labels /\ "main" \in Phases /\ "restored" \in Stages
  BY DEF Labels, Phases, Stages
<1>1. PICK q : q = run'
  OBVIOUS
<1>2. q = ApplyDone(r)
  BY <1>1 DEF Confirmed
<1>3. /\ q \in Runs /\ Locals(r, q) /\ q.errs = r.errs
      /\ r.phase = "trial" => q.pc = "observe" /\ q.phase = "trial" /\ q.stage = r.stage
      /\ r.phase = "delete" => /\ q.pc = "cancelled" /\ q.then = "deleting"
                               /\ q.phase = "main" /\ q.stage = r.stage
      /\ r.phase = "restore" => q.pc = "close" /\ q.stage = "restored"
      /\ r.phase \in {"main", "loop"} => q.pc = "close" /\ q.stage = r.stage
      /\ r.phase \in {"main", "loop", "restore"} => q.phase = r.phase
  <2>1. CASE r.phase = "trial"
    <3>1. q = [r EXCEPT !.pc = "observe"]
      BY <1>2, <2>1 DEF ApplyDone
    <3> QED BY <1>0, <2>1, <3>1, RunFields DEF Runs, Locals
  <2>2. CASE r.phase = "delete"
    <3>1. PICK m : m = [r EXCEPT !.phase = "main"]
      OBVIOUS
    <3>2. q = Later(m, "deleting")
      BY <1>2, <2>2, <3>1 DEF ApplyDone
    <3>3. m \in Runs /\ Locals(r, m) /\ m.phase = "main" /\ m.stage = r.stage /\ m.errs = r.errs
      BY <1>0, <3>1, RunFields DEF Runs, Locals
    <3>4. /\ q \in Runs /\ Locals(m, q) /\ q.then = "deleting" /\ q.pc = "cancelled"
          /\ q.phase = m.phase /\ q.stage = m.stage /\ q.errs = m.errs
      <4>1. "deleting" \in Labels
        BY DEF Labels
      <4> QED BY <4>1, <3>2, <3>3, LaterShape
    <3> QED BY <2>2, <3>3, <3>4 DEF Locals
  <2>3. CASE r.phase = "restore"
    <3>1. q = [r EXCEPT !.stage = "restored", !.pc = "close"]
      BY <1>2, <2>3 DEF ApplyDone
    <3> QED BY <1>0, <2>3, <3>1, RunFields DEF Runs, Locals
  <2>4. CASE r.phase \in {"main", "loop"}
    <3>1. q = [r EXCEPT !.pc = "close"]
      BY <1>2, <2>4 DEF ApplyDone
    <3> QED BY <1>0, <2>4, <3>1, RunFields DEF Runs, Locals
  <2> QED BY <2>1, <2>2, <2>3, <2>4, RunFields DEF Phases
<1>4. owner.sim \in Sims
  BY DEF Engaged, Owners
<1>5. overrides' \in [Sims -> Overrides \cup {None}]
  <2>1. PICK c \in Overrides : c = Choice(r.current)
    BY ChoiceShape
  <2>2. overrides' = overrides \/ overrides' = [overrides EXCEPT ![owner.sim] = c]
    BY <2>1 DEF Confirmed, Keep
  <2> QED BY <1>4, <2>1, <2>2 DEF Engaged
<1>6. dirty' = [dirty EXCEPT ![owner.sim] = 0] /\ dirty' \in [Sims -> Nat]
  BY <1>4 DEF Confirmed, Engaged
<1>7. UNCHANGED <<modem, faults>>
  BY DEF Confirmed
<1> QED BY <1>1, <1>3, <1>5, <1>6, <1>7 DEF Settles, Carries, Locals

(* ---------------------------------------------------------------------- *)
(* The steps of the goroutine, one by one                                  *)
(* ---------------------------------------------------------------------- *)

Frame == UNCHANGED <<process, session, policies, active, recon, owner, epoch, lost>> /\ faults' \in Nat
Still == Frame /\ UNCHANGED <<overrides, ready, modem, dirty>>

\* A table that does not change keeps its books.
LEMMA StillBooks ==
    ASSUME Engaged, UNCHANGED ops
    PROVE  Books
BY DEF Books, Engaged

\* A stage is saved and the goroutine goes on to p, or it stumbles.
Checks(st, p, t) ==
    /\ Still /\ Books
    /\ \/ /\ Carries /\ run'.then = t /\ run'.current = run.current /\ run'.phase = run.phase
          /\ run'.stage = st /\ run'.pc = p
       \/ Stumbles

\* A checkpoint, with everything it leaves alone.
LEMMA ChecksShape ==
    ASSUME Engaged, NEW r \in Runs, Locals(run, r), r.phase = run.phase, r.errs = run.errs, r.stage = run.stage,
           NEW st \in Stages, NEW p \in Labels, Announces(st), Checkpoint(r, st, p),
           UNCHANGED <<process, service, recon, device, dirty, lost>>
    PROVE  Checks(st, p, r.then)
<1>1. Still
  BY CheckpointShape DEF Still, Frame, service, device
<1> QED BY <1>1, CheckpointShape, StillBooks DEF Checks

\* The checkpoints.
LEMMA Checkpoints ==
    ASSUME Engaged
    PROVE  /\ Begin => run.pc = "begin" /\ Checks("reading_original", "open", run.then)
           /\ SaveOriginal => run.pc = "save" /\ Checks("original_saved", "cancelled", "preflight")
           /\ SaveApplying => run.pc = "applying" /\ Checks("applying", "autosel", run.then)
           /\ SaveWaiting => run.pc = "waiting" /\ Checks("waiting_reboot", "reboot", "verifying")
           /\ SaveVerifying => run.pc = "verifying" /\ Checks("verifying", "readback", run.then)
           /\ SaveUploading => run.pc = "upload" /\ Checks("uploading_to_modem", "uploading", "importing")
           /\ SaveImporting => run.pc = "importing" /\ Checks("importing", "add", run.then)
           /\ SaveDeleting => run.pc = "deleting" /\ Checks("deleting", "delete", "deleted")
           /\ SaveObserving => run.pc = "observe" /\ Checks("observing_registration", "cancelled", "poll")
           /\ SaveRestoring => run.pc = "restore" /\ Checks("restoring", "restoring", run.then)
<1>0. run \in Runs /\ Locals(run, run)
  BY DEF Engaged, Locals
<1>s. \A st \in {"reading_original", "original_saved", "applying", "waiting_reboot", "verifying",
                 "uploading_to_modem", "importing", "deleting", "observing_registration", "restoring"} :
         st \in Stages
  BY DEF Stages
<1>l. \A p \in {"open", "cancelled", "preflight", "autosel", "reboot", "verifying", "readback", "uploading",
                "importing", "add", "delete", "deleted", "poll", "restoring"} : p \in Labels
  BY DEF Labels
<1> USE DEF Announces, Unconfirmed, At
<1>2. Begin => run.pc = "begin" /\ Checks("reading_original", "open", run.then)
  BY <1>0, <1>s, <1>l, ChecksShape DEF Begin
<1>3. SaveApplying => run.pc = "applying" /\ Checks("applying", "autosel", run.then)
  BY <1>0, <1>s, <1>l, ChecksShape DEF SaveApplying
<1>4. SaveVerifying => run.pc = "verifying" /\ Checks("verifying", "readback", run.then)
  BY <1>0, <1>s, <1>l, ChecksShape DEF SaveVerifying
<1>5. SaveImporting => run.pc = "importing" /\ Checks("importing", "add", run.then)
  BY <1>0, <1>s, <1>l, ChecksShape DEF SaveImporting
<1>6. SaveRestoring => run.pc = "restore" /\ Checks("restoring", "restoring", run.then)
  BY <1>0, <1>s, <1>l, ChecksShape DEF SaveRestoring
<1>7. ASSUME SaveOriginal PROVE run.pc = "save" /\ Checks("original_saved", "cancelled", "preflight")
  <2>1. PICK r : r = [run EXCEPT !.then = "preflight"]
    OBVIOUS
  <2>2. Checkpoint(r, "original_saved", "cancelled")
    BY <1>7, <2>1 DEF SaveOriginal
  <2>3. "preflight" \in Labels
    BY DEF Labels
  <2>4. /\ r \in Runs /\ Locals(run, r) /\ r.then = "preflight"
        /\ r.phase = run.phase /\ r.errs = run.errs /\ r.stage = run.stage
    BY <2>1, <2>3, RunFields DEF Engaged, Locals, Runs
  <2> QED BY <1>7, <2>2, <2>4, <1>s, <1>l, ChecksShape DEF SaveOriginal
<1>8. ASSUME SaveWaiting PROVE run.pc = "waiting" /\ Checks("waiting_reboot", "reboot", "verifying")
  <2>1. PICK r : r = [run EXCEPT !.then = "verifying"]
    OBVIOUS
  <2>2. Checkpoint(r, "waiting_reboot", "reboot")
    BY <1>8, <2>1 DEF SaveWaiting
  <2>3. "verifying" \in Labels
    BY DEF Labels
  <2>4. /\ r \in Runs /\ Locals(run, r) /\ r.then = "verifying"
        /\ r.phase = run.phase /\ r.errs = run.errs /\ r.stage = run.stage
    BY <2>1, <2>3, RunFields DEF Engaged, Locals, Runs
  <2> QED BY <1>8, <2>2, <2>4, <1>s, <1>l, ChecksShape DEF SaveWaiting
<1>9. ASSUME SaveUploading PROVE run.pc = "upload" /\ Checks("uploading_to_modem", "uploading", "importing")
  <2>1. PICK r : r = [run EXCEPT !.then = "importing"]
    OBVIOUS
  <2>2. Checkpoint(r, "uploading_to_modem", "uploading")
    BY <1>9, <2>1 DEF SaveUploading
  <2>3. "importing" \in Labels
    BY DEF Labels
  <2>4. /\ r \in Runs /\ Locals(run, r) /\ r.then = "importing"
        /\ r.phase = run.phase /\ r.errs = run.errs /\ r.stage = run.stage
    BY <2>1, <2>3, RunFields DEF Engaged, Locals, Runs
  <2> QED BY <1>9, <2>2, <2>4, <1>s, <1>l, ChecksShape DEF SaveUploading
<1>10. ASSUME SaveDeleting PROVE run.pc = "deleting" /\ Checks("deleting", "delete", "deleted")
  <2>1. PICK r : r = [run EXCEPT !.then = "deleted"]
    OBVIOUS
  <2>2. Checkpoint(r, "deleting", "delete")
    BY <1>10, <2>1 DEF SaveDeleting
  <2>3. "deleted" \in Labels
    BY DEF Labels
  <2>4. /\ r \in Runs /\ Locals(run, r) /\ r.then = "deleted"
        /\ r.phase = run.phase /\ r.errs = run.errs /\ r.stage = run.stage
    BY <2>1, <2>3, RunFields DEF Engaged, Locals, Runs
  <2> QED BY <1>10, <2>2, <2>4, <1>s, <1>l, ChecksShape DEF SaveDeleting
<1>11. ASSUME SaveObserving PROVE run.pc = "observe" /\ Checks("observing_registration", "cancelled", "poll")
  <2>1. PICK r : r = [run EXCEPT !.then = "poll"]
    OBVIOUS
  <2>2. Checkpoint(r, "observing_registration", "cancelled")
    BY <1>11, <2>1 DEF SaveObserving
  <2>3. "poll" \in Labels
    BY DEF Labels
  <2>4. /\ r \in Runs /\ Locals(run, r) /\ r.then = "poll"
        /\ r.phase = run.phase /\ r.errs = run.errs /\ r.stage = run.stage
    BY <2>1, <2>3, RunFields DEF Engaged, Locals, Runs
  <2> QED BY <1>11, <2>2, <2>4, <1>s, <1>l, ChecksShape DEF SaveObserving
<1> QED BY <1>2, <1>3, <1>4, <1>5, <1>6, <1>7, <1>8, <1>9, <1>10, <1>11

\* Looking for a cancel: go on, or stop as an error does.
LEMMA CheckCancelledDoes ==
    ASSUME Engaged, ThenAt, CheckCancelled
    PROVE  run.pc = "cancelled" /\ Checks(run.stage, run.then, run.then)
<1>0. run.pc = "cancelled" /\ run.then \in Labels /\ run \in Runs /\ Locals(run, run) /\ run.stage \in Stages
  BY RunFields DEF CheckCancelled, At, ThenAt, Engaged, Labels, Locals
<1>1. CASE Checkpoint(run, run.stage, run.then)
  BY <1>0, <1>1, ChecksShape DEF CheckCancelled, Announces
<1>2. CASE /\ ops' = [ops EXCEPT ![run.op] = Saved(run, run.stage)]
           /\ run' = Raise(run, {"cancel"}) /\ UNCHANGED faults
  <2>1. Books
    BY <1>0, <1>2, SavedBooks DEF Engaged
  <2>2. "cancel" \in Errors
    BY DEF Errors
  <2>3. Stumbles
    BY <1>2, <2>2, PlainRaise
  <2> QED BY <1>0, <1>2, <2>1, <2>3 DEF Checks, Still, Frame, CheckCancelled, service, device, Engaged
<1> QED BY <1>1, <1>2 DEF CheckCancelled

\* A request that is not accepted ends before the services are stopped.
LEMMA PreflightDoes ==
    ASSUME Engaged, Preflight
    PROVE  /\ run.pc = "preflight" /\ Checks("preparing", "prepare", run.then)
           /\ run'.pc = "prepare" => Accepted
<1>0. /\ run.pc = "preflight" /\ "prepare" \in Labels /\ run \in Runs /\ Locals(run, run)
      /\ "preparing" \in Stages /\ Announces("preparing") /\ "other" \in Errors
  BY DEF Preflight, At, Engaged, Labels, Locals, Stages, Announces, Unconfirmed, Errors
<1>1. CASE Accepted /\ Checkpoint(run, "preparing", "prepare")
  BY <1>0, <1>1, ChecksShape DEF Preflight
<1>2. CASE run' = Raise(run, {"other"}) /\ UNCHANGED <<ops, faults>>
  <2>1. Stumbles /\ Books
    BY <1>0, <1>2, PlainRaise, StillBooks
  <2> QED BY <1>0, <1>2, <2>1 DEF Checks, Still, Frame, Preflight, service, device, Engaged, Stumbles
<1> QED BY <1>1, <1>2 DEF Preflight

\* A session opens for the worker that is there and for nobody who shares the device.
LEMMA OpenDoes ==
    ASSUME Engaged, Open
    PROVE  /\ run.pc = "open" /\ Still /\ UNCHANGED ops
           /\ \/ /\ ~DeviceShared /\ run' \in Runs /\ run'.op = run.op /\ run'.left = run.left
                 /\ run'.open = TRUE /\ run'.owner = owner
                 /\ run'.phase = run.phase /\ run'.stage = run.stage
                 /\ run'.errs = run.errs /\ run'.pc = "inspect"
              \/ Stumbles
<1>0. run.pc = "open" /\ UNCHANGED ops
  BY DEF Open, At
<1>1. CASE /\ process = "up" /\ ~DeviceShared /\ ready
           /\ run' = [run EXCEPT !.open = TRUE, !.owner = owner, !.epoch = epoch, !.pc = "inspect"]
           /\ UNCHANGED faults
  <2>1. PICK q : q = run'
    OBVIOUS
  <2>2. q = [run EXCEPT !.open = TRUE, !.owner = owner, !.epoch = epoch, !.pc = "inspect"]
    BY <1>1, <2>1
  <2>3. "inspect" \in Labels /\ owner \in Owners /\ epoch \in Nat
    BY DEF Labels, Engaged
  <2>4. /\ q \in Runs /\ q.op = run.op /\ q.left = run.left /\ q.open = TRUE /\ q.owner = owner
        /\ q.phase = run.phase /\ q.stage = run.stage /\ q.errs = run.errs /\ q.pc = "inspect"
    BY <2>2, <2>3, RunFields DEF Runs, Engaged
  <2> QED BY <1>0, <1>1, <2>1, <2>4 DEF Open, Still, Frame, service, device, Engaged
<1>2. CASE run' = Raise(run, {"other"}) /\ UNCHANGED faults
  <2>1. "other" \in Errors
    BY DEF Errors
  <2> QED BY <1>0, <1>2, <2>1, PlainRaise DEF Open, Still, Frame, service, device, Engaged
<1>3. ASSUME NEW e \in {"cancel", "other"}, Fails(e), run' = Raise(run, {e})
      PROVE  Stumbles /\ faults' \in Nat
  BY <1>3, FailsShape
<1> QED BY <1>0, <1>1, <1>2, <1>3 DEF Open, Still, Frame, service, device

\* ReadOriginal, on a session whose identity is the operation's.
LEMMA ReadOriginalDoes ==
    ASSUME Engaged, ReadOriginal
    PROVE  /\ run.pc = "inspect" /\ Still /\ UNCHANGED ops
           /\ \/ /\ run.owner = ops[run.op].owner
                 /\ run' \in Runs /\ run'.op = run.op /\ run'.left = run.left /\ run'.open = run.open
                 /\ run'.owner = run.owner /\ run'.original \in Snapshots
                 /\ run'.phase = run.phase /\ run'.stage = run.stage /\ run'.errs = run.errs
                 /\ run'.pc = "save"
              \/ Stumbles
<1>0. run.pc = "inspect" /\ UNCHANGED ops
  BY DEF ReadOriginal, At
<1>1. PICK new : /\ Read(new)
                 /\ new = IF run.owner = ops[run.op].owner
                          THEN [run EXCEPT !.original = Snapshot(run.owner), !.pc = "save"]
                          ELSE Raise([run EXCEPT !.original = Snapshot(run.owner)], {"owner"})
  BY DEF ReadOriginal
<1>2. Still
  BY <1>1, ReadShape DEF ReadOriginal, Still, Frame, service
<1>3. ASSUME Valid, run' = new
      PROVE  \/ /\ run.owner = ops[run.op].owner
                /\ run' \in Runs /\ run'.op = run.op /\ run'.left = run.left /\ run'.open = run.open
                /\ run'.owner = run.owner /\ run'.original \in Snapshots
                /\ run'.phase = run.phase /\ run'.stage = run.stage /\ run'.errs = run.errs
                /\ run'.pc = "save"
             \/ Stumbles
  <2>1. PICK snap \in Snapshots : snap = Snapshot(run.owner)
    BY <1>3, SnapshotShape DEF Engaged, Valid
  <2>2. CASE run.owner = ops[run.op].owner
    <3>1. PICK q : q = run'
      OBVIOUS
    <3>2. q = [run EXCEPT !.original = snap, !.pc = "save"]
      BY <1>1, <1>3, <2>1, <2>2, <3>1
    <3>3. "save" \in Labels
      BY DEF Labels
    <3>4. /\ q \in Runs /\ q.op = run.op /\ q.left = run.left /\ q.open = run.open
          /\ q.owner = run.owner /\ q.original \in Snapshots /\ q.phase = run.phase
          /\ q.stage = run.stage /\ q.errs = run.errs /\ q.pc = "save"
      BY <3>2, <3>3, RunFields DEF Runs, Engaged
    <3> QED BY <2>2, <3>1, <3>4
  <2>3. CASE run.owner # ops[run.op].owner
    <3>1. PICK r : r = [run EXCEPT !.original = snap]
      OBVIOUS
    <3>2. /\ r \in Runs /\ r.op = run.op /\ r.left = run.left /\ r.open = run.open
          /\ r.owner = run.owner /\ r.epoch = run.epoch /\ r.target = run.target
          /\ r.phase = run.phase /\ r.stage = run.stage /\ r.errs = run.errs
      BY <3>1, RunFields DEF Runs, Engaged
    <3>3. run' = Raise(r, {"owner"})
      BY <1>1, <1>3, <2>1, <2>3, <3>1
    <3>4. {"owner"} \in SUBSET Errors /\ {"owner"} # {} /\ run \in Runs
      BY DEF Errors, Engaged
    <3> QED BY <1>0, <3>2, <3>3, <3>4, RaiseStumbles
  <2> QED BY <2>2, <2>3
<1> QED BY <1>0, <1>1, <1>2, <1>3, ReadShape

\* What validateRequest, or Reconcile, guarantees of the request of an operation.
LEMMA WantedFacts ==
    ASSUME NEW r \in Wanted
    PROVE  /\ r.kind \in RequestKinds /\ r.adds \in Profiles \cup {None} /\ r.restore \in Nat
           /\ r.kind \in {"apply", "delete"} => r.target \in Target
           /\ r.kind = "delete" => r.target.profile \in Profiles
           /\ r.kind = "import" => r.adds \in Profiles
           /\ r.kind = "trial" => r.candidates \in Seq(Profiles) /\ r.candidates # <<>>
<1>1. CASE r \in AutoRequests
  BY <1>1 DEF AutoRequests, RequestKinds
<1>2. ASSUME NEW name \in DOMAIN Requests, r = Requests[name]
      PROVE  /\ r.kind \in RequestKinds /\ r.adds \in Profiles \cup {None} /\ r.restore \in Nat
             /\ r.kind \in {"apply", "delete"} => r.target \in Target
             /\ r.kind = "delete" => ~r.target.auto
             /\ r.kind = "import" => r.adds \in Profiles
             /\ r.kind = "trial" => r.candidates \in Seq(Profiles) /\ r.candidates # <<>>
  BY <1>2, RequestAssumption DEF RequestAssumption, validateRequest
<1>3. \A t \in Target : ~t.auto => t.profile \in Profiles
  BY DEF Target
<1> QED BY <1>1, <1>2, <1>3 DEF Wanted

\* The operation that runs has a request that was validated.
LEMMA RequestWanted ==
    ASSUME Engaged
    PROVE  Request \in Wanted
<1>1. PICK p \in Operations : p = ops[run.op]
  BY DEF Engaged
<1>2. p.request \in Wanted
  BY DEF Operations
<1> QED BY <1>1, <1>2 DEF Request

\* perform: how each kind of operation begins.
Sets(p, ph) ==
    /\ run' \in Runs /\ run'.op = run.op /\ run'.open = run.open /\ run'.owner = run.owner
    /\ run'.original = run.original /\ run'.stage = run.stage /\ run'.pc = p /\ run'.phase = ph
Begins ==
    \/ /\ Request.kind \in {"apply", "import"} /\ Request.adds \in Profiles
       /\ Sets("upload", run.phase)
    \/ Request.kind = "apply" /\ Sets("apply", "main") /\ run'.target = Request.target
    \/ /\ Request.kind = "trial" /\ Sets("cancelled", "loop") /\ run'.then = "next"
       /\ run'.left = Request.candidates
    \/ Request.kind = "restore" /\ Sets("restore", run.phase)
    \/ Request.kind = "delete" /\ Sets("apply", "delete") /\ run'.target \in Target
    \/ Request.kind = "delete" /\ Sets("cancelled", run.phase) /\ run'.then = "deleting"

\* What each kind of request does first.
LEMMA PrepareDoes ==
    ASSUME Engaged, Prepare,
           Request.kind = "delete" /\ Request.target.profile \in InUse(run.original)
              => Request.replacement \in Profiles
    PROVE  run.pc = "prepare" /\ Still /\ UNCHANGED ops /\ (Begins \/ Stumbles)
<1>0. run.pc = "prepare" /\ UNCHANGED ops /\ Read(FirstStep)
  BY DEF Prepare, At
<1>1. Still
  BY <1>0, ReadShape DEF Prepare, Still, Frame, service
<1>2. PICK w \in Wanted : w = Request
  BY RequestWanted
<1>3. "next" \in Labels /\ "deleting" \in Labels /\ "restore" \in Labels /\ "upload" \in Labels
      /\ "main" \in Phases /\ "loop" \in Phases /\ "delete" \in Phases
  BY DEF Labels, Phases
<1>4. ASSUME run' = FirstStep PROVE Begins
  <2>0. PICK q : q = run'
    OBVIOUS
  <2>1. CASE w.kind = "apply"
    <3>1. CASE ~CanApply(w.target, run.original) /\ w.adds # None
      <4>1. q = [run EXCEPT !.pc = "upload"]
        BY <1>2, <1>4, <2>0, <2>1, <3>1 DEF FirstStep
      <4>2. /\ q \in Runs /\ Locals(run, q) /\ q.phase = run.phase /\ q.stage = run.stage /\ q.pc = "upload"
        BY <1>3, <4>1, RunFields DEF Runs, Locals, Engaged
      <4>3. w.adds \in Profiles
        BY <3>1, WantedFacts
      <4> QED BY <1>2, <2>0, <2>1, <4>2, <4>3 DEF Begins, Sets, Locals
    <3>2. CASE ~(~CanApply(w.target, run.original) /\ w.adds # None)
      <4>1. q = Applying(run, w.target, "main")
        BY <1>2, <1>4, <2>0, <2>1, <3>2 DEF FirstStep
      <4>2. w.target \in Target /\ run \in Runs
        BY <2>1, WantedFacts DEF Engaged
      <4> QED BY <1>2, <1>3, <2>0, <2>1, <4>1, <4>2, ApplyingShape DEF Begins, Sets
    <3> QED BY <3>1, <3>2
  <2>2. CASE w.kind = "import"
    <3>1. q = [run EXCEPT !.pc = "upload"]
      BY <1>2, <1>4, <2>0, <2>2 DEF FirstStep
    <3>2. /\ q \in Runs /\ Locals(run, q) /\ q.phase = run.phase /\ q.stage = run.stage /\ q.pc = "upload"
      BY <1>3, <3>1, RunFields DEF Runs, Locals, Engaged
    <3>3. w.adds \in Profiles
      BY <2>2, WantedFacts
    <3> QED BY <1>2, <2>0, <2>2, <3>2, <3>3 DEF Begins, Sets, Locals
  <2>3. CASE w.kind = "trial"
    <3>1. PICK r : r = [run EXCEPT !.left = w.candidates, !.phase = "loop"]
      OBVIOUS
    <3>2. q = Later(r, "next")
      BY <1>2, <1>4, <2>0, <2>3, <3>1 DEF FirstStep
    <3>3. w.candidates \in Seq(Profiles)
      BY <2>3, WantedFacts
    <3>4. /\ r \in Runs /\ r.op = run.op /\ r.open = run.open /\ r.owner = run.owner
          /\ r.original = run.original /\ r.stage = run.stage /\ r.left = w.candidates /\ r.phase = "loop"
      BY <1>3, <3>1, <3>3, RunFields DEF Runs, Engaged
    <3>5. /\ q \in Runs /\ Locals(r, q) /\ q.then = "next" /\ q.pc = "cancelled"
          /\ q.phase = r.phase /\ q.stage = r.stage
      <4>1. "next" \in Labels
        BY DEF Labels
      <4> QED BY <4>1, <3>2, <3>4, LaterShape
    <3> QED BY <1>2, <2>0, <2>3, <3>4, <3>5 DEF Begins, Sets, Locals
  <2>4. CASE w.kind = "restore"
    <3>1. q = [run EXCEPT !.pc = "restore"]
      BY <1>2, <1>4, <2>0, <2>4 DEF FirstStep
    <3>2. /\ q \in Runs /\ Locals(run, q) /\ q.phase = run.phase /\ q.stage = run.stage /\ q.pc = "restore"
      BY <1>3, <3>1, RunFields DEF Runs, Locals, Engaged
    <3> QED BY <1>2, <2>0, <2>4, <3>2 DEF Begins, Sets, Locals
  <2>5. CASE w.kind = "delete"
    <3>1. CASE w.target.profile \in InUse(run.original)
      <4>1. PICK t : t = [auto |-> FALSE, profile |-> w.replacement]
        OBVIOUS
      <4>2. q = Applying(run, t, "delete")
        BY <1>2, <1>4, <2>0, <2>5, <3>1, <4>1 DEF FirstStep
      <4>3. t \in Target /\ run \in Runs
        BY <1>2, <2>5, <3>1, <4>1 DEF Target, Engaged
      <4> QED BY <1>2, <1>3, <2>0, <2>5, <4>2, <4>3, ApplyingShape DEF Begins, Sets
    <3>2. CASE w.target.profile \notin InUse(run.original)
      <4>1. q = Later(run, "deleting") /\ run \in Runs
        BY <1>2, <1>4, <2>0, <2>5, <3>2 DEF FirstStep, Engaged
      <4>2. /\ q \in Runs /\ Locals(run, q) /\ q.then = "deleting" /\ q.pc = "cancelled"
            /\ q.phase = run.phase /\ q.stage = run.stage
        <5>1. "deleting" \in Labels
          BY DEF Labels
        <5> QED BY <5>1, <4>1, LaterShape
      <4> QED BY <1>2, <2>0, <2>5, <4>2 DEF Begins, Sets, Locals
    <3> QED BY <3>1, <3>2
  <2> QED BY <2>1, <2>2, <2>3, <2>4, <2>5, WantedFacts DEF RequestKinds
<1> QED BY <1>0, <1>1, <1>4, ReadShape

\* The goroutine goes on to p in the same phase.
Goes(p) == /\ Carries /\ run'.phase = run.phase /\ run'.stage = run.stage /\ run'.then = run.then
           /\ run'.current = run.current /\ run'.pc = p

\* Going to the next place changes nothing else.
LEMMA GoesShape ==
    ASSUME Engaged, NEW p \in Labels, run' = [run EXCEPT !.pc = p]
    PROVE  Goes(p)
<1>1. PICK q : q = run'
  OBVIOUS
<1>2. q = [run EXCEPT !.pc = p]
  BY <1>1
<1>3. /\ q \in Runs /\ Locals(run, q) /\ q.then = run.then /\ q.phase = run.phase
      /\ q.stage = run.stage /\ q.errs = run.errs /\ q.pc = p
  BY <1>2, RunFields DEF Runs, Locals, Engaged
<1> QED BY <1>1, <1>3 DEF Goes, Carries, Locals

\* What was read is not what was hoped for.
LEMMA FoundRaise ==
    ASSUME Engaged, Valid, run' = Raise(Found, {"other"})
    PROVE  Stumbles
<1>1. PICK r : r = Found
  OBVIOUS
<1>2. /\ r \in Runs /\ r.op = run.op /\ r.left = run.left /\ r.open = run.open /\ r.owner = run.owner
      /\ r.epoch = run.epoch /\ r.original = run.original /\ r.target = run.target
      /\ r.phase = run.phase /\ r.stage = run.stage /\ r.errs = run.errs
  BY <1>1, FoundShape
<1>3. {"other"} \in SUBSET Errors /\ {"other"} # {} /\ run \in Runs
  BY DEF Errors, Engaged
<1> QED BY <1>1, <1>2, <1>3, RaiseStumbles

\* The modem shows the target: the two readings of Service.apply.
LEMMA FoundSettles ==
    ASSUME Engaged, Valid, Confirmed(Found)
    PROVE  Settles(run.phase)
<1>1. PICK r : r = Found
  OBVIOUS
<1>2. /\ r \in Runs /\ r.current \in Snapshots /\ r.current.owner = owner
      /\ r.op = run.op /\ r.left = run.left /\ r.open = run.open /\ r.owner = run.owner
      /\ r.epoch = run.epoch /\ r.original = run.original /\ r.target = run.target
      /\ r.phase = run.phase /\ r.stage = run.stage /\ r.errs = run.errs
  BY <1>1, FoundShape
<1>3. Confirmed(r)
  BY <1>1
<1>4. Settles(r.phase)
  BY <1>2, <1>3, ConfirmedShape
<1> QED BY <1>2, <1>4

\* Nothing is written when the target is in force already.
LEMMA ApplyInspectDoes ==
    ASSUME Engaged, ApplyInspect
    PROVE  /\ run.pc = "apply" /\ Frame /\ UNCHANGED <<ops, ready, modem>>
           /\ \/ Valid /\ Shown(run.target) /\ Settles(run.phase)
              \/ UNCHANGED <<overrides, dirty>> /\ (Goes("applying") \/ Stumbles)
<1>0. /\ run.pc = "apply"
      /\ UNCHANGED <<process, session, policies, active, ops, recon, owner, epoch, ready, lost>>
  BY DEF ApplyInspect, At
<1>1. CASE Valid /\ process = "up" /\ InForce(run.target, Snapshot(owner)) /\ Confirmed(Found)
  <2>1. Shown(run.target)
    BY <1>1, SnapshotShape DEF Engaged
  <2>2. Settles(run.phase)
    BY <1>1, FoundSettles
  <2> QED BY <1>0, <1>1, <2>1, <2>2 DEF Frame, Settles, Engaged
<1>2. ASSUME Read(IF CanApply(run.target, Snapshot(owner)) THEN [run EXCEPT !.pc = "applying"]
                  ELSE Raise(run, {"other"})), UNCHANGED overrides
      PROVE  faults' \in Nat /\ UNCHANGED <<modem, dirty>> /\ (Goes("applying") \/ Stumbles)
  <2>1. PICK r : r = IF CanApply(run.target, Snapshot(owner)) THEN [run EXCEPT !.pc = "applying"]
                     ELSE Raise(run, {"other"})
    OBVIOUS
  <2>2. Read(r)
    BY <1>2, <2>1
  <2>3. /\ faults' \in Nat /\ UNCHANGED <<modem, dirty>> /\ (run' = r \/ Stumbles)
    BY <2>2, ReadShape
  <2>4. "applying" \in Labels /\ "other" \in Errors
    BY DEF Labels, Errors
  <2>5. CASE run' = r /\ CanApply(run.target, Snapshot(owner))
    BY <2>1, <2>3, <2>4, <2>5, GoesShape
  <2>6. CASE run' = r /\ ~CanApply(run.target, Snapshot(owner))
    BY <2>1, <2>3, <2>4, <2>6, PlainRaise
  <2> QED BY <2>3, <2>5, <2>6
<1> QED BY <1>0, <1>1, <1>2 DEF ApplyInspect, Frame

\* Only a target that is read back counts as applied.
LEMMA ReadBackDoes ==
    ASSUME Engaged, ReadBack
    PROVE  /\ run.pc = "readback" /\ Frame /\ UNCHANGED <<ops, ready, modem>>
           /\ \/ Valid /\ Shown(run.target) /\ Settles(run.phase)
              \/ UNCHANGED <<overrides, dirty>> /\ Stumbles
<1>0. /\ run.pc = "readback"
      /\ UNCHANGED <<process, session, policies, active, ops, recon, owner, epoch, ready, lost>>
  BY DEF ReadBack, At
<1>1. CASE Valid /\ process = "up" /\ InForce(run.target, Snapshot(owner)) /\ Confirmed(Found)
  <2>1. Shown(run.target)
    BY <1>1, SnapshotShape DEF Engaged
  <2>2. Settles(run.phase)
    BY <1>1, FoundSettles
  <2> QED BY <1>0, <1>1, <2>1, <2>2 DEF Frame, Settles, Engaged
<1>2. CASE Read(Raise(Found, {"other"})) /\ UNCHANGED overrides
  BY <1>0, <1>2, ReadShape, FoundRaise DEF Frame
<1> QED BY <1>0, <1>1, <1>2 DEF ReadBack

\* A command that writes: obeyed or not, the SIM's write is unconfirmed from now on.
Wrote(goes) ==
    /\ Frame /\ UNCHANGED <<ops, overrides, ready>> /\ modem' \in Modems /\ dirty' \in [Sims -> Nat]
    /\ \/ Valid /\ dirty' = [dirty EXCEPT ![owner.sim] = run.op] /\ (goes \/ Stumbles)
       \/ UNCHANGED <<modem, dirty>> /\ Stumbles

\* A write that was answered goes on; one that was not is an error.
LEMMA WroteShape ==
    ASSUME Engaged, NEW obeyed, obeyed \in SUBSET Modems, NEW p \in Labels,
           Write(obeyed, [run EXCEPT !.pc = p]),
           UNCHANGED <<process, service, ops, recon, owner, epoch, ready, lost>>
    PROVE  Wrote(Goes(p))
<1>1. PICK r : r = [run EXCEPT !.pc = p]
  OBVIOUS
<1>2. Write(obeyed, r)
  BY <1>1
<1>3. run' = r => Goes(p)
  BY <1>1, GoesShape
<1> QED BY <1>2, <1>3, WriteShape DEF Wrote, Frame, service

\* AutoSel is written.
LEMMA WriteAutoSelDoes ==
    ASSUME Engaged, run.target \in Target, WriteAutoSel
    PROVE  /\ run.pc = "autosel"
           /\ Wrote(Goes("waiting")) \/ (~run.target.auto /\ Wrote(Goes("select")))
<1>1. PICK b \in BOOLEAN : b = run.target.auto
  BY DEF Target
<1>2. PICK obeyed : obeyed = {[modem EXCEPT !.auto = b]}
  OBVIOUS
<1>3. obeyed \in SUBSET Modems
  BY <1>2 DEF Engaged, Modems
<1>4. "waiting" \in Labels /\ "select" \in Labels
  BY DEF Labels
<1>5. PICK p : p = IF b THEN "waiting" ELSE "select"
  OBVIOUS
<1>6. p \in Labels
  BY <1>4, <1>5
<1>7. Write(obeyed, [run EXCEPT !.pc = p])
  BY <1>1, <1>2, <1>5 DEF WriteAutoSel
<1>8. Wrote(Goes(p))
  BY <1>3, <1>6, <1>7, WroteShape DEF WriteAutoSel
<1> QED BY <1>1, <1>5, <1>8 DEF WriteAutoSel, At

\* A profile is selected.
LEMMA WriteSelectDoes ==
    ASSUME Engaged, run.target.profile \in Profiles, WriteSelect
    PROVE  run.pc = "select" /\ Wrote(Goes("waiting"))
<1>1. PICK obeyed : obeyed = {[modem EXCEPT !.selected = run.target.profile]}
  OBVIOUS
<1>2. obeyed \in SUBSET Modems
  BY <1>1 DEF Engaged, Modems
<1>3. "waiting" \in Labels
  BY DEF Labels
<1>4. Write(obeyed, [run EXCEPT !.pc = "waiting"])
  BY <1>1 DEF WriteSelect
<1>5. Wrote(Goes("waiting"))
  BY <1>2, <1>3, <1>4, WroteShape DEF WriteSelect
<1> QED BY <1>5 DEF WriteSelect, At

\* A file is added.
LEMMA WriteAddDoes ==
    ASSUME Engaged, Request.adds \in Profiles, WriteAdd
    PROVE  run.pc = "add" /\ Wrote(Goes("added"))
<1>1. PICK obeyed : obeyed = {[modem EXCEPT !.installed = modem.installed \cup {Request.adds}]}
  OBVIOUS
<1>2. obeyed \in SUBSET Modems
  BY <1>1 DEF Engaged, Modems
<1>3. "added" \in Labels
  BY DEF Labels
<1>4. Write(obeyed, [run EXCEPT !.pc = "added"])
  BY <1>1 DEF WriteAdd
<1>5. Wrote(Goes("added"))
  BY <1>2, <1>3, <1>4, WroteShape DEF WriteAdd
<1> QED BY <1>5 DEF WriteAdd, At

\* A file is deleted.
LEMMA WriteDeleteDoes ==
    ASSUME Engaged, WriteDelete
    PROVE  run.pc = "delete" /\ Wrote(Goes("reboot"))
<1>1. PICK obeyed : obeyed = {[modem EXCEPT !.installed = modem.installed \ {Request.target.profile}]}
  OBVIOUS
<1>2. obeyed \in SUBSET Modems
  BY <1>1 DEF Engaged, Modems
<1>3. "reboot" \in Labels
  BY DEF Labels
<1>4. Write(obeyed, [run EXCEPT !.pc = "reboot"])
  BY <1>1 DEF WriteDelete
<1>5. Wrote(Goes("reboot"))
  BY <1>2, <1>3, <1>4, WroteShape DEF WriteDelete
<1> QED BY <1>5 DEF WriteDelete, At

\* A reboot leaves a modem with the same files.
LEMMA RebootedShape ==
    ASSUME Engaged, NEW m \in Rebooted
    PROVE  m \in Modems
<1>1. PICK p \in Profiles : m = [modem EXCEPT !.selected = p, !.activated = p]
  BY DEF Rebooted, Engaged, Modems
<1> QED BY <1>1 DEF Engaged, Modems

\* The reboot is sent only through a valid session.
LEMMA RebootDoes ==
    ASSUME Engaged, Reboot
    PROVE  /\ run.pc = "reboot" /\ Frame /\ UNCHANGED <<ops, overrides, dirty>>
           /\ modem' \in Modems /\ ready' \in BOOLEAN /\ (Valid \/ UNCHANGED modem)
           /\ Goes("reenumerate") \/ Stumbles
<1>0. /\ run.pc = "reboot" /\ UNCHANGED <<process, service, ops, recon, owner, epoch, dirty, lost>>
  BY DEF Reboot, At
<1>1. "reenumerate" \in Labels /\ "owner" \in Errors
  BY DEF Labels, Errors
<1>2. CASE /\ Valid /\ process = "up" /\ modem' \in Rebooted /\ ready' = FALSE
           /\ run' = [run EXCEPT !.pc = "reenumerate"] /\ UNCHANGED faults
  BY <1>0, <1>1, <1>2, GoesShape, RebootedShape DEF Frame, service, Engaged
<1>3. ASSUME Valid, NEW e \in {"cancel", "other"}, Fails(e), run' = Raise(run, {e}),
             \/ UNCHANGED <<modem, ready>>
             \/ modem' \in Rebooted /\ ready' = FALSE
      PROVE  /\ Frame /\ modem' \in Modems /\ ready' \in BOOLEAN /\ Stumbles
  BY <1>0, <1>3, FailsShape, RebootedShape DEF Frame, service, Engaged
<1>4. CASE ~Valid /\ run' = Raise(run, {"owner"}) /\ UNCHANGED <<modem, ready, faults>>
  BY <1>0, <1>1, <1>4, PlainRaise DEF Frame, service, Engaged
<1> QED BY <1>0, <1>2, <1>3, <1>4 DEF Reboot, service

\* The worker that appears is taken only when its SIM and the switch epoch are the same.
LEMMA AdoptWorkerDoes ==
    ASSUME Engaged, ThenAt, AdoptWorker
    PROVE  /\ run.pc = "reenumerate" /\ Still /\ UNCHANGED ops
           /\ \/ /\ owner.sim = run.owner.sim
                 /\ run' \in Runs /\ run'.op = run.op /\ run'.left = run.left /\ run'.open = run.open
                 /\ run'.owner = owner /\ run'.original = run.original
                 /\ run'.target = run.target /\ run'.errs = run.errs /\ run'.then = run.then
                 /\ run'.current = run.current
                 /\ run'.phase = run.phase /\ run'.stage = run.stage /\ run'.pc = run.then
              \/ Stumbles
<1>0. run.pc = "reenumerate" /\ Still /\ UNCHANGED ops
  BY DEF AdoptWorker, At, Still, Frame, service, device, Engaged
<1>1. CASE owner.sim = run.owner.sim /\ epoch = run.epoch
  <2>1. PICK p \in Labels : p = run.then
    BY <1>0 DEF ThenAt, Labels, Reboots
  <2>2. PICK q : q = run'
    OBVIOUS
  <2>3. q = [run EXCEPT !.owner = owner, !.pc = p]
    BY <1>1, <2>1, <2>2 DEF AdoptWorker
  <2>4. owner \in Owners
    BY DEF Engaged
  <2>5. /\ q \in Runs /\ q.op = run.op /\ q.left = run.left /\ q.open = run.open
        /\ q.owner = owner /\ q.original = run.original /\ q.target = run.target /\ q.errs = run.errs
        /\ q.then = run.then /\ q.current = run.current /\ q.phase = run.phase /\ q.stage = run.stage
        /\ q.pc = p
    BY <2>3, <2>4, RunFields DEF Runs, Engaged
  <2> QED BY <1>0, <1>1, <2>1, <2>2, <2>5
<1>2. CASE ~(owner.sim = run.owner.sim /\ epoch = run.epoch)
  <2>1. run' = Raise(run, {"owner"}) /\ "owner" \in Errors
    BY <1>2 DEF AdoptWorker, Errors
  <2> QED BY <1>0, <2>1, PlainRaise
<1> QED BY <1>1, <1>2

\* No worker appears in time.
LEMMA RebootTimeoutDoes ==
    ASSUME Engaged, RebootTimeout
    PROVE  run.pc = "reenumerate" /\ Still /\ UNCHANGED ops /\ Stumbles
<1>1. PICK e \in Errors : run' = Raise(run, {e})
  BY DEF RebootTimeout, Errors
<1> QED BY <1>1, PlainRaise DEF RebootTimeout, At, Still, Frame, service, device, Engaged

\* An upload touches nothing that lasts.
LEMMA UploadDoes ==
    ASSUME Engaged, Upload
    PROVE  run.pc = "uploading" /\ Still /\ UNCHANGED ops /\ (Goes("cancelled") \/ Stumbles)
<1>1. PICK r : r = [run EXCEPT !.pc = "cancelled"]
  OBVIOUS
<1>2. Read(r)
  BY <1>1 DEF Upload
<1>3. "cancelled" \in Labels
  BY DEF Labels
<1>4. run' = r => Goes("cancelled")
  BY <1>1, <1>3, GoesShape
<1> QED BY <1>2, <1>4, ReadShape DEF Upload, At, Still, Frame, service

\* Only a profile that was not there before shows that the file was added.
LEMMA ReadAddedDoes ==
    ASSUME Engaged, ReadAdded
    PROVE  /\ run.pc = "added" /\ Frame /\ UNCHANGED <<ops, overrides, ready, modem>>
           /\ dirty' \in [Sims -> Nat]
           /\ \/ /\ Valid /\ modem.installed \ run.original.installed # {}
                 /\ dirty' = [dirty EXCEPT ![owner.sim] = 0]
                 /\ run'.left = run.left
                 /\ \/ Request.kind = "apply" /\ Sets("apply", "main") /\ run'.target = Request.target
                    \/ Request.kind # "apply" /\ Sets("close", run.phase)
              \/ UNCHANGED dirty /\ Stumbles
<1>0. run.pc = "added" /\ UNCHANGED <<process, service, ops, recon, owner, epoch, ready, lost>>
  BY DEF ReadAdded, At
<1>1. CASE Valid /\ process = "up" /\ modem.installed \ run.original.installed # {}
  <2>1. /\ run' = IF Request.kind = "apply" THEN Applying(Found, Request.target, "main")
                  ELSE [Found EXCEPT !.pc = "close"]
        /\ dirty' = [dirty EXCEPT ![owner.sim] = 0]
        /\ UNCHANGED <<modem, faults>>
    BY <1>1 DEF ReadAdded
  <2>2. PICK f : f = Found
    OBVIOUS
  <2>3. /\ f \in Runs /\ f.op = run.op /\ f.left = run.left /\ f.open = run.open /\ f.owner = run.owner
        /\ f.original = run.original /\ f.phase = run.phase /\ f.stage = run.stage
    BY <1>1, <2>2, FoundShape
  <2>4. PICK q : q = run'
    OBVIOUS
  <2>5. dirty' \in [Sims -> Nat]
    BY <2>1 DEF Engaged
  <2>6. CASE Request.kind = "apply"
    <3>1. q = Applying(f, Request.target, "main") /\ "main" \in Phases
      BY <2>1, <2>2, <2>4, <2>6 DEF Phases
    <3>2. Request.target \in Target
      BY <2>6, RequestWanted, WantedFacts
    <3>3. /\ q \in Runs /\ q.op = f.op /\ q.open = f.open /\ q.owner = f.owner /\ q.left = f.left
          /\ q.original = f.original /\ q.stage = f.stage /\ q.pc = "apply" /\ q.phase = "main"
          /\ q.target = Request.target
      BY <2>3, <3>1, <3>2, ApplyingShape
    <3> QED BY <1>0, <1>1, <2>1, <2>3, <2>4, <2>5, <2>6, <3>3 DEF Sets, Frame, service, Engaged
  <2>7. CASE Request.kind # "apply"
    <3>1. q = [f EXCEPT !.pc = "close"]
      BY <2>1, <2>2, <2>4, <2>7
    <3>2. "close" \in Labels
      BY DEF Labels
    <3>3. /\ q \in Runs /\ Locals(f, q) /\ q.stage = f.stage /\ q.pc = "close" /\ q.phase = f.phase
      BY <2>3, <3>1, <3>2, RunFields DEF Runs, Locals
    <3> QED BY <1>0, <1>1, <2>1, <2>3, <2>4, <2>5, <2>7, <3>3 DEF Sets, Frame, Locals, service, Engaged
  <2> QED BY <2>6, <2>7
<1>2. CASE ~(Valid /\ process = "up" /\ modem.installed \ run.original.installed # {})
  <2>1. Read(Raise(Found, {"other"}))
    BY <1>2 DEF ReadAdded
  <2> QED BY <1>0, <2>1, ReadShape, FoundRaise DEF Frame, service, Engaged
<1> QED BY <1>1, <1>2

\* Only a profile that is no longer listed counts as deleted.
LEMMA ReadDeletedDoes ==
    ASSUME Engaged, ReadDeleted
    PROVE  /\ run.pc = "deleted" /\ Frame /\ UNCHANGED <<ops, ready, modem>>
           /\ \/ Valid /\ Request.target.profile \notin modem.installed /\ Settles("main")
              \/ UNCHANGED <<overrides, dirty>> /\ Stumbles
<1>0. /\ run.pc = "deleted"
      /\ UNCHANGED <<process, session, policies, active, ops, recon, owner, epoch, ready, lost>>
  BY DEF ReadDeleted, At
<1>1. CASE Valid /\ process = "up" /\ Request.target.profile \notin modem.installed
  <2>1. PICK f : f = Found
    OBVIOUS
  <2>2. PICK r : r = [f EXCEPT !.phase = "main"]
    OBVIOUS
  <2>3. Confirmed(r) /\ "main" \in Phases
    BY <1>1, <2>1, <2>2 DEF ReadDeleted, Phases
  <2>4. /\ f \in Runs /\ f.current \in Snapshots /\ f.current.owner = owner
        /\ f.op = run.op /\ f.left = run.left /\ f.open = run.open /\ f.owner = run.owner
        /\ f.epoch = run.epoch /\ f.original = run.original /\ f.target = run.target
        /\ f.stage = run.stage /\ f.errs = run.errs
    BY <1>1, <2>1, FoundShape
  <2>5. r \in Runs /\ Locals(f, r) /\ r.phase = "main" /\ r.stage = f.stage /\ r.errs = f.errs
    BY <2>2, <2>3, <2>4, RunFields DEF Runs, Locals
  <2>6. Settles(r.phase)
    BY <1>1, <2>3, <2>4, <2>5, ConfirmedShape DEF Locals
  <2> QED BY <1>0, <1>1, <2>5, <2>6 DEF Frame, Settles, Engaged
<1>2. CASE ~(Valid /\ process = "up" /\ Request.target.profile \notin modem.installed)
  <2>1. Read(Raise(Found, {"other"})) /\ UNCHANGED overrides
    BY <1>2 DEF ReadDeleted
  <2> QED BY <1>0, <2>1, ReadShape, FoundRaise DEF Frame
<1> QED BY <1>1, <1>2

\* The next candidate is the head of what is left.
LEMMA NextCandidateDoes ==
    ASSUME Engaged, run.left # <<>>, NextCandidate
    PROVE  /\ run.pc = "next" /\ Still /\ UNCHANGED ops
           /\ Sets("apply", "trial") /\ run'.left = Tail(run.left)
           /\ run'.target = [auto |-> FALSE, profile |-> Head(run.left)] /\ run'.target \in Target
<1>1. PICK t : t = [auto |-> FALSE, profile |-> Head(run.left)]
  OBVIOUS
<1>2. run.left \in Seq(Profiles) /\ run \in Runs
  BY RunFields DEF Engaged
<1>3. t \in Target /\ Tail(run.left) \in Seq(Profiles)
  BY <1>1, <1>2 DEF Target
<1>4. PICK r : r = [run EXCEPT !.left = Tail(run.left), !.errs = {}]
  OBVIOUS
<1>5. /\ r \in Runs /\ r.op = run.op /\ r.open = run.open /\ r.owner = run.owner
      /\ r.original = run.original /\ r.stage = run.stage /\ r.left = Tail(run.left)
  BY <1>2, <1>3, <1>4, RunFields DEF Runs
<1>6. PICK q : q = run'
  OBVIOUS
<1>7. q = Applying(r, t, "trial") /\ "trial" \in Phases
  BY <1>1, <1>4, <1>6 DEF NextCandidate, Phases
<1>8. /\ q \in Runs /\ q.op = r.op /\ q.open = r.open /\ q.owner = r.owner /\ q.left = r.left
      /\ q.original = r.original /\ q.stage = r.stage /\ q.pc = "apply" /\ q.phase = "trial" /\ q.target = t
  BY <1>3, <1>5, <1>7, ApplyingShape
<1> QED BY <1>1, <1>3, <1>5, <1>6, <1>8 DEF NextCandidate, At, Sets, Still, Frame, service, device, Engaged

\* The goal is reached, missed, or the look at it fails.
LEMMA ObserveDoes ==
    ASSUME Engaged, Observe
    PROVE  run.pc = "poll" /\ Still /\ UNCHANGED ops /\ (Goes("candidate") \/ Stumbles)
<1>0. run.pc = "poll" /\ UNCHANGED <<process, service, ops, recon, owner, epoch, ready, lost>>
  BY DEF Observe, At
<1>1. PICK r : r = [run EXCEPT !.pc = "candidate"]
  OBVIOUS
<1>2. "candidate" \in Labels /\ "goal" \in Errors
  BY DEF Labels, Errors
<1>3. run' = r => Goes("candidate")
  BY <1>1, <1>2, GoesShape
<1>4. CASE Read(r)
  BY <1>0, <1>3, <1>4, ReadShape DEF Still, Frame, service
<1>5. CASE run' = Raise(run, {"goal"}) /\ UNCHANGED <<modem, dirty, faults>>
  BY <1>0, <1>2, <1>5, PlainRaise DEF Still, Frame, service, Engaged
<1> QED BY <1>1, <1>4, <1>5 DEF Observe

\* A candidate is over: the next one, the restore, or the end (Service.trial).
Concludes ==
    /\ run' \in Runs /\ run'.op = run.op /\ run'.left = run.left /\ run'.open = run.open
    /\ run'.owner = run.owner /\ run'.original = run.original /\ run'.target = run.target
    /\ \/ /\ run'.errs = run.errs /\ run'.stage = "candidate_complete"
          /\ \/ run.errs = {} /\ run'.pc = "close" /\ run'.phase = "main"
             \/ run.left # <<>> /\ run'.pc = "cancelled" /\ run'.then = "next" /\ run'.phase = "loop"
             \/ run.errs # {} /\ run'.pc = "restore" /\ run'.phase = "main"
       \/ /\ run'.errs # {} /\ run'.stage \in {"candidate_complete", run.stage}
          /\ run'.pc = "close" /\ run'.phase = run.phase

\* After a candidate: done, the next one, or back to the original.
LEMMA CandidateCompleteDoes ==
    ASSUME Engaged, run.errs = {} => run.current \in Snapshots, CandidateComplete
    PROVE  /\ run.pc = "candidate" /\ Frame /\ UNCHANGED <<ready, modem, dirty>> /\ Books
           /\ overrides' \in [Sims -> Overrides \cup {None}] /\ Concludes
<1>0. /\ run.pc = "candidate"
      /\ UNCHANGED <<process, session, policies, active, recon, owner, epoch, ready, modem, dirty, lost>>
  BY DEF CandidateComplete, At, device
<1>l. "close" \in Labels /\ "next" \in Labels /\ "restore" \in Labels
  BY DEF Labels
<1>s. "candidate_complete" \in Stages /\ "main" \in Phases /\ "loop" \in Phases /\ run \in Runs
  BY DEF Stages, Phases, Engaged
<1>1. CASE /\ process = "up" /\ ops' = [ops EXCEPT ![run.op] = Saved(run, "candidate_complete")]
           /\ run' = [AfterCandidate([run EXCEPT !.phase = "main"]) EXCEPT !.stage = "candidate_complete"]
           /\ IF run.errs = {} THEN Keep(run.current) ELSE UNCHANGED overrides
           /\ UNCHANGED faults
  <2>1. PICK m : m = [run EXCEPT !.phase = "main"]
    OBVIOUS
  <2>2. m \in Runs /\ Locals(run, m) /\ m.phase = "main" /\ m.errs = run.errs
    BY <1>s, <2>1, RunFields DEF Runs, Locals
  <2>3. PICK a : a = AfterCandidate(m)
    OBVIOUS
  <2>4. /\ a \in Runs /\ Locals(run, a) /\ a.errs = run.errs
        /\ \/ run.errs = {} /\ a.pc = "close" /\ a.phase = "main"
           \/ run.left # <<>> /\ a.pc = "cancelled" /\ a.then = "next" /\ a.phase = "loop"
           \/ run.errs # {} /\ a.pc = "restore" /\ a.phase = "main"
    <3>1. CASE m.errs = {}
      <4>1. a = [m EXCEPT !.pc = "close"]
        BY <2>3, <3>1 DEF AfterCandidate
      <4>2. a \in Runs /\ Locals(m, a) /\ a.errs = m.errs /\ a.pc = "close" /\ a.phase = m.phase
        BY <1>l, <2>2, <4>1, RunFields DEF Runs, Locals
      <4> QED BY <2>2, <3>1, <4>2 DEF Locals
    <3>2. CASE m.errs # {} /\ m.errs = {"goal"} /\ m.left # <<>>
      <4>1. PICK n : n = [m EXCEPT !.phase = "loop"]
        OBVIOUS
      <4>2. a = Later(n, "next")
        BY <2>3, <3>2, <4>1 DEF AfterCandidate
      <4>3. n \in Runs /\ Locals(m, n) /\ n.phase = "loop" /\ n.errs = m.errs
        BY <1>s, <2>2, <4>1, RunFields DEF Runs, Locals
      <4>4. /\ a \in Runs /\ Locals(n, a) /\ a.then = "next" /\ a.pc = "cancelled"
            /\ a.phase = n.phase /\ a.errs = n.errs
        <5>1. "next" \in Labels
          BY DEF Labels
        <5> QED BY <5>1, <4>2, <4>3, LaterShape
      <4> QED BY <2>2, <3>2, <4>3, <4>4 DEF Locals
    <3>3. CASE m.errs # {} /\ ~(m.errs = {"goal"} /\ m.left # <<>>)
      <4>1. a = [m EXCEPT !.pc = "restore"]
        BY <2>3, <3>3 DEF AfterCandidate
      <4>2. a \in Runs /\ Locals(m, a) /\ a.errs = m.errs /\ a.pc = "restore" /\ a.phase = m.phase
        BY <1>l, <2>2, <4>1, RunFields DEF Runs, Locals
      <4> QED BY <2>2, <3>3, <4>2 DEF Locals
    <3> QED BY <3>1, <3>2, <3>3
  <2>5. PICK q : q = run'
    OBVIOUS
  <2>6. q = [a EXCEPT !.stage = "candidate_complete"]
    BY <1>1, <2>1, <2>3, <2>5
  <2>7. /\ q \in Runs /\ Locals(a, q) /\ q.errs = a.errs /\ q.pc = a.pc /\ q.phase = a.phase
        /\ q.then = a.then /\ q.stage = "candidate_complete"
    BY <1>s, <2>4, <2>6, RunFields DEF Runs, Locals
  <2>8. Concludes
    BY <2>4, <2>5, <2>7 DEF Concludes, Locals
  <2>9. Books
    BY <1>1, <1>s, SavedBooks DEF Engaged
  <2>10. overrides' \in [Sims -> Overrides \cup {None}]
    <3>1. CASE run.errs = {}
      <4>1. PICK snap \in Snapshots : snap = run.current
        BY <3>1
      <4>2. PICK c \in Overrides : c = Choice(snap)
        BY ChoiceShape
      <4>3. snap.owner.sim \in Sims
        BY DEF Snapshots, Owners
      <4>4. overrides' = [overrides EXCEPT ![snap.owner.sim] = c]
        BY <1>1, <3>1, <4>1, <4>2 DEF Keep
      <4> QED BY <4>2, <4>3, <4>4 DEF Engaged
    <3>2. CASE run.errs # {}
      BY <1>1, <3>2 DEF Engaged
    <3> QED BY <3>1, <3>2
  <2> QED BY <1>0, <1>1, <2>8, <2>9, <2>10 DEF Frame, Engaged
<1>2. ASSUME NEW e \in {"cancel", "other"}, NEW s \in {"candidate_complete", run.stage},
             Fails(e), run' = [run EXCEPT !.errs = {e}, !.stage = s, !.pc = "close"]
      PROVE  Concludes /\ faults' \in Nat
  <2>1. PICK q : q = run'
    OBVIOUS
  <2>2. q = [run EXCEPT !.errs = {e}, !.stage = s, !.pc = "close"]
    BY <1>2, <2>1
  <2>3. {e} \in SUBSET Errors /\ s \in Stages
    BY <1>s, RunFields DEF Errors
  <2>4. /\ q \in Runs /\ Locals(run, q) /\ q.errs = {e} /\ q.stage = s /\ q.pc = "close"
        /\ q.phase = run.phase
    BY <1>l, <1>s, <2>2, <2>3, RunFields DEF Runs, Locals
  <2>5. faults' \in Nat
    BY <1>2 DEF Fails, Engaged
  <2> QED BY <2>1, <2>4, <2>5 DEF Concludes, Locals
<1>3. CASE UNCHANGED <<ops, overrides>>
           /\ \E e \in {"cancel", "other"}, s \in {"candidate_complete", run.stage} :
                Fails(e) /\ run' = [run EXCEPT !.errs = {e}, !.stage = s, !.pc = "close"]
  BY <1>0, <1>2, <1>3, StillBooks DEF Frame, Engaged
<1> QED BY <1>1, <1>3 DEF CandidateComplete

\* The target of a restore is what was saved.
LEMMA RestoreDoes ==
    ASSUME Engaged, RestoreTarget \in Target, Restore
    PROVE  /\ run.pc = "restoring" /\ Still /\ UNCHANGED ops
           /\ Sets("apply", "restore") /\ run'.target = RestoreTarget /\ run'.errs = run.errs
           /\ run'.left = run.left
<1>1. PICK q : q = run'
  OBVIOUS
<1>2. q = Applying(run, RestoreTarget, "restore") /\ "restore" \in Phases /\ run \in Runs
  BY <1>1 DEF Restore, Phases, Engaged
<1>3. /\ q \in Runs /\ q.op = run.op /\ q.open = run.open /\ q.owner = run.owner /\ q.left = run.left
      /\ q.original = run.original /\ q.stage = run.stage /\ q.errs = run.errs
      /\ q.pc = "apply" /\ q.phase = "restore" /\ q.target = RestoreTarget
  BY <1>2, ApplyingShape
<1> QED BY <1>1, <1>3 DEF Restore, At, Sets, Still, Frame, service, device, Engaged

\* Closing keeps what the operation has reached, or reports that it could not resume.
LEMMA CloseSessionDoes ==
    ASSUME Engaged, CloseSession
    PROVE  /\ run.pc = "close" /\ Still /\ UNCHANGED ops
           /\ run' \in Runs /\ run'.op = run.op /\ run'.left = run.left /\ run'.open = FALSE
           /\ run'.original = run.original /\ run'.target = run.target /\ run'.phase = run.phase
           /\ run'.current = run.current /\ run'.pc = "end"
           /\ \/ run'.stage = run.stage /\ run'.errs = run.errs
              \/ run'.stage = "resuming" /\ run'.errs # {}
<1>0. /\ run.pc = "close" /\ UNCHANGED <<process, service, ops, recon, device, dirty, lost>>
      /\ "end" \in Labels /\ "resuming" \in Stages /\ run \in Runs
  BY DEF CloseSession, At, Labels, Stages, Engaged
<1>1. PICK q : q = run'
  OBVIOUS
<1>2. CASE run' = [run EXCEPT !.open = FALSE, !.pc = "end"]
  <2>1. q = [run EXCEPT !.open = FALSE, !.pc = "end"]
    BY <1>1, <1>2
  <2>2. /\ q \in Runs /\ q.op = run.op /\ q.left = run.left /\ q.open = FALSE /\ q.original = run.original
        /\ q.target = run.target /\ q.phase = run.phase /\ q.current = run.current /\ q.pc = "end"
        /\ q.stage = run.stage /\ q.errs = run.errs
    BY <1>0, <2>1, RunFields DEF Runs
  <2>3. faults' \in Nat
    BY DEF CloseSession, Fails, Engaged
  <2> QED BY <1>0, <1>1, <2>2, <2>3 DEF Still, Frame, service, device
<1>3. ASSUME NEW e \in {"owner", "other"},
             run' = [run EXCEPT !.open = FALSE, !.stage = "resuming", !.errs = run.errs \cup {e}, !.pc = "end"]
      PROVE  /\ Still
             /\ run' \in Runs /\ run'.op = run.op /\ run'.left = run.left /\ run'.open = FALSE
             /\ run'.original = run.original /\ run'.target = run.target /\ run'.phase = run.phase
             /\ run'.current = run.current /\ run'.pc = "end" /\ run'.stage = "resuming" /\ run'.errs # {}
  <2>0. PICK es \in SUBSET Errors : es = run.errs \cup {e}
    BY <1>0, RunFields DEF Errors
  <2>1. q = [run EXCEPT !.open = FALSE, !.stage = "resuming", !.errs = es, !.pc = "end"]
    BY <1>1, <1>3, <2>0
  <2>2. /\ q \in Runs /\ q.op = run.op /\ q.left = run.left /\ q.open = FALSE /\ q.original = run.original
        /\ q.target = run.target /\ q.phase = run.phase /\ q.current = run.current /\ q.pc = "end"
        /\ q.stage = "resuming" /\ q.errs = es
    BY <1>0, <2>0, <2>1, RunFields DEF Runs
  <2>3. faults' \in Nat
    BY DEF CloseSession, Fails, Engaged
  <2>4. es # {}
    BY <2>0
  <2> QED BY <1>0, <1>1, <2>2, <2>3, <2>4 DEF Still, Frame, service, device
<1> QED BY <1>0, <1>2, <1>3 DEF CloseSession

\* The result is saved, or lost; the goroutine leaves either way.
LEMMA SaveResultDoes ==
    ASSUME Engaged, SaveResult
    PROVE  /\ run.pc = "end"
           /\ UNCHANGED <<process, session, policies, overrides, active, recon, modem, owner, epoch, ready, dirty>>
           /\ faults' \in Nat
           /\ run' \in Runs /\ run'.op = run.op /\ run'.open = run.open /\ run'.pc = "leave"
           /\ run'.left = run.left
           /\ run'.phase = run.phase /\ run'.stage = run.stage
           /\ \/ /\ UNCHANGED lost
                 /\ ops' = [ops EXCEPT ![run.op] = [Saved(run, run.stage) EXCEPT !.status = Outcome(run)]]
              \/ UNCHANGED ops /\ lost' = lost \cup {run.op}
<1>1. PICK q : q = run'
  OBVIOUS
<1>2. q = [run EXCEPT !.pc = "leave"] /\ "leave" \in Labels /\ run \in Runs
  BY <1>1 DEF SaveResult, Labels, Engaged
<1>3. q \in Runs /\ Locals(run, q) /\ q.phase = run.phase /\ q.stage = run.stage /\ q.pc = "leave"
  BY <1>2, RunFields DEF Runs, Locals
<1> QED BY <1>1, <1>3 DEF SaveResult, At, Locals, service, device, Engaged

\* The result of an operation that is written to the table.
LEMMA OutcomeShape ==
    ASSUME Engaged, NEW o, o = [Saved(run, run.stage) EXCEPT !.status = Outcome(run)]
    PROVE  /\ o \in Operations /\ o.key = ops[run.op].key /\ o.request = ops[run.op].request
           /\ o.policy = ops[run.op].policy /\ o.owner = ops[run.op].owner
           /\ o.recoveryOf = ops[run.op].recoveryOf
           /\ o.stage = run.stage /\ o.original = run.original /\ o.current = run.current
           /\ o.status = Outcome(run)
           /\ o.status \in {"succeeded", "failed", "cancelled", "needs_attention"}
<1>1. PICK p : p = Saved(run, run.stage)
  OBVIOUS
<1>2. run.stage \in Stages /\ run \in Runs
  BY RunFields DEF Engaged
<1>3. /\ p \in Operations /\ p.key = ops[run.op].key /\ p.request = ops[run.op].request
      /\ p.policy = ops[run.op].policy /\ p.owner = ops[run.op].owner
      /\ p.recoveryOf = ops[run.op].recoveryOf /\ p.stage = run.stage
      /\ p.original = run.original /\ p.current = run.current
  BY <1>1, <1>2, SavedShape DEF Engaged
<1>4. PICK s \in {"succeeded", "failed", "cancelled", "needs_attention"} : s = Outcome(run)
  BY DEF Outcome
<1>5. s \in Statuses
  BY DEF Statuses
<1>6. o = [p EXCEPT !.status = s]
  BY <1>1, <1>4
<1> QED BY <1>3, <1>4, <1>5, <1>6 DEF Operations

\* The goroutine returns and the service is free.
LEMMA LeaveDoes ==
    ASSUME Leave
    PROVE  /\ run.pc = "leave" /\ run' = NoRun /\ active' = 0
           /\ UNCHANGED <<process, session, policies, overrides, ops, recon, modem, owner, epoch, ready,
                          dirty, lost, faults>>
BY DEF Leave, At, device

\* No goroutine is one that is idle and knows nothing.
LEMMA NoRunShape ==
    /\ NoRun \in Runs /\ NoRun.op = 0 /\ NoRun.pc = "idle" /\ NoRun.phase = "main" /\ NoRun.stage = "queued"
    /\ NoRun.open = FALSE /\ NoRun.left = <<>> /\ NoRun.errs = {}
<1>1. /\ "idle" \in Labels /\ "main" \in Phases /\ "queued" \in Stages
  BY DEF Labels, Phases, Stages
<1> QED BY <1>1 DEF NoRun, Runs

(* ---------------------------------------------------------------------- *)
(* What is true of the goroutine, step by step                             *)
(* ---------------------------------------------------------------------- *)

RunInv == ThenAt /\ PhaseAt /\ KindAt /\ Shared /\ AimAt /\ ProvenAt

\* Which operation is worked on, for whom and what for, does not change under it.
Kept ==
    /\ run'.op = run.op /\ Request' = Request /\ ops'[run.op].owner = ops[run.op].owner
    /\ Request.kind = "restore" => ops'[Request.restore].original = ops[Request.restore].original
    /\ Request \in Wanted /\ recon' = recon

\* The restore of an older operation reads what the newer one never writes.
LEMMA BooksKeep ==
    ASSUME Engaged, Counted, Books, run'.op = run.op, recon' = recon
    PROVE  Kept
<1>1. ops'[run.op].request = ops[run.op].request /\ ops'[run.op].owner = ops[run.op].owner
  BY DEF Books, Engaged
<1>2. Request' = Request
  BY <1>1 DEF Request
<1>3. ASSUME Request.kind = "restore" PROVE ops'[Request.restore].original = ops[Request.restore].original
  <2>1. Request.restore \in 1..(run.op - 1) /\ run.op \in 1..Len(ops)
    BY <1>3 DEF Counted, Request, Engaged
  <2>2. Request.restore \in DOMAIN ops /\ Request.restore # run.op
    BY <2>1, RequestWanted, WantedFacts DEF Engaged
  <2> QED BY <2>2 DEF Books
<1> QED BY <1>1, <1>2, <1>3, RequestWanted DEF Kept

\* Where a goroutine at work can be.
LEMMA PlaceShape ==
    ASSUME run \in Runs, ThenAt, run.pc \notin Ending, run.pc # "idle"
    PROVE  Place \in Inside \cup Opening
BY RunFields DEF Place, ThenAt, Inside, Opening, Ending, Labels

\* An error leads to the restore, to the end of the candidate or to the end.
LEMMA StumbleKeeps ==
    ASSUME Engaged, RunInv, Stumbles, Kept, run.pc \notin Ending, run.pc # "idle"
    PROVE  RunInv'
<1>0. Place \in Inside \cup Opening
  BY PlaceShape DEF Engaged, RunInv
<1>1. Place' = run'.pc /\ run'.pc \in {"restore", "candidate", "close"}
  BY DEF Place, Stumbles
<1>2. ThenAt'
  BY <1>1 DEF ThenAt, Reboots
<1>3. /\ run'.pc = "restore" => Place = "next" /\ run.phase = "loop" /\ run'.phase = "main"
      /\ run'.pc = "candidate" => /\ Place \in Observes \/ InApply
                                  /\ run.phase = "trial" /\ run'.phase = "trial"
      /\ run'.pc = "close" => run'.phase \notin {"loop", "trial"}
  BY <1>0, <1>1 DEF Stumbles, RunInv, PhaseAt, Ending, Inside, Opening
<1>4. ~InApply' /\ ~InDelete'
  BY <1>1 DEF InApply, InDelete, Applies, Reboots
<1>5. PhaseAt'
  BY <1>1, <1>3, <1>4 DEF PhaseAt, Observes, Inside, Opening, Ending, Labels
<1>6. KindAt'
  BY <1>1, <1>3, <1>4 DEF KindAt, RunInv, Kept, Observes, Imports
<1>7. Shared'
  <2>1. run'.pc \in {"restore", "candidate"} => Place \in Inside /\ Place \in Matched
    BY <1>3 DEF Matched, Inside, Opening, Ending, Labels, Observes, InApply, Applies, Reboots
  <2>2. Place' \in Inside \/ Place' \in Matched => run'.pc \in {"restore", "candidate"}
    BY <1>1 DEF Inside, Matched, Ending
  <2>3. Place' \in Inside \/ Place' = "close"
    BY <1>1 DEF Inside, Ending, Opening, Labels
  <2>4. run.pc = "inspect" => Place = "inspect"
    BY DEF Place
  <2>5. run'.pc \in {"restore", "candidate"} => run'.original = run.original
    BY <2>1, <2>4 DEF Stumbles, Matched
  <2>6. /\ run'.op = run.op /\ run'.open = run.open /\ run'.owner = run.owner
    BY DEF Stumbles
  <2> QED BY <2>1, <2>2, <2>3, <2>5, <2>6 DEF Shared, RunInv, Kept
<1>8. AimAt'
  BY <1>1, <1>3, <1>4 DEF AimAt, RunInv, Stumbles, Kept, Working, Matched, Inside, Opening, Ending, Labels,
     Observes, InApply, Applies, Reboots
<1>9. ProvenAt'
  BY <1>1, <1>3 DEF ProvenAt, RunInv, Stumbles, Unconfirmed, Ending
<1> QED BY <1>2, <1>5, <1>6, <1>7, <1>8, <1>9 DEF RunInv

\* The goroutine goes on as planned; after a reboot it has a new worker of the same SIM.
Proceeds ==
    /\ run' \in Runs /\ run'.op = run.op /\ run'.left = run.left /\ run'.open = run.open
    /\ run'.original = run.original /\ run'.target = run.target /\ run'.errs = run.errs
    /\ run'.phase = run.phase /\ run'.current = run.current /\ run'.stage # "restored"
    /\ run.owner \in Owners => run'.owner \in Owners /\ run'.owner.sim = run.owner.sim

Moves ==
    \/ run.pc = "begin" /\ run'.pc = "open"
    \/ run.pc = "save" /\ run'.pc = "cancelled" /\ run'.then = "preflight"
    \/ run.pc = "cancelled" /\ run'.pc = run.then /\ run'.then = run.then
    \/ run.pc = "preflight" /\ run'.pc = "prepare" /\ Accepted
    \/ run.pc = "apply" /\ run'.pc = "applying"
    \/ run.pc = "applying" /\ run'.pc = "autosel"
    \/ run.pc = "autosel" /\ run'.pc = "waiting"
    \/ run.pc = "autosel" /\ run'.pc = "select" /\ ~run.target.auto
    \/ run.pc = "select" /\ run'.pc = "waiting"
    \/ run.pc = "waiting" /\ run'.pc = "reboot" /\ run'.then = "verifying"
    \/ run.pc = "reboot" /\ run'.pc = "reenumerate" /\ run'.then = run.then
    \/ run.pc = "reenumerate" /\ run'.pc = run.then /\ run'.then = run.then
    \/ run.pc = "verifying" /\ run'.pc = "readback"
    \/ run.pc = "upload" /\ run'.pc = "uploading" /\ run'.then = "importing"
    \/ run.pc = "uploading" /\ run'.pc = "cancelled" /\ run'.then = run.then
    \/ run.pc = "importing" /\ run'.pc = "add"
    \/ run.pc = "add" /\ run'.pc = "added"
    \/ run.pc = "deleting" /\ run'.pc = "delete" /\ run'.then = "deleted"
    \/ run.pc = "delete" /\ run'.pc = "reboot" /\ run'.then = run.then
    \/ run.pc = "observe" /\ run'.pc = "cancelled" /\ run'.then = "poll"
    \/ run.pc = "poll" /\ run'.pc = "candidate"
    \/ run.pc = "restore" /\ run'.pc = "restoring"

\* A step of the plan stays in its part of the plan.
LEMMA MovesShape ==
    ASSUME ThenAt, Moves
    PROVE  /\ ThenAt'
           /\ InApply' <=> InApply
           /\ InDelete' <=> InDelete
           /\ Place' \in Observes <=> Place \in Observes
           /\ Place' \in Imports <=> Place \in Imports
           /\ Place' \in {"restore", "restoring"} <=> Place \in {"restore", "restoring"}
           /\ Place' = "next" <=> Place = "next"
           /\ Place' \in Opening <=> Place \in Opening
           /\ Place' \in Inside <=> Place \in Inside
           /\ Place' \in Matched <=> Place \in Matched
           /\ Place \notin Ending /\ Place' \notin Ending
<1>1. ThenAt'
  BY DEF ThenAt, Moves, Reboots
<1>2. /\ InApply' <=> InApply
      /\ InDelete' <=> InDelete
  BY DEF ThenAt, Moves, Place, InApply, InDelete, Applies, Reboots
<1>3. /\ Place' \in Observes <=> Place \in Observes
      /\ Place' \in Imports <=> Place \in Imports
      /\ Place' \in {"restore", "restoring"} <=> Place \in {"restore", "restoring"}
      /\ Place' = "next" <=> Place = "next"
  BY DEF ThenAt, Moves, Place, Observes, Imports, Reboots
<1>4. /\ Place' \in Opening <=> Place \in Opening
      /\ Place \notin Ending /\ Place' \notin Ending
  BY DEF ThenAt, Moves, Place, Opening, Ending, Reboots
<1>5. /\ Place' \in Inside <=> Place \in Inside
  BY <1>4 DEF ThenAt, Moves, Place, Inside, Opening, Ending, Labels, Reboots
<1>6. /\ Place' \in Matched <=> Place \in Matched
  BY <1>5 DEF ThenAt, Moves, Place, Matched, Reboots
<1> QED BY <1>1, <1>2, <1>3, <1>4, <1>5, <1>6

\* Preflight lets the request through.
LEMMA AcceptedShape ==
    ASSUME Engaged, Accepted, run.original \in Snapshots,
           Request.kind = "restore" => Request.restore \in DOMAIN ops
    PROVE  /\ Request.kind = "restore" => ops[Request.restore].original \in Snapshots
           /\ Request.kind = "delete" /\ Request.target.profile \in InUse(run.original)
                 => Request.replacement \in Profiles
<1>1. Request.kind = "restore" => ops[Request.restore].original \in Snapshots
  <2>1. \A i \in DOMAIN ops : ops[i] \in Operations
    BY DEF Engaged
  <2>2. \A i \in DOMAIN ops : ops[i].original \in Snapshots \cup {None}
    BY <2>1 DEF Operations
  <2> QED BY <2>2 DEF Accepted
<1>2. Request.kind = "delete" /\ Request.target.profile \in InUse(run.original)
         => Request.replacement \in Profiles
  BY DEF Accepted, CanDelete, Snapshots
<1> QED BY <1>1, <1>2

\* The steps of the plan keep what is true of the goroutine.
LEMMA ProceedsKeeps ==
    ASSUME Engaged, Counted, RunInv, Proceeds, Kept, Moves,
           Place \in Observes => UNCHANGED <<modem, dirty>>
    PROVE  RunInv'
<1>0. /\ ThenAt'
      /\ InApply' <=> InApply
      /\ InDelete' <=> InDelete
      /\ Place' \in Observes <=> Place \in Observes
      /\ Place' \in Imports <=> Place \in Imports
      /\ Place' \in {"restore", "restoring"} <=> Place \in {"restore", "restoring"}
      /\ Place' = "next" <=> Place = "next"
      /\ Place' \in Opening <=> Place \in Opening
      /\ Place' \in Inside <=> Place \in Inside
      /\ Place' \in Matched <=> Place \in Matched
      /\ Place \notin Ending /\ Place' \notin Ending
  BY MovesShape DEF RunInv
<1>1. PhaseAt'
  BY <1>0 DEF PhaseAt, RunInv, Proceeds
<1>2. KindAt'
  BY <1>0 DEF KindAt, RunInv, Proceeds, Kept
<1>3. Shared'
  BY <1>0 DEF Shared, RunInv, Proceeds, Kept, Matched, Ending
<1>4. AimAt'
  <2>1. Place' \in Working => Place \in Working \/ (run.pc = "preflight" /\ Accepted)
    <3>1. Place' \in Matched => Place \in Matched
      BY <1>0
    <3>2. Place' \notin {"save", "preflight"} =>
             Place \notin {"save", "preflight"} \/ (run.pc = "preflight" /\ Accepted)
      BY DEF ThenAt, RunInv, Moves, Place, Reboots
    <3> QED BY <3>1, <3>2 DEF Working
  <2>2. CASE run.pc = "preflight" /\ Accepted
    <3>1. Place = "preflight" /\ Place \in Matched
      BY <2>2 DEF Place, Matched, Inside, Opening, Ending, Labels
    <3>2. Request.kind = "restore" => Request.restore \in DOMAIN ops
      BY RequestWanted, WantedFacts DEF Counted, Request, Engaged
    <3> QED BY <1>0, <2>2, <3>1, <3>2, AcceptedShape
            DEF AimAt, RunInv, Proceeds, Kept, Shared, Place, Working, Moves, InApply, Applies, Reboots
  <2>3. CASE ~(run.pc = "preflight" /\ Accepted)
    <3>1. Place' = "prepare" => FALSE
      BY <2>3 DEF ThenAt, RunInv, Moves, Place, Reboots
    <3>2. Place' = "select" => ~run.target.auto
      BY DEF ThenAt, RunInv, Moves, Place, Reboots
    <3>3. RestoreTarget' = RestoreTarget
      BY DEF RestoreTarget, Kept, Proceeds, ActiveChoice
    <3> QED BY <1>0, <2>1, <2>3, <3>1, <3>2, <3>3 DEF AimAt, RunInv, Proceeds, Kept
  <2> QED BY <2>2, <2>3
<1>5. ProvenAt'
  <2>1. Place' \in {"observe", "poll"} => Place \in {"observe", "poll"}
    BY DEF ThenAt, RunInv, Moves, Place, Reboots
  <2>2. Place' = "candidate" => Place = "poll"
    BY DEF ThenAt, RunInv, Moves, Place, Reboots
  <2>3. run'.pc \notin Ending
    BY DEF ThenAt, RunInv, Moves, Reboots, Ending
  <2> QED BY <2>1, <2>2, <2>3 DEF ProvenAt, RunInv, Proceeds, Kept, Shown, Clean, Observes, Ending
<1> QED BY <1>0, <1>1, <1>2, <1>3, <1>4, <1>5 DEF RunInv

\* A checkpoint keeps what is true of the goroutine.
LEMMA ChecksKeeps ==
    ASSUME Engaged, Counted, RunInv, NEW st, NEW p, NEW t, Checks(st, p, t), st # "restored",
           run.pc \notin Ending, run.pc # "idle",
           run'.pc = p /\ run'.then = t => Moves
    PROVE  RunInv'
<1>1. run'.op = run.op /\ recon' = recon /\ UNCHANGED <<modem, dirty>> /\ Books
  BY DEF Checks, Carries, Stumbles, Still, Frame
<1>2. Kept
  BY <1>1, BooksKeep
<1>3. CASE Stumbles
  BY <1>2, <1>3, StumbleKeeps
<1>4. CASE /\ Carries /\ run'.then = t /\ run'.current = run.current /\ run'.phase = run.phase
           /\ run'.stage = st /\ run'.pc = p
  <2>1. Proceeds
    BY <1>4 DEF Proceeds, Carries
  <2> QED BY <1>1, <1>2, <1>4, <2>1, ProceedsKeeps
<1> QED BY <1>3, <1>4 DEF Checks

\* So does a step that goes on to the next place, or meets an error.
LEMMA GoesKeeps ==
    ASSUME Engaged, Counted, RunInv, NEW p, Goes(p) \/ Stumbles, UNCHANGED <<ops, recon>>,
           run.pc \notin Ending, run.pc # "idle",
           Place \in Observes => UNCHANGED <<modem, dirty>>,
           run'.pc = p /\ run'.then = run.then => Moves
    PROVE  RunInv'
<1>1. run'.op = run.op /\ Books
  BY StillBooks DEF Goes, Carries, Stumbles
<1>2. Kept
  BY <1>1, BooksKeep
<1>3. CASE Stumbles
  BY <1>2, <1>3, StumbleKeeps
<1>4. CASE Goes(p)
  <2>1. Proceeds
    BY <1>4 DEF Proceeds, Carries, Goes, RunInv, ProvenAt
  <2> QED BY <1>2, <1>4, <2>1, ProceedsKeeps DEF Goes
<1> QED BY <1>3, <1>4

\* Every checkpoint.
LEMMA CheckpointsKeep ==
    ASSUME Engaged, Counted, RunInv,
           \/ Begin \/ SaveOriginal \/ SaveApplying \/ SaveWaiting \/ SaveVerifying \/ SaveUploading
           \/ SaveImporting \/ SaveDeleting \/ SaveObserving \/ SaveRestoring \/ CheckCancelled \/ Preflight
    PROVE  RunInv'
<1>1. CASE Begin
  BY <1>1, Checkpoints, ChecksKeeps DEF Ending, Moves
<1>2. CASE SaveOriginal
  BY <1>2, Checkpoints, ChecksKeeps DEF Ending, Moves
<1>3. CASE SaveApplying
  BY <1>3, Checkpoints, ChecksKeeps DEF Ending, Moves
<1>4. CASE SaveWaiting
  BY <1>4, Checkpoints, ChecksKeeps DEF Ending, Moves
<1>5. CASE SaveVerifying
  BY <1>5, Checkpoints, ChecksKeeps DEF Ending, Moves
<1>6. CASE SaveUploading
  BY <1>6, Checkpoints, ChecksKeeps DEF Ending, Moves
<1>7. CASE SaveImporting
  BY <1>7, Checkpoints, ChecksKeeps DEF Ending, Moves
<1>8. CASE SaveDeleting
  BY <1>8, Checkpoints, ChecksKeeps DEF Ending, Moves
<1>9. CASE SaveObserving
  BY <1>9, Checkpoints, ChecksKeeps DEF Ending, Moves
<1>10. CASE SaveRestoring
  BY <1>10, Checkpoints, ChecksKeeps DEF Ending, Moves
<1>11. CASE CheckCancelled
  <2>1. run.pc = "cancelled" /\ Checks(run.stage, run.then, run.then) /\ run.stage # "restored"
    BY <1>11, CheckCancelledDoes DEF RunInv, ProvenAt, Ending
  <2> QED BY <2>1, ChecksKeeps DEF Ending, Moves
<1>12. CASE Preflight
  BY <1>12, PreflightDoes, ChecksKeeps DEF Ending, Moves
<1> QED BY <1>1, <1>2, <1>3, <1>4, <1>5, <1>6, <1>7, <1>8, <1>9, <1>10, <1>11, <1>12

\* What a write needs to know of its argument.
LEMMA WriteReady ==
    ASSUME Engaged, RunInv
    PROVE  /\ run.pc = "autosel" => run.target \in Target
           /\ run.pc = "select" => run.target.profile \in Profiles
           /\ run.pc = "add" => Request.adds \in Profiles
<1>1. \A t \in Target : ~t.auto => t.profile \in Profiles
  BY DEF Target
<1> QED BY <1>1 DEF RunInv, AimAt, KindAt, Place, InApply, Applies, Imports

\* Commands that write, reboots, and the polls.
LEMMA CommandsKeep ==
    ASSUME Engaged, Counted, RunInv,
           \/ WriteAutoSel \/ WriteSelect \/ WriteAdd \/ WriteDelete \/ Reboot \/ AdoptWorker \/ RebootTimeout
           \/ Upload \/ Observe
    PROVE  RunInv'
<1>0. ThenAt
  BY DEF RunInv
<1> DEFINE Away == run.pc \notin Ending /\ run.pc # "idle" /\ Place \notin Observes
<1>1. CASE WriteAutoSel
  <2>1. Away /\ run.pc = "autosel"
    BY <1>1 DEF WriteAutoSel, At, Place, Ending, Observes
  <2>2. Wrote(Goes("waiting")) \/ (~run.target.auto /\ Wrote(Goes("select")))
    BY <1>1, <2>1, WriteAutoSelDoes, WriteReady
  <2>3. CASE Wrote(Goes("waiting"))
    BY <2>1, <2>3, GoesKeeps DEF Wrote, Frame, Moves
  <2>4. CASE ~run.target.auto /\ Wrote(Goes("select"))
    BY <2>1, <2>4, GoesKeeps DEF Wrote, Frame, Moves
  <2> QED BY <2>2, <2>3, <2>4
<1>2. CASE WriteSelect
  <2>1. Away /\ run.pc = "select"
    BY <1>2 DEF WriteSelect, At, Place, Ending, Observes
  <2>2. Wrote(Goes("waiting"))
    BY <1>2, <2>1, WriteSelectDoes, WriteReady
  <2> QED BY <2>1, <2>2, GoesKeeps DEF Wrote, Frame, Moves
<1>3. CASE WriteAdd
  <2>1. Away /\ run.pc = "add"
    BY <1>3 DEF WriteAdd, At, Place, Ending, Observes
  <2>2. Wrote(Goes("added"))
    BY <1>3, <2>1, WriteAddDoes, WriteReady
  <2> QED BY <2>1, <2>2, GoesKeeps DEF Wrote, Frame, Moves
<1>4. CASE WriteDelete
  <2>1. Away /\ run.pc = "delete"
    BY <1>4 DEF WriteDelete, At, Place, Ending, Observes
  <2>2. Wrote(Goes("reboot"))
    BY <1>4, <2>1, WriteDeleteDoes, WriteReady
  <2> QED BY <2>1, <2>2, GoesKeeps DEF Wrote, Frame, Moves
<1>5. CASE Reboot
  <2>1. Away /\ run.pc = "reboot"
    BY <1>5 DEF Reboot, At, Place, Ending, Observes
  <2> QED BY <1>5, <2>1, RebootDoes, GoesKeeps DEF Frame, Moves
<1>6. CASE AdoptWorker
  <2>1. Away /\ run.pc = "reenumerate"
    BY <1>6 DEF AdoptWorker, At, Place, Ending, Observes
  <2>2. Still /\ UNCHANGED ops
    BY <1>0, <1>6, AdoptWorkerDoes
  <2>3. CASE Stumbles
    <3>1. Kept
      BY <2>2, <2>3, BooksKeep, StillBooks DEF Still, Frame, Stumbles
    <3> QED BY <2>1, <2>3, <3>1, StumbleKeeps
  <2>4. CASE ~Stumbles
    <3>1. /\ owner.sim = run.owner.sim
          /\ run' \in Runs /\ run'.op = run.op /\ run'.left = run.left /\ run'.open = run.open
          /\ run'.owner = owner /\ run'.original = run.original
          /\ run'.target = run.target /\ run'.errs = run.errs /\ run'.then = run.then
          /\ run'.current = run.current
          /\ run'.phase = run.phase /\ run'.stage = run.stage /\ run'.pc = run.then
      BY <1>0, <1>6, <2>4, AdoptWorkerDoes
    <3>2. Kept
      BY <2>2, <3>1, BooksKeep, StillBooks DEF Still, Frame
    <3>3. Proceeds
      BY <2>1, <3>1 DEF Proceeds, RunInv, ProvenAt, Engaged
    <3>4. Moves
      BY <2>1, <3>1 DEF Moves
    <3> QED BY <2>1, <3>2, <3>3, <3>4, ProceedsKeeps
  <2> QED BY <2>3, <2>4
<1>7. CASE RebootTimeout
  <2>1. Away /\ run.pc = "reenumerate"
    BY <1>7 DEF RebootTimeout, At, Place, Ending, Observes
  <2>2. Still /\ UNCHANGED ops /\ Stumbles
    BY <1>7, RebootTimeoutDoes
  <2>3. Kept
    BY <2>2, BooksKeep, StillBooks DEF Still, Frame, Stumbles
  <2> QED BY <2>1, <2>2, <2>3, StumbleKeeps
<1>8. CASE Upload
  <2>1. Away /\ run.pc = "uploading"
    BY <1>8 DEF Upload, At, Place, Ending, Observes
  <2> QED BY <1>8, <2>1, UploadDoes, GoesKeeps DEF Still, Frame, Moves
<1>9. CASE Observe
  <2>1. run.pc \notin Ending /\ run.pc # "idle" /\ run.pc = "poll"
    BY <1>9 DEF Observe, At, Ending
  <2> QED BY <1>9, <2>1, ObserveDoes, GoesKeeps DEF Still, Frame, Moves
<1> QED BY <1>1, <1>2, <1>3, <1>4, <1>5, <1>6, <1>7, <1>8, <1>9

\* A goroutine that has nothing to prove yet, at a place p of its way in.
LEMMA OpenKeeps ==
    ASSUME Engaged, Counted, RunInv, Open
    PROVE  RunInv'
<1>1. /\ run.pc = "open" /\ Still /\ UNCHANGED ops /\ Place = "open"
      /\ run.pc \notin Ending /\ run.pc # "idle"
  BY OpenDoes DEF Place, Ending
<1>2. CASE Stumbles
  <2>1. Kept
    BY <1>1, <1>2, BooksKeep, StillBooks DEF Still, Frame, Stumbles
  <2> QED BY <1>1, <1>2, <2>1, StumbleKeeps
<1>3. CASE ~Stumbles
  <2>1. /\ ~DeviceShared /\ run' \in Runs /\ run'.op = run.op /\ run'.left = run.left
        /\ run'.open = TRUE /\ run'.owner = owner
        /\ run'.phase = run.phase /\ run'.stage = run.stage
        /\ run'.errs = run.errs /\ run'.pc = "inspect"
    BY <1>3, OpenDoes
  <2>2. Place' = "inspect" /\ recon'.pc = "idle" /\ run.phase = "main" /\ run.stage # "restored"
    BY <1>1, <2>1 DEF Place, DeviceShared, Still, Frame, RunInv, PhaseAt, ProvenAt, Opening, Ending
  <2>3. /\ "inspect" \in Inside /\ "inspect" \notin Matched /\ "inspect" \notin Working
        /\ ~InApply' /\ ~InDelete' /\ "inspect" \notin Observes /\ "inspect" \notin Opening
        /\ "inspect" \notin Ending
    BY <2>2 DEF Inside, Matched, Working, InApply, InDelete, Applies, Reboots, Observes, Opening, Ending, Labels
  <2>4. ThenAt'
    BY <2>1 DEF ThenAt, Reboots
  <2>5. PhaseAt' /\ KindAt'
    BY <2>1, <2>2, <2>3 DEF PhaseAt, KindAt, Imports
  <2>6. Shared'
    BY <2>1, <2>2, <2>3 DEF Shared, Engaged
  <2>7. AimAt' /\ ProvenAt'
    BY <2>1, <2>2, <2>3 DEF AimAt, ProvenAt
  <2> QED BY <2>4, <2>5, <2>6, <2>7 DEF RunInv
<1> QED BY <1>2, <1>3

\* The invariants of the goroutine hold after the first look at the modem.
LEMMA ReadOriginalKeeps ==
    ASSUME Engaged, Counted, RunInv, ReadOriginal
    PROVE  RunInv'
<1>1. /\ run.pc = "inspect" /\ Still /\ UNCHANGED ops /\ Place = "inspect"
      /\ run.pc \notin Ending /\ run.pc # "idle"
  BY ReadOriginalDoes DEF Place, Ending
<1>2. CASE Stumbles
  <2>1. Kept
    BY <1>1, <1>2, BooksKeep, StillBooks DEF Still, Frame, Stumbles
  <2> QED BY <1>1, <1>2, <2>1, StumbleKeeps
<1>3. CASE ~Stumbles
  <2>1. /\ run.owner = ops[run.op].owner
        /\ run' \in Runs /\ run'.op = run.op /\ run'.left = run.left /\ run'.open = run.open
        /\ run'.owner = run.owner /\ run'.original \in Snapshots
        /\ run'.phase = run.phase /\ run'.stage = run.stage /\ run'.errs = run.errs
        /\ run'.pc = "save"
    BY <1>3, ReadOriginalDoes
  <2>0. "inspect" \in Inside /\ "inspect" \notin Observes /\ "inspect" \notin Ending
    BY DEF Inside, Opening, Ending, Labels, Observes
  <2>2. Place' = "save" /\ recon' = recon /\ run.phase = "main" /\ run.stage # "restored"
        /\ run.open /\ recon.pc = "idle" /\ run.owner \in Owners
    BY <1>1, <2>0, <2>1 DEF Place, Still, Frame, RunInv, PhaseAt, ProvenAt, Shared, InApply, Applies, Reboots
  <2>3. /\ "save" \in Inside /\ "save" \in Matched /\ "save" \notin Working
        /\ ~InApply' /\ ~InDelete' /\ "save" \notin Observes /\ "save" \notin Opening /\ "save" \notin Ending
    BY <2>2 DEF Inside, Matched, Working, InApply, InDelete, Applies, Reboots, Observes, Opening, Ending, Labels
  <2>4. ThenAt'
    BY <2>1 DEF ThenAt, Reboots
  <2>5. PhaseAt' /\ KindAt'
    BY <2>1, <2>2, <2>3 DEF PhaseAt, KindAt, Imports
  <2>6. Shared'
    BY <1>1, <2>1, <2>2, <2>3 DEF Shared
  <2>7. AimAt' /\ ProvenAt'
    BY <2>1, <2>2, <2>3 DEF AimAt, ProvenAt
  <2> QED BY <2>4, <2>5, <2>6, <2>7 DEF RunInv
<1> QED BY <1>2, <1>3

\* The goroutine goes to another part of the plan.
Turns(p, t, ph) ==
    /\ run' \in Runs /\ run'.op = run.op /\ run'.open = run.open /\ run'.owner = run.owner
    /\ run'.original = run.original /\ run'.stage # "restored"
    /\ run'.pc = p /\ (p = "cancelled" => run'.then = t) /\ run'.phase = ph

\* What it needs there.
Fits(p, ph) ==
    LET kind == Request.kind IN
    \/ p = "next" /\ ph = "loop" /\ kind = "trial"
       /\ run'.left # <<>> /\ ToSet(run'.left) \subseteq ToSet(Request.candidates)
    \/ p = "upload" /\ ph = "main" /\ kind \in {"apply", "import"} /\ Request.adds \in Profiles
    \/ p = "restore" /\ ph = "main" /\ kind \in {"trial", "restore"}
    \/ p = "deleting" /\ ph = "main" /\ kind = "delete"
    \/ p = "apply" /\ ph = "main" /\ kind = "apply" /\ run'.target = Request.target
    \/ p = "apply" /\ ph = "delete" /\ kind = "delete" /\ run'.target \in Target
    \/ p = "apply" /\ ph = "restore" /\ kind \in {"trial", "restore"} /\ run'.target = RestoreTarget
       /\ run'.target \in Target
    \/ p = "apply" /\ ph = "trial" /\ kind = "trial" /\ run'.target \in Target /\ ~run'.target.auto
       /\ run'.target.profile \in ToSet(Request.candidates)
       /\ ToSet(run'.left) \subseteq ToSet(Request.candidates)

\* They hold after the choice of a target.
LEMMA TurnsKeeps ==
    ASSUME Engaged, Counted, RunInv, Kept, Place \in Working, NEW p, NEW t, NEW ph,
           Turns(p, t, ph),
           \/ p = "cancelled" /\ t \in {"next", "deleting"} /\ Fits(t, ph)
           \/ p # "cancelled" /\ Fits(p, ph)
    PROVE  RunInv'
<1>0. PICK k : k = IF p = "cancelled" THEN t ELSE p
  OBVIOUS
<1>1. Place' = k /\ k \in {"next", "upload", "restore", "deleting", "apply"} /\ Fits(k, ph)
  BY <1>0 DEF Place, Turns, Fits
<1>2. /\ k \in Inside /\ k \in Matched /\ k \notin Observes /\ k \notin Opening /\ k \notin Ending
      /\ Place \in Matched /\ Place \in Inside
      /\ k # "prepare" /\ k # "select" /\ k # "observe" /\ k # "poll" /\ k # "candidate"
      /\ k \notin Reboots
  BY <1>1 DEF Inside, Matched, Working, Observes, Opening, Ending, Labels, Reboots
<1>3. /\ InApply' <=> k = "apply"
      /\ InDelete' <=> k = "deleting"
      /\ k \in Imports <=> k = "upload"
  BY <1>1, <1>2 DEF InApply, InDelete, Applies, Imports, Reboots
<1>4. ThenAt'
  BY <1>0, <1>1 DEF ThenAt, Turns, Reboots
<1>5. PhaseAt'
  BY <1>1, <1>2, <1>3 DEF PhaseAt, Turns, Fits
<1>6. KindAt'
  BY <1>1, <1>2, <1>3 DEF KindAt, Turns, Fits, Kept
<1>7. Shared'
  BY <1>1, <1>2 DEF Shared, RunInv, Turns, Kept
<1>8. AimAt'
  <2>1. RestoreTarget' = RestoreTarget
    BY DEF RestoreTarget, Kept, Turns, ActiveChoice
  <2>2. Request.kind = "apply" => Request.target \in Target
    BY WantedFacts DEF Kept
  <2>3. ph \in {"loop", "trial"} => ToSet(run'.left) \subseteq ToSet(Request.candidates)
    BY <1>1 DEF Fits
  <2>4. k = "next" => run'.left # <<>>
    BY <1>1 DEF Fits
  <2>5. k = "apply" => /\ run'.target \in Target
                       /\ ph = "main" => run'.target = Request.target
                       /\ ph = "restore" => run'.target = RestoreTarget
                       /\ ph = "trial" => ~run'.target.auto /\ run'.target.profile \in ToSet(Request.candidates)
    BY <1>1, <2>2 DEF Fits
  <2>6. /\ Request' = Request /\ run'.phase = ph
        /\ Request.kind = "restore" => ops'[Request'.restore].original \in Snapshots
    BY DEF Kept, RunInv, AimAt, Turns
  <2> QED BY <1>1, <1>2, <1>3, <2>1, <2>3, <2>4, <2>5, <2>6 DEF AimAt
<1>9. ProvenAt'
  BY <1>1, <1>2 DEF ProvenAt, Turns, Place, Ending
<1> QED BY <1>4, <1>5, <1>6, <1>7, <1>8, <1>9 DEF RunInv

\* perform begins.
LEMMA PrepareKeeps ==
    ASSUME Engaged, Counted, RunInv, Prepare
    PROVE  RunInv'
<1>0. run.pc = "prepare" /\ Place = "prepare" /\ run.pc \notin Ending /\ run.pc # "idle"
  BY DEF Prepare, At, Place, Ending
<1>1. Still /\ UNCHANGED ops /\ (Begins \/ Stumbles)
  BY <1>0, PrepareDoes DEF RunInv, AimAt
<1>2. Kept
  BY <1>1, BooksKeep, StillBooks DEF Still, Frame, Stumbles, Begins, Sets
<1>3. Place \in Working /\ run.phase = "main" /\ run.stage # "restored"
  BY <1>0 DEF Working, Matched, Inside, Opening, Ending, Labels, RunInv, PhaseAt, ProvenAt, InApply, Applies,
     Reboots, Observes
<1>4. CASE Stumbles
  BY <1>0, <1>2, <1>4, StumbleKeeps
<1>5. CASE Begins
  <2>1. CASE /\ Request.kind \in {"apply", "import"} /\ Request.adds \in Profiles /\ Sets("upload", run.phase)
    <3>1. Turns("upload", "none", "main") /\ Fits("upload", "main")
      BY <1>3, <2>1 DEF Turns, Fits, Sets
    <3> QED BY <1>2, <1>3, <3>1, TurnsKeeps
  <2>2. CASE Request.kind = "apply" /\ Sets("apply", "main") /\ run'.target = Request.target
    <3>1. Turns("apply", "none", "main") /\ Fits("apply", "main")
      BY <1>3, <2>2 DEF Turns, Fits, Sets
    <3> QED BY <1>2, <1>3, <3>1, TurnsKeeps
  <2>3. CASE /\ Request.kind = "trial" /\ Sets("cancelled", "loop") /\ run'.then = "next"
             /\ run'.left = Request.candidates
    <3>1. Turns("cancelled", "next", "loop") /\ Fits("next", "loop")
      BY <1>2, <1>3, <2>3, WantedFacts DEF Turns, Fits, Sets, Kept
    <3> QED BY <1>2, <1>3, <3>1, TurnsKeeps
  <2>4. CASE Request.kind = "restore" /\ Sets("restore", run.phase)
    <3>1. Turns("restore", "none", "main") /\ Fits("restore", "main")
      BY <1>3, <2>4 DEF Turns, Fits, Sets
    <3> QED BY <1>2, <1>3, <3>1, TurnsKeeps
  <2>5. CASE Request.kind = "delete" /\ Sets("apply", "delete") /\ run'.target \in Target
    <3>1. Turns("apply", "none", "delete") /\ Fits("apply", "delete")
      BY <1>3, <2>5 DEF Turns, Fits, Sets
    <3> QED BY <1>2, <1>3, <3>1, TurnsKeeps
  <2>6. CASE Request.kind = "delete" /\ Sets("cancelled", run.phase) /\ run'.then = "deleting"
    <3>1. Turns("cancelled", "deleting", "main") /\ Fits("deleting", "main")
      BY <1>3, <2>6 DEF Turns, Fits, Sets
    <3> QED BY <1>2, <1>3, <3>1, TurnsKeeps
  <2> QED BY <1>5, <2>1, <2>2, <2>3, <2>4, <2>5, <2>6 DEF Begins
<1> QED BY <1>1, <1>4, <1>5

\* The end of the operation, with its aim reached.
LEMMA CloseKeeps ==
    ASSUME Engaged, Counted, RunInv, Kept, run'.open = run.open,
           Place \in Inside \/ Place = "close", run'.pc = "close",
           run'.phase \notin {"loop", "trial"},
           run'.errs = {} \/ run'.stage = "restored" => GoalMet' /\ Clean'
    PROVE  RunInv'
<1>1. Place' = "close" /\ ~InApply' /\ ~InDelete'
  BY DEF Place, InApply, InDelete, Applies, Reboots
<1>2. /\ "close" \notin Inside /\ "close" \notin Matched /\ "close" \notin Working /\ "close" \notin Observes
      /\ "close" \notin Opening /\ "close" \in Ending /\ "close" \notin Imports
  BY DEF Inside, Matched, Working, Observes, Opening, Ending, Imports
<1>3. ThenAt'
  BY DEF ThenAt, Reboots
<1>4. PhaseAt' /\ KindAt'
  BY <1>1, <1>2 DEF PhaseAt, KindAt
<1>5. Shared'
  BY <1>1, <1>2 DEF Shared, RunInv, Kept
<1>6. AimAt'
  BY <1>1, <1>2 DEF AimAt
<1>7. ProvenAt'
  BY <1>1, <1>2 DEF ProvenAt
<1> QED BY <1>3, <1>4, <1>5, <1>6, <1>7 DEF RunInv

\* What was confirmed under the operation's SIM is clean.
LEMMA ConfirmCleans ==
    ASSUME Engaged, RunInv, Kept, Valid, Place \in Matched, dirty' = [dirty EXCEPT ![owner.sim] = 0]
    PROVE  Clean'
<1>1. owner.sim = ops[run.op].owner.sim
  BY DEF Valid, RunInv, Shared
<1>2. ops'[run'.op].owner = ops[run.op].owner
  BY DEF Kept
<1>3. ops[run.op].owner.sim \in Sims
  BY <1>1 DEF Engaged, Owners
<1> QED BY <1>1, <1>2, <1>3 DEF Clean, Engaged

\* A profile found in force, before or after writing it.
LEMMA SettlesKeeps ==
    ASSUME Engaged, Counted, RunInv, Kept, Valid, InApply, Place \in Applies, Shown(run.target),
           Settles(run.phase), UNCHANGED ops
    PROVE  RunInv'
<1>0. Place \in Working /\ Place \in Matched /\ Place \in Inside /\ Place \notin Ending
  BY DEF Applies, Working, Matched, Inside, Opening, Ending, Labels
<1>1. Clean'
  BY <1>0, ConfirmCleans DEF Settles
<1>2. run.stage # "restored" /\ run.phase # "loop"
  BY <1>0 DEF RunInv, ProvenAt, PhaseAt, Applies, Place, Ending
<1>3. \A t : Shown(t)' <=> Shown(t)
  BY DEF Shown, Settles
<1>4. CASE run.phase = "trial"
  <2>1. Place' = "observe" /\ run'.pc = "observe" /\ run'.phase = "trial" /\ run'.stage # "restored"
    BY <1>2, <1>4 DEF Settles, Place
  <2>2. /\ "observe" \in Inside /\ "observe" \in Matched /\ "observe" \in Observes /\ "observe" \notin Opening
        /\ "observe" \notin Imports /\ "observe" \notin Ending /\ ~InApply' /\ ~InDelete'
    BY <2>1 DEF Inside, Matched, Observes, Opening, Ending, Imports, Labels, InApply, InDelete, Applies, Reboots
  <2>3. ThenAt'
    BY <2>1 DEF ThenAt, Reboots
  <2>4. PhaseAt' /\ KindAt'
    BY <1>4, <2>1, <2>2 DEF PhaseAt, KindAt, RunInv, Kept
  <2>5. Shared'
    BY <1>0, <2>1, <2>2 DEF Shared, RunInv, Kept, Settles, Carries
  <2>6. AimAt'
    BY <1>0, <1>4, <2>1, <2>2 DEF AimAt, RunInv, Kept, Settles, Carries
  <2>7. ProvenAt'
    BY <1>1, <1>3, <2>1, <2>2 DEF ProvenAt, Settles, Carries
  <2> QED BY <2>3, <2>4, <2>5, <2>6, <2>7 DEF RunInv
<1>5. CASE run.phase = "delete"
  <2>1. Turns("cancelled", "deleting", "main") /\ Fits("deleting", "main")
    BY <1>2, <1>5 DEF Turns, Fits, Settles, Carries, RunInv, KindAt
  <2> QED BY <1>0, <2>1, TurnsKeeps
<1>6. CASE run.phase = "main"
  <2>1. Request.kind = "apply" /\ run.target = Request.target
    BY <1>6 DEF RunInv, KindAt, AimAt
  <2>2. GoalMet'
    BY <1>3, <2>1 DEF GoalMet, Kept
  <2>3. run'.pc = "close" /\ run'.open = run.open /\ run'.phase \notin {"loop", "trial"}
    BY <1>6 DEF Settles, Carries
  <2> QED BY <1>0, <1>1, <2>2, <2>3, CloseKeeps
<1>7. CASE run.phase = "restore"
  <2>1. Request.kind \in {"trial", "restore"} /\ run.target = RestoreTarget
    BY <1>7 DEF RunInv, KindAt, AimAt
  <2>2. run'.pc = "close" /\ run'.open = run.open /\ run'.phase \notin {"loop", "trial"}
        /\ run'.stage = "restored" /\ run'.original = run.original
    BY <1>7 DEF Settles, Carries
  <2>3. GoalMet'
    <3>1. CASE Request.kind = "trial"
      <4>1. Shown(ActiveChoice(run.original))
        BY <2>1, <3>1 DEF RestoreTarget
      <4>2. Shown(ActiveChoice(run.original))'
        BY <4>1, <2>2 DEF Shown, ActiveChoice, Settles
      <4> QED BY <2>2, <3>1, <4>2 DEF GoalMet, Kept
    <3>2. CASE Request.kind = "restore"
      <4>1. Shown(ActiveChoice(ops[Request.restore].original))
        BY <2>1, <3>2 DEF RestoreTarget
      <4>2. Shown(ActiveChoice(ops[Request.restore].original))'
        BY <4>1 DEF Shown, ActiveChoice, Settles, Kept
      <4> QED BY <2>2, <3>2, <4>2 DEF GoalMet, Kept
    <3> QED BY <2>1, <3>1, <3>2
  <2> QED BY <1>0, <1>1, <2>2, <2>3, CloseKeeps
<1> QED BY <1>2, <1>4, <1>5, <1>6, <1>7, RunFields DEF Phases, Engaged

\* The readings of apply, importFile and deleteProfile.
LEMMA ReadingsKeep ==
    ASSUME Engaged, Counted, RunInv, ApplyInspect \/ ReadBack \/ ReadAdded \/ ReadDeleted
    PROVE  RunInv'
<1>1. CASE ApplyInspect
  <2>1. run.pc = "apply" /\ Place = "apply" /\ run.pc \notin Ending /\ run.pc # "idle" /\ Place \notin Observes
        /\ Place \in Applies /\ InApply
    BY <1>1 DEF ApplyInspect, At, Place, Ending, Observes, Applies, InApply
  <2>2. CASE Valid /\ Shown(run.target) /\ Settles(run.phase)
    <3>1. UNCHANGED ops /\ recon' = recon /\ run'.op = run.op
      BY <1>1, <2>2, ApplyInspectDoes DEF Frame, Settles, Carries
    <3>2. Kept
      BY <3>1, BooksKeep, StillBooks
    <3> QED BY <2>1, <2>2, <3>1, <3>2, SettlesKeeps
  <2>3. CASE ~(Valid /\ Shown(run.target) /\ Settles(run.phase))
    <3>1. UNCHANGED <<ops, recon>> /\ (Goes("applying") \/ Stumbles)
      BY <1>1, <2>3, ApplyInspectDoes DEF Frame
    <3> QED BY <2>1, <3>1, GoesKeeps DEF Moves
  <2> QED BY <2>2, <2>3
<1>2. CASE ReadBack
  <2>1. run.pc = "readback" /\ Place = "readback" /\ run.pc \notin Ending /\ run.pc # "idle"
        /\ Place \in Applies /\ InApply
    BY <1>2 DEF ReadBack, At, Place, Ending, Applies, InApply
  <2>2. CASE Valid /\ Shown(run.target) /\ Settles(run.phase)
    <3>1. UNCHANGED ops /\ recon' = recon /\ run'.op = run.op
      BY <1>2, <2>2, ReadBackDoes DEF Frame, Settles, Carries
    <3>2. Kept
      BY <3>1, BooksKeep, StillBooks
    <3> QED BY <2>1, <2>2, <3>1, <3>2, SettlesKeeps
  <2>3. CASE ~(Valid /\ Shown(run.target) /\ Settles(run.phase))
    <3>1. UNCHANGED <<ops, recon>> /\ Stumbles
      BY <1>2, <2>3, ReadBackDoes DEF Frame
    <3>2. Kept
      BY <3>1, BooksKeep, StillBooks DEF Stumbles
    <3> QED BY <2>1, <3>1, <3>2, StumbleKeeps
  <2> QED BY <2>2, <2>3
<1>3. CASE ReadAdded
  <2>1. run.pc = "added" /\ Place = "added" /\ run.pc \notin Ending /\ run.pc # "idle"
        /\ Place \in Working /\ Place \in Matched /\ Place \in Inside /\ Place \in Imports
    BY <1>3 DEF ReadAdded, At, Place, Ending, Working, Matched, Inside, Opening, Imports, Labels
  <2>2. run.stage # "restored" /\ run.phase = "main" /\ Request.kind \in {"apply", "import"}
    BY <2>1 DEF RunInv, ProvenAt, PhaseAt, KindAt, InApply, Applies, Reboots, Observes
  <2>3. CASE Stumbles
    <3>1. Kept
      BY <1>3, <2>3, ReadAddedDoes, BooksKeep, StillBooks DEF Stumbles, Frame
    <3> QED BY <2>1, <2>3, <3>1, StumbleKeeps
  <2>4. CASE ~Stumbles
    <3>1. /\ Valid /\ modem.installed \ run.original.installed # {}
          /\ dirty' = [dirty EXCEPT ![owner.sim] = 0] /\ UNCHANGED <<ops, recon, modem>>
          /\ \/ Request.kind = "apply" /\ Sets("apply", "main") /\ run'.target = Request.target
             \/ Request.kind # "apply" /\ Sets("close", run.phase)
      BY <1>3, <2>4, ReadAddedDoes DEF Frame
    <3>2. Kept
      BY <3>1, BooksKeep, StillBooks DEF Sets
    <3>3. CASE Request.kind = "apply"
      <4>1. Turns("apply", "none", "main") /\ Fits("apply", "main")
        BY <2>2, <3>1, <3>3 DEF Turns, Fits, Sets
      <4> QED BY <2>1, <3>2, <4>1, TurnsKeeps
    <3>4. CASE Request.kind # "apply"
      <4>1. Sets("close", run.phase) /\ Request.kind = "import"
        BY <2>2, <3>1, <3>4
      <4>2. Clean'
        BY <2>1, <3>1, <3>2, ConfirmCleans
      <4>3. GoalMet'
        BY <3>1, <3>2, <4>1 DEF GoalMet, Kept, Sets
      <4> QED BY <2>1, <2>2, <3>2, <4>1, <4>2, <4>3, CloseKeeps DEF Sets
    <3> QED BY <3>3, <3>4
  <2> QED BY <2>3, <2>4
<1>4. CASE ReadDeleted
  <2>1. run.pc = "deleted" /\ Place = "deleted" /\ run.pc \notin Ending /\ run.pc # "idle"
        /\ Place \in Matched /\ Place \in Inside /\ InDelete
    BY <1>4 DEF ReadDeleted, At, Place, Ending, Matched, Inside, Opening, InDelete, Labels
  <2>2. run.stage # "restored" /\ Request.kind = "delete"
    BY <2>1 DEF RunInv, ProvenAt, KindAt
  <2>3. CASE Stumbles
    <3>1. Kept
      BY <1>4, <2>3, ReadDeletedDoes, BooksKeep, StillBooks DEF Stumbles, Frame
    <3> QED BY <2>1, <2>3, <3>1, StumbleKeeps
  <2>4. CASE ~Stumbles
    <3>1. /\ Valid /\ Request.target.profile \notin modem.installed /\ Settles("main")
          /\ UNCHANGED <<ops, recon, modem>>
      BY <1>4, <2>4, ReadDeletedDoes DEF Frame
    <3>2. Kept
      BY <3>1, BooksKeep, StillBooks DEF Settles, Carries
    <3>3. Clean'
      BY <2>1, <3>1, <3>2, ConfirmCleans DEF Settles
    <3>4. GoalMet'
      BY <2>2, <3>1, <3>2 DEF GoalMet, Kept
    <3>5. run'.pc = "close" /\ run'.phase = "main" /\ run'.open = run.open
      BY <3>1 DEF Settles, Carries
    <3> QED BY <2>1, <3>2, <3>3, <3>4, <3>5, CloseKeeps
  <2> QED BY <2>3, <2>4
<1> QED BY <1>1, <1>2, <1>3, <1>4

\* The candidates of a trial, and the restore.
LEMMA TrialKeeps ==
    ASSUME Engaged, Counted, RunInv, NextCandidate \/ CandidateComplete \/ Restore
    PROVE  RunInv'
<1>1. CASE NextCandidate
  <2>1. run.pc = "next" /\ Place = "next" /\ Place \in Working /\ run.pc \notin Ending
    BY <1>1 DEF NextCandidate, At, Place, Working, Matched, Inside, Opening, Ending, Labels
  <2>2. run.left # <<>> /\ Request.kind = "trial" /\ run.stage # "restored" /\ run.phase = "loop"
        /\ ToSet(run.left) \subseteq ToSet(Request.candidates)
    BY <2>1 DEF RunInv, AimAt, KindAt, ProvenAt, PhaseAt
  <2>3. /\ Still /\ UNCHANGED ops
        /\ Sets("apply", "trial") /\ run'.left = Tail(run.left)
        /\ run'.target = [auto |-> FALSE, profile |-> Head(run.left)] /\ run'.target \in Target
    BY <1>1, <2>2, NextCandidateDoes
  <2>4. Kept
    BY <2>3, BooksKeep, StillBooks DEF Sets, Still, Frame
  <2>5. PICK left \in Seq(Profiles) : left = run.left
    BY RunFields DEF Engaged
  <2>6. Head(left) \in ToSet(left) /\ ToSet(Tail(left)) \subseteq ToSet(left)
    BY <2>2, <2>5 DEF ToSet
  <2>7. Turns("apply", "none", "trial")
    BY <2>2, <2>3 DEF Turns, Sets
  <2>8. Fits("apply", "trial")
    BY <2>2, <2>3, <2>5, <2>6 DEF Fits
  <2> QED BY <2>1, <2>4, <2>7, <2>8, TurnsKeeps
<1>2. CASE Restore
  <2>1. run.pc = "restoring" /\ Place = "restoring" /\ Place \in Working /\ Place \in Matched /\ run.pc \notin Ending
    BY <1>2 DEF Restore, At, Place, Working, Matched, Inside, Opening, Ending, Labels
  <2>2. Request.kind \in {"trial", "restore"} /\ run.stage # "restored" /\ run.original \in Snapshots
        /\ (Request.kind = "restore" => ops[Request.restore].original \in Snapshots)
    BY <2>1 DEF RunInv, KindAt, ProvenAt, Shared, AimAt
  <2>3. RestoreTarget \in Target
    BY <2>2, ChoiceShape DEF RestoreTarget
  <2>4. /\ Still /\ UNCHANGED ops
        /\ Sets("apply", "restore") /\ run'.target = RestoreTarget
    BY <1>2, <2>3, RestoreDoes
  <2>5. Kept
    BY <2>4, BooksKeep, StillBooks DEF Sets, Still, Frame
  <2>6. Turns("apply", "none", "restore") /\ Fits("apply", "restore")
    BY <2>2, <2>3, <2>4 DEF Turns, Fits, Sets
  <2> QED BY <2>1, <2>5, <2>6, TurnsKeeps
<1>3. CASE CandidateComplete
  <2>1. /\ run.pc = "candidate" /\ Place = "candidate" /\ Place \in Working /\ Place \in Inside
        /\ Place \in Observes /\ run.pc \notin Ending
    BY <1>3 DEF CandidateComplete, At, Place, Working, Matched, Inside, Opening, Ending, Labels, Observes
  <2>2. /\ run.errs = {} => Shown(run.target) /\ Clean /\ run.current \in Snapshots
        /\ run.stage # "restored" /\ run.phase = "trial" /\ Request.kind = "trial"
        /\ ToSet(run.left) \subseteq ToSet(Request.candidates)
        /\ ~run.target.auto /\ run.target.profile \in ToSet(Request.candidates)
    BY <2>1 DEF RunInv, ProvenAt, PhaseAt, KindAt, AimAt
  <2>3. Frame /\ UNCHANGED <<modem, dirty>> /\ Books /\ Concludes
    BY <1>3, <2>2, CandidateCompleteDoes
  <2>4. Kept
    BY <2>3, BooksKeep DEF Concludes, Frame
  <2>5. run'.stage # "restored"
    BY <2>2, <2>3 DEF Concludes
  <2>6. CASE run'.pc = "cancelled"
    <3>1. Turns("cancelled", "next", "loop") /\ Fits("next", "loop")
      BY <2>2, <2>3, <2>5, <2>6 DEF Concludes, Turns, Fits
    <3> QED BY <2>1, <2>4, <3>1, TurnsKeeps
  <2>7. CASE run'.pc = "restore"
    <3>1. Turns("restore", "none", "main") /\ Fits("restore", "main")
      BY <2>2, <2>3, <2>5, <2>7 DEF Concludes, Turns, Fits
    <3> QED BY <2>1, <2>4, <3>1, TurnsKeeps
  <2>8. CASE run'.pc = "close" /\ run'.phase = "main" /\ run.errs = {} /\ run'.errs = {}
    <3>1. Clean'
      BY <2>2, <2>3, <2>4, <2>8 DEF Clean, Kept
    <3>2. \E p \in ToSet(Request.candidates) : Shown([auto |-> FALSE, profile |-> p])'
      <4>1. PICK p \in ToSet(Request.candidates) : p = run.target.profile
        BY <2>2
      <4>2. run.target \in Target
        BY <2>1 DEF RunInv, AimAt
      <4>3. run.target.auto = FALSE
        BY <2>2, <4>2 DEF Target
      <4>4. modem.auto = FALSE /\ {modem.selected, modem.activated} = {p}
        BY <2>2, <2>8, <4>1, <4>3 DEF Shown
      <4>5. modem'.auto = FALSE /\ {modem'.selected, modem'.activated} = {p}
        BY <2>3, <4>4
      <4>6. Shown([auto |-> FALSE, profile |-> p])'
        BY <4>5 DEF Shown
      <4> QED BY <4>6
    <3>3. GoalMet'
      BY <2>2, <2>4, <2>5, <3>2 DEF GoalMet, Kept
    <3>4. run'.open = run.open
      BY <2>3 DEF Concludes
    <3> QED BY <2>1, <2>4, <2>8, <3>1, <3>3, <3>4, CloseKeeps
  <2>9. CASE run'.pc = "close" /\ run'.errs # {} /\ run'.phase = "trial"
    <3>1. Place' = "close" /\ ~InApply' /\ ~InDelete'
      BY <2>9 DEF Place, InApply, InDelete, Applies, Reboots
    <3>2. /\ "close" \notin Inside /\ "close" \notin Matched /\ "close" \notin Working /\ "close" \notin Observes
          /\ "close" \notin Opening /\ "close" \in Ending /\ "close" \notin Imports
      BY DEF Inside, Matched, Working, Observes, Opening, Ending, Imports
    <3>3. ThenAt'
      BY <2>9 DEF ThenAt, Reboots
    <3>4. PhaseAt' /\ KindAt'
      BY <3>1, <3>2 DEF PhaseAt, KindAt
    <3>5. Shared'
      BY <2>1, <2>3, <2>4, <3>1, <3>2 DEF Shared, RunInv, Kept, Concludes
    <3>6. AimAt'
      BY <2>2, <2>3, <2>4, <3>1, <3>2 DEF AimAt, Concludes, Kept
    <3>7. ProvenAt'
      BY <2>5, <2>9, <3>1, <3>2 DEF ProvenAt
    <3> QED BY <3>3, <3>4, <3>5, <3>6, <3>7 DEF RunInv
  <2> QED BY <2>2, <2>3, <2>6, <2>7, <2>8, <2>9 DEF Concludes
<1> QED BY <1>1, <1>2, <1>3

\* The end of the operation.
LEMMA EndingKeeps ==
    ASSUME Engaged, Counted, RunInv, CloseSession \/ SaveResult \/ Leave
    PROVE  RunInv'
<1>0. \A p \in {"end", "leave", "idle"} :
         /\ p \notin Inside /\ p \notin Matched /\ p \notin Working /\ p \notin Observes
         /\ p \notin Opening /\ p \notin Imports /\ p \notin Applies /\ p \notin Reboots
  BY DEF Inside, Matched, Working, Observes, Opening, Ending, Imports, Applies, Reboots
<1>1. ASSUME run'.pc \in {"end", "leave", "idle"}, ~run'.open,
             run'.pc = "idle" => run'.phase # "loop",
             run'.phase \in {"loop", "trial"} => ToSet(run'.left) \subseteq ToSet(Request'.candidates),
             run'.pc = "end" /\ (run'.errs = {} \/ run'.stage = "restored") => GoalMet' /\ Clean',
             run'.stage = "restored" => run'.pc \in Ending
      PROVE  RunInv'
  <2>1. Place' = run'.pc /\ ~InApply' /\ ~InDelete' /\ Place' # "next"
    BY <1>0, <1>1 DEF Place, InApply, InDelete
  <2>2. ThenAt'
    BY <1>0, <1>1 DEF ThenAt
  <2>3. PhaseAt' /\ KindAt'
    BY <1>0, <1>1, <2>1 DEF PhaseAt, KindAt, Ending
  <2>4. Shared'
    BY <1>0, <1>1, <2>1 DEF Shared
  <2>5. AimAt'
    BY <1>0, <1>1, <2>1 DEF AimAt
  <2>6. ProvenAt'
    BY <1>0, <1>1, <2>1 DEF ProvenAt, Ending
  <2> QED BY <2>2, <2>3, <2>4, <2>5, <2>6 DEF RunInv
<1>2. CASE CloseSession
  <2>1. /\ run.pc = "close" /\ Still /\ UNCHANGED ops
        /\ run' \in Runs /\ run'.op = run.op /\ run'.left = run.left /\ run'.open = FALSE
        /\ run'.original = run.original /\ run'.target = run.target /\ run'.phase = run.phase
        /\ run'.current = run.current /\ run'.pc = "end"
        /\ \/ run'.stage = run.stage /\ run'.errs = run.errs
           \/ run'.stage = "resuming" /\ run'.errs # {}
    BY <1>2, CloseSessionDoes
  <2>2. Kept
    BY <2>1, BooksKeep, StillBooks DEF Still, Frame
  <2>3. run'.phase \in {"loop", "trial"} => ToSet(run'.left) \subseteq ToSet(Request'.candidates)
    BY <2>1, <2>2 DEF RunInv, AimAt, Kept
  <2>4. ASSUME run'.errs = {} \/ run'.stage = "restored" PROVE GoalMet' /\ Clean'
    <3>1. GoalMet /\ Clean /\ run'.stage = run.stage
      BY <2>1, <2>4 DEF RunInv, ProvenAt
    <3>2. \A t : Shown(t)' <=> Shown(t)
      BY <2>1 DEF Shown, Still
    <3>3. GoalMet'
      BY <2>1, <2>2, <3>1 DEF GoalMet, Kept, Still, Shown, ActiveChoice
    <3> QED BY <2>1, <2>2, <3>1, <3>3 DEF Clean, Kept, Still
  <2> QED BY <1>1, <2>1, <2>3, <2>4 DEF Ending
<1>3. CASE SaveResult
  <2>1. /\ run.pc = "end" /\ run' \in Runs /\ run'.op = run.op /\ run'.open = run.open /\ run'.pc = "leave"
        /\ run'.left = run.left /\ run'.phase = run.phase
    BY <1>3, SaveResultDoes
  <2>2. Request' = Request
    <3>1. PICK o : o = [Saved(run, run.stage) EXCEPT !.status = Outcome(run)]
      OBVIOUS
    <3>2. o.request = ops[run.op].request
      BY <3>1, OutcomeShape
    <3>3. ops' = ops \/ ops' = [ops EXCEPT ![run.op] = o]
      BY <1>3, <3>1, SaveResultDoes
    <3>4. ops'[run.op].request = ops[run.op].request
      BY <3>2, <3>3 DEF Engaged
    <3> QED BY <2>1, <3>4 DEF Request
  <2>3. ~run'.open
    <3>1. Place = "end"
      BY <2>1 DEF Place
    <3> QED BY <1>0, <2>1, <3>1 DEF RunInv, Shared
  <2>4. run'.phase \in {"loop", "trial"} => ToSet(run'.left) \subseteq ToSet(Request'.candidates)
    BY <2>1, <2>2 DEF RunInv, AimAt
  <2> QED BY <1>1, <2>1, <2>3, <2>4 DEF Ending
<1>4. CASE Leave
  BY <1>1, <1>4, LeaveDoes, NoRunShape
<1> QED BY <1>2, <1>3, <1>4

(* ---------------------------------------------------------------------- *)
(* What a step of the goroutine does to everything else                    *)
(* ---------------------------------------------------------------------- *)

\* What it may do to the record of unconfirmed writes, and to the stage that tells of them.
Touches ==
    /\ \/ /\ UNCHANGED dirty
          /\ \/ run'.stage = run.stage \/ run'.stage \in Unconfirmed \/ run'.stage = "candidate_complete"
             \/ Place \in Untouched \/ Place = "observe"
       \/ Valid /\ Place \in Matched \ Untouched /\ dirty' = [dirty EXCEPT ![owner.sim] = 0]
       \/ /\ Valid /\ Place \in Matched \ Untouched /\ dirty' = [dirty EXCEPT ![owner.sim] = run.op]
          /\ run'.stage \in Unconfirmed
    /\ Place' \in Untouched => Place \in Untouched
    /\ MarkedAt'

Works ==
    /\ run.pc \notin {"idle", "end", "leave"} /\ run'.pc \notin {"idle", "leave"}
    /\ Frame /\ Books /\ run' \in Runs /\ run'.op = run.op
    /\ modem' \in Modems /\ ready' \in BOOLEAN /\ dirty' \in [Sims -> Nat]
    /\ overrides' \in [Sims -> Overrides \cup {None}]
    /\ modem' # modem => Valid /\ Place \in Matched
    /\ overrides' # overrides => Place \in Inside
    /\ Touches

\* An error confirms nothing and hides nothing.
LEMMA StumbleTouches ==
    ASSUME Stumbles, UNCHANGED dirty, run.pc # "cancelled" \/ ThenAt
    PROVE  Touches
<1>1. Place' = run'.pc /\ run'.pc \in {"restore", "candidate", "close"}
  BY DEF Place, Stumbles
<1>2. Place' \notin Untouched /\ MarkedAt'
  BY <1>1 DEF Untouched, Opening, MarkedAt
<1>3. run.pc \in {"begin", "save", "upload", "observe"} => Place \in Untouched \/ Place = "observe"
  BY DEF Place, Untouched, Opening
<1> QED BY <1>2, <1>3 DEF Touches, Stumbles

\* After an error the goroutine is still there.
LEMMA StumbleStays ==
    ASSUME Stumbles
    PROVE  run'.pc \notin {"idle", "leave"} /\ run' \in Runs /\ run'.op = run.op
BY DEF Stumbles

\* A checkpoint works as a step should.
LEMMA ChecksWork ==
    ASSUME Engaged, RunInv, NEW st, NEW p, NEW t, Checks(st, p, t),
           run.pc \notin {"idle", "end", "leave"}, p \notin {"idle", "leave"},
           st = run.stage \/ st \in Unconfirmed \/ Place \in Untouched \/ Place = "observe",
           p \in {"autosel", "select", "add", "delete"} => st \in Unconfirmed,
           run'.pc = p /\ run'.then = t => (Place' \in Untouched => Place \in Untouched)
    PROVE  Works
<1>1. Still /\ Books
  BY DEF Checks
<1>2. /\ Frame /\ modem' \in Modems /\ ready' \in BOOLEAN /\ dirty' \in [Sims -> Nat]
      /\ overrides' \in [Sims -> Overrides \cup {None}] /\ modem' = modem /\ overrides' = overrides
      /\ dirty' = dirty
  BY <1>1 DEF Still, Engaged
<1>3. CASE Stumbles
  BY <1>1, <1>2, <1>3, StumbleTouches, StumbleStays DEF Works, RunInv
<1>4. CASE /\ Carries /\ run'.then = t /\ run'.current = run.current /\ run'.phase = run.phase
           /\ run'.stage = st /\ run'.pc = p
  <2>1. MarkedAt'
    BY <1>4 DEF MarkedAt
  <2>2. Touches
    BY <1>2, <1>4, <2>1 DEF Touches
  <2> QED BY <1>1, <1>2, <1>4, <2>2 DEF Works, Carries
<1> QED BY <1>3, <1>4 DEF Checks

\* So do all the steps that save a stage.
LEMMA CheckpointsWork ==
    ASSUME Engaged, RunInv,
           \/ Begin \/ SaveOriginal \/ SaveApplying \/ SaveWaiting \/ SaveVerifying \/ SaveUploading
           \/ SaveImporting \/ SaveDeleting \/ SaveObserving \/ SaveRestoring \/ CheckCancelled \/ Preflight
    PROVE  Works
<1> USE DEF Place, Untouched, Opening, Unconfirmed
<1>1. CASE Begin
  BY <1>1, Checkpoints, ChecksWork
<1>2. CASE SaveOriginal
  BY <1>2, Checkpoints, ChecksWork
<1>3. CASE SaveApplying
  BY <1>3, Checkpoints, ChecksWork
<1>4. CASE SaveWaiting
  BY <1>4, Checkpoints, ChecksWork
<1>5. CASE SaveVerifying
  BY <1>5, Checkpoints, ChecksWork
<1>6. CASE SaveUploading
  BY <1>6, Checkpoints, ChecksWork
<1>7. CASE SaveImporting
  BY <1>7, Checkpoints, ChecksWork
<1>8. CASE SaveDeleting
  BY <1>8, Checkpoints, ChecksWork
<1>9. CASE SaveObserving
  BY <1>9, Checkpoints, ChecksWork
<1>10. CASE SaveRestoring
  BY <1>10, Checkpoints, ChecksWork
<1>11. CASE CheckCancelled
  <2>1. run.pc = "cancelled" /\ Checks(run.stage, run.then, run.then)
    BY <1>11, CheckCancelledDoes DEF RunInv
  <2>2. run.then \in {"preflight", "importing", "deleting", "next", "poll"}
    BY <2>1 DEF RunInv, ThenAt
  <2> QED BY <2>1, <2>2, ChecksWork
<1>12. CASE Preflight
  BY <1>12, PreflightDoes, ChecksWork
<1> QED BY <1>1, <1>2, <1>3, <1>4, <1>5, <1>6, <1>7, <1>8, <1>9, <1>10, <1>11, <1>12

\* A step that only moves the goroutine.
LEMMA StillWorks ==
    ASSUME Engaged, RunInv, Still, UNCHANGED ops, run.pc \notin {"idle", "end", "leave"},
           run' \in Runs, run'.op = run.op, run'.pc \notin {"idle", "leave"},
           \/ run'.stage = run.stage \/ run'.stage \in Unconfirmed,
           Place' \in Untouched => Place \in Untouched,
           MarkedAt'
    PROVE  Works
<1>1. Books
  BY StillBooks
<1>2. /\ Frame /\ modem' \in Modems /\ ready' \in BOOLEAN /\ dirty' \in [Sims -> Nat]
      /\ overrides' \in [Sims -> Overrides \cup {None}] /\ modem' = modem /\ overrides' = overrides
      /\ dirty' = dirty
  BY DEF Still, Engaged
<1>3. Touches
  BY <1>2 DEF Touches
<1> QED BY <1>1, <1>2, <1>3 DEF Works

\* So does an error.
LEMMA StumbleWorks ==
    ASSUME Engaged, RunInv, Still, UNCHANGED ops, Stumbles, run.pc \notin {"idle", "end", "leave"}
    PROVE  Works
<1>1. Books
  BY StillBooks
<1>2. /\ Frame /\ modem' \in Modems /\ ready' \in BOOLEAN /\ dirty' \in [Sims -> Nat]
      /\ overrides' \in [Sims -> Overrides \cup {None}] /\ modem' = modem /\ overrides' = overrides
      /\ dirty' = dirty
  BY DEF Still, Engaged
<1>3. Touches
  BY <1>2, StumbleTouches DEF RunInv
<1> QED BY <1>1, <1>2, <1>3, StumbleStays DEF Works

\* The steps that leave modem, choices and unconfirmed writes alone.
LEMMA MovesWork ==
    ASSUME Engaged, RunInv,
           \/ Open \/ ReadOriginal \/ Prepare \/ AdoptWorker \/ RebootTimeout \/ Upload \/ NextCandidate
           \/ Observe \/ Restore \/ CloseSession
    PROVE  Works
<1> USE DEF Untouched, Opening, MarkedAt
<1>1. CASE Open
  <2>1. run.pc = "open" /\ Still /\ UNCHANGED ops /\ Place = "open"
    BY <1>1, OpenDoes DEF Place
  <2>2. CASE Stumbles
    BY <2>1, <2>2, StumbleWorks
  <2>3. CASE ~Stumbles
    BY <1>1, <2>1, <2>3, OpenDoes, StillWorks
  <2> QED BY <2>2, <2>3
<1>2. CASE ReadOriginal
  <2>1. run.pc = "inspect" /\ Still /\ UNCHANGED ops /\ Place = "inspect"
    BY <1>2, ReadOriginalDoes DEF Place
  <2>2. CASE Stumbles
    BY <2>1, <2>2, StumbleWorks
  <2>3. CASE ~Stumbles
    BY <1>2, <2>1, <2>3, ReadOriginalDoes, StillWorks
  <2> QED BY <2>2, <2>3
<1>3. CASE Prepare
  <2>1. run.pc = "prepare" /\ Place = "prepare"
    BY <1>3 DEF Prepare, At, Place
  <2>2. Still /\ UNCHANGED ops /\ (Begins \/ Stumbles)
    BY <1>3, <2>1, PrepareDoes DEF RunInv, AimAt
  <2>3. CASE Stumbles
    BY <2>1, <2>2, <2>3, StumbleWorks
  <2>4. CASE Begins
    <3>1. /\ run' \in Runs /\ run'.op = run.op /\ run'.stage = run.stage
          /\ run'.pc \in {"upload", "apply", "cancelled", "restore"}
      BY <2>4 DEF Begins, Sets
    <3> QED BY <2>1, <2>2, <3>1, StillWorks
  <2> QED BY <2>2, <2>3, <2>4
<1>4. CASE AdoptWorker
  <2>1. run.pc = "reenumerate" /\ Place = "reenumerate" /\ run.then \in {"verifying", "deleted"} /\ ThenAt
    BY <1>4 DEF AdoptWorker, At, Place, RunInv, ThenAt, Reboots
  <2>2. Still /\ UNCHANGED ops
    BY <1>4, <2>1, AdoptWorkerDoes
  <2>3. CASE Stumbles
    BY <2>1, <2>2, <2>3, StumbleWorks
  <2>4. CASE ~Stumbles
    <3>1. /\ run' \in Runs /\ run'.op = run.op /\ run'.stage = run.stage /\ run'.pc = run.then
      BY <1>4, <2>1, <2>4, AdoptWorkerDoes
    <3>2. Place' \in {"verifying", "deleted"}
      BY <2>1, <3>1 DEF Place
    <3> QED BY <2>1, <2>2, <3>1, <3>2, StillWorks
  <2> QED BY <2>3, <2>4
<1>5. CASE RebootTimeout
  BY <1>5, RebootTimeoutDoes, StumbleWorks
<1>6. CASE Upload
  <2>1. run.pc = "uploading" /\ Still /\ UNCHANGED ops /\ (Goes("cancelled") \/ Stumbles) /\ Place = "uploading"
    BY <1>6, UploadDoes DEF Place
  <2>2. CASE Stumbles
    BY <2>1, <2>2, StumbleWorks
  <2>3. CASE Goes("cancelled")
    BY <2>1, <2>3, StillWorks DEF Goes, Carries
  <2> QED BY <2>1, <2>2, <2>3
<1>7. CASE NextCandidate
  <2>0. Place = "next"
    BY <1>7 DEF NextCandidate, At, Place
  <2>1. run.pc = "next" /\ Still /\ UNCHANGED ops /\ Sets("apply", "trial")
    BY <1>7, <2>0, NextCandidateDoes DEF RunInv, AimAt
  <2>2. Place' = "apply"
    BY <2>1 DEF Place, Sets
  <2> QED BY <2>1, <2>2, StillWorks DEF Sets
<1>8. CASE Observe
  <2>1. run.pc = "poll" /\ Still /\ UNCHANGED ops /\ (Goes("candidate") \/ Stumbles)
    BY <1>8, ObserveDoes
  <2>2. CASE Stumbles
    BY <2>1, <2>2, StumbleWorks
  <2>3. CASE Goes("candidate")
    <3>1. Place' = "candidate"
      BY <2>3 DEF Place, Goes
    <3> QED BY <2>1, <2>3, <3>1, StillWorks DEF Goes, Carries
  <2> QED BY <2>1, <2>2, <2>3
<1>9. CASE Restore
  <2>1. run.pc = "restoring" /\ Place = "restoring" /\ Place \in Working /\ Place \in Matched
    BY <1>9 DEF Restore, At, Place, Working, Matched, Inside, Ending, Labels
  <2>2. RestoreTarget \in Target
    BY <2>1, ChoiceShape DEF RestoreTarget, RunInv, KindAt, Shared, AimAt
  <2>3. /\ Still /\ UNCHANGED ops /\ Sets("apply", "restore")
    BY <1>9, <2>2, RestoreDoes
  <2>4. Place' = "apply"
    BY <2>3 DEF Place, Sets
  <2> QED BY <2>1, <2>3, <2>4, StillWorks DEF Sets
<1>10. CASE CloseSession
  <2>1. /\ run.pc = "close" /\ Still /\ UNCHANGED ops /\ run' \in Runs /\ run'.op = run.op /\ run'.pc = "end"
        /\ run'.stage = run.stage \/ run'.stage = "resuming"
    BY <1>10, CloseSessionDoes
  <2>2. Place' = "end" /\ "resuming" \in Unconfirmed
    BY <2>1 DEF Place, Unconfirmed
  <2> QED BY <2>1, <2>2, StillWorks
<1> QED BY <1>1, <1>2, <1>3, <1>4, <1>5, <1>6, <1>7, <1>8, <1>9, <1>10

\* The commands that write: announced, under the operation's SIM.
LEMMA WritesWork ==
    ASSUME Engaged, RunInv, MarkedAt, WriteAutoSel \/ WriteSelect \/ WriteAdd \/ WriteDelete
    PROVE  Works
<1>1. ASSUME NEW p \in {"waiting", "select", "added", "reboot"}, Wrote(Goes(p)),
             run.pc \in {"autosel", "select", "add", "delete"}
      PROVE  Works
  <2>0. Place \in Matched \ Untouched /\ run.stage \in Unconfirmed
    BY <1>1 DEF Place, Matched, Inside, Opening, Ending, Labels, Untouched, MarkedAt
  <2>1. /\ Frame /\ UNCHANGED <<ops, overrides, ready>> /\ modem' \in Modems /\ dirty' \in [Sims -> Nat]
        /\ \/ Valid /\ dirty' = [dirty EXCEPT ![owner.sim] = run.op] /\ (Goes(p) \/ Stumbles)
           \/ UNCHANGED <<modem, dirty>> /\ Stumbles
    BY <1>1 DEF Wrote
  <2>2. Books /\ ready' \in BOOLEAN /\ overrides' \in [Sims -> Overrides \cup {None}]
    BY <2>1, StillBooks DEF Engaged
  <2>3. CASE UNCHANGED <<modem, dirty>> /\ Stumbles
    <3>1. Touches
      BY <2>3, StumbleTouches DEF RunInv
    <3> QED BY <1>1, <2>1, <2>2, <2>3, <3>1, StumbleStays DEF Works
  <2>4. CASE Valid /\ dirty' = [dirty EXCEPT ![owner.sim] = run.op] /\ Goes(p)
    <3>1. /\ run' \in Runs /\ run'.op = run.op /\ run'.pc = p /\ run'.stage = run.stage
      BY <2>4 DEF Goes, Carries
    <3>2. Place' \notin Untouched /\ MarkedAt'
      BY <2>0, <3>1 DEF Place, Untouched, Opening, MarkedAt
    <3>3. Touches
      BY <2>0, <2>4, <3>1, <3>2 DEF Touches
    <3> QED BY <1>1, <2>0, <2>1, <2>2, <2>4, <3>1, <3>3 DEF Works
  <2>5. CASE Valid /\ dirty' = [dirty EXCEPT ![owner.sim] = run.op] /\ Stumbles
    <3>1. run'.stage \in Unconfirmed /\ run'.pc \in {"restore", "candidate", "close"}
      BY <1>1, <2>0, <2>5 DEF Stumbles
    <3>2. Place' \notin Untouched /\ MarkedAt'
      BY <3>1 DEF Place, Untouched, Opening, MarkedAt
    <3>3. Touches
      BY <2>0, <2>5, <3>1, <3>2 DEF Touches
    <3> QED BY <1>1, <2>0, <2>1, <2>2, <2>5, <3>3, StumbleStays DEF Works
  <2> QED BY <2>1, <2>3, <2>4, <2>5
<1>2. CASE WriteAutoSel
  <2>1. run.pc = "autosel"
    BY <1>2 DEF WriteAutoSel, At
  <2> QED BY <1>1, <1>2, <2>1, WriteAutoSelDoes, WriteReady
<1>3. CASE WriteSelect
  <2>1. run.pc = "select"
    BY <1>3 DEF WriteSelect, At
  <2> QED BY <1>1, <1>3, <2>1, WriteSelectDoes, WriteReady
<1>4. CASE WriteAdd
  <2>1. run.pc = "add"
    BY <1>4 DEF WriteAdd, At
  <2> QED BY <1>1, <1>4, <2>1, WriteAddDoes, WriteReady
<1>5. CASE WriteDelete
  BY <1>1, <1>5, WriteDeleteDoes
<1> QED BY <1>2, <1>3, <1>4, <1>5

\* So does the reboot.
LEMMA RebootWorks ==
    ASSUME Engaged, RunInv, Reboot
    PROVE  Works
<1>1. /\ run.pc = "reboot" /\ Frame /\ UNCHANGED <<ops, overrides, dirty>>
      /\ modem' \in Modems /\ ready' \in BOOLEAN /\ (Valid \/ UNCHANGED modem)
      /\ Goes("reenumerate") \/ Stumbles
  BY RebootDoes
<1>2. Books /\ overrides' \in [Sims -> Overrides \cup {None}] /\ dirty' \in [Sims -> Nat]
  BY <1>1, StillBooks DEF Engaged
<1>3. Place \in Matched
  BY <1>1 DEF Place, Matched, Inside, Opening, Ending, Labels
<1>4. CASE Stumbles
  <2>1. Touches
    BY <1>1, <1>4, StumbleTouches DEF RunInv
  <2> QED BY <1>1, <1>2, <1>3, <1>4, <2>1, StumbleStays DEF Works
<1>5. CASE Goes("reenumerate")
  <2>1. Place' \notin Untouched /\ MarkedAt'
    BY <1>5 DEF Goes, Place, Untouched, Opening, MarkedAt
  <2>2. Touches
    BY <1>1, <1>5, <2>1 DEF Touches, Goes
  <2> QED BY <1>1, <1>2, <1>3, <1>5, <2>2 DEF Works, Goes, Carries
<1> QED BY <1>1, <1>4, <1>5

\* The readings that confirm.
LEMMA ReadingsWork ==
    ASSUME Engaged, RunInv, ApplyInspect \/ ReadBack \/ ReadAdded \/ ReadDeleted
    PROVE  Works
<1>0. run.pc \in {"apply", "readback", "added", "deleted"} /\ UNCHANGED <<ops, ready, modem>> /\ Frame
  BY ApplyInspectDoes, ReadBackDoes, ReadAddedDoes, ReadDeletedDoes
<1>1. Place \in Matched \ Untouched /\ Place \in Inside
  BY <1>0 DEF Place, Matched, Inside, Opening, Ending, Labels, Untouched
<1>2. Books /\ ready' \in BOOLEAN /\ modem' \in Modems
  BY <1>0, StillBooks DEF Engaged
<1>3. ASSUME UNCHANGED <<overrides, dirty>>, Stumbles PROVE Works
  <2>1. Touches
    BY <1>3, StumbleTouches DEF RunInv
  <2> QED BY <1>0, <1>2, <1>3, <2>1, StumbleStays DEF Works, Engaged
<1>4. ASSUME Valid, dirty' = [dirty EXCEPT ![owner.sim] = 0], dirty' \in [Sims -> Nat],
             overrides' \in [Sims -> Overrides \cup {None}], run' \in Runs, run'.op = run.op,
             run'.pc \in {"observe", "cancelled", "close", "apply"}, run'.pc = "cancelled" => run'.then = "deleting"
      PROVE  Works
  <2>1. Place' \notin Untouched /\ MarkedAt'
    BY <1>4 DEF Place, Untouched, Opening, MarkedAt
  <2>2. Touches
    BY <1>1, <1>4, <2>1 DEF Touches
  <2> QED BY <1>0, <1>1, <1>2, <1>4, <2>2 DEF Works
<1>5. ASSUME Valid, NEW ph \in Phases, Settles(ph) PROVE Works
  <2>1. /\ run'.pc \in {"observe", "cancelled", "close", "apply"}
        /\ run'.pc = "cancelled" => run'.then = "deleting"
    BY <1>5 DEF Settles, Phases
  <2> QED BY <1>4, <1>5, <2>1 DEF Settles, Carries
<1>6. run.phase \in Phases /\ "main" \in Phases
  BY RunFields DEF Engaged, Phases
<1>7. CASE ApplyInspect
  <2>1. CASE Valid /\ Shown(run.target) /\ Settles(run.phase)
    BY <1>5, <1>6, <2>1
  <2>2. CASE UNCHANGED <<overrides, dirty>> /\ Stumbles
    BY <1>3, <2>2
  <2>3. CASE UNCHANGED <<overrides, dirty>> /\ Goes("applying")
    <3>1. Place' \notin Untouched /\ MarkedAt'
      BY <2>3 DEF Goes, Place, Untouched, Opening, MarkedAt
    <3>2. Touches
      BY <2>3, <3>1 DEF Touches, Goes
    <3> QED BY <1>0, <1>2, <2>3, <3>2 DEF Works, Goes, Carries, Engaged
  <2> QED BY <1>7, <2>1, <2>2, <2>3, ApplyInspectDoes
<1>8. CASE ReadBack
  BY <1>3, <1>5, <1>6, <1>8, ReadBackDoes
<1>9. CASE ReadDeleted
  BY <1>3, <1>5, <1>6, <1>9, ReadDeletedDoes
<1>10. CASE ReadAdded
  <2>1. UNCHANGED overrides /\ dirty' \in [Sims -> Nat]
    BY <1>10, ReadAddedDoes
  <2>2. CASE UNCHANGED dirty /\ Stumbles
    BY <1>3, <2>1, <2>2
  <2>3. CASE ~(UNCHANGED dirty /\ Stumbles)
    <3>1. /\ Valid /\ dirty' = [dirty EXCEPT ![owner.sim] = 0]
          /\ Sets("apply", "main") \/ Sets("close", run.phase)
      BY <1>10, <2>3, ReadAddedDoes
    <3>2. run' \in Runs /\ run'.op = run.op /\ run'.pc \in {"apply", "close"}
      BY <3>1 DEF Sets
    <3> QED BY <1>4, <2>1, <3>1, <3>2 DEF Engaged
  <2> QED BY <2>2, <2>3
<1> QED BY <1>7, <1>8, <1>9, <1>10

\* So does the end of a candidate.
LEMMA CandidateWorks ==
    ASSUME Engaged, RunInv, CandidateComplete
    PROVE  Works
<1>0. run.pc = "candidate" /\ Place = "candidate" /\ Place \in Inside
  BY DEF CandidateComplete, At, Place, Inside, Opening, Ending, Labels
<1>1. run.errs = {} => run.current \in Snapshots
  BY <1>0 DEF RunInv, ProvenAt
<1>2. /\ Frame /\ UNCHANGED <<ready, modem, dirty>> /\ Books
      /\ overrides' \in [Sims -> Overrides \cup {None}] /\ Concludes
  BY <1>1, CandidateCompleteDoes
<1>3. /\ run' \in Runs /\ run'.op = run.op /\ run'.pc \in {"close", "cancelled", "restore"}
      /\ run'.pc = "cancelled" => run'.then = "next"
      /\ run'.stage = run.stage \/ run'.stage = "candidate_complete"
  BY <1>2 DEF Concludes
<1>4. Place' \notin Untouched /\ MarkedAt'
  BY <1>3 DEF Place, Untouched, Opening, MarkedAt
<1>5. Touches
  BY <1>2, <1>3, <1>4 DEF Touches
<1> QED BY <1>0, <1>2, <1>3, <1>5 DEF Works, Engaged

\* Every step of the goroutine, up to its result.
Toils ==
    \/ Begin \/ Open \/ ReadOriginal \/ SaveOriginal \/ CheckCancelled \/ Preflight \/ Prepare
    \/ ApplyInspect \/ SaveApplying \/ WriteAutoSel \/ WriteSelect \/ SaveWaiting
    \/ Reboot \/ AdoptWorker \/ RebootTimeout \/ SaveVerifying \/ ReadBack
    \/ SaveUploading \/ Upload \/ SaveImporting \/ WriteAdd \/ ReadAdded
    \/ SaveDeleting \/ WriteDelete \/ ReadDeleted
    \/ NextCandidate \/ SaveObserving \/ Observe \/ CandidateComplete
    \/ SaveRestoring \/ Restore \/ CloseSession

\* Every step up to the result touches the modem and the marks only where it may.
LEMMA ToilsWorks ==
    ASSUME Engaged, RunInv, MarkedAt, Toils
    PROVE  Works
BY CheckpointsWork, MovesWork, WritesWork, RebootWorks, ReadingsWork, CandidateWorks DEF Toils

\* Every step up to the result keeps the invariants of the goroutine.
LEMMA ToilsKeeps ==
    ASSUME Engaged, Counted, RunInv, Toils
    PROVE  RunInv'
BY CheckpointsKeep, CommandsKeep, OpenKeeps, ReadOriginalKeeps, PrepareKeeps, ReadingsKeep, TrialKeeps,
   EndingKeeps DEF Toils

(* ---------------------------------------------------------------------- *)
(* The invariant                                                           *)
(* ---------------------------------------------------------------------- *)

IInv == Typed /\ Counted /\ RunInv /\ Backed /\ DirtyAt /\ ReconAt

\* A goroutine at work has its operation in the table.
LEMMA BusyEngaged ==
    ASSUME Typed, Counted, Busy
    PROVE  Engaged
<1>1. run.op \in Nat /\ run.op # 0 /\ run.op = Len(ops)
  BY RunFields DEF Typed, Counted
<1>2. run.op \in DOMAIN ops
  BY <1>1 DEF Typed
<1> QED BY <1>2 DEF Engaged, Typed

\* The steps of the goroutine keep types, counts and the table.
LEMMA WorksCounts ==
    ASSUME Typed, Counted, Backed, RunInv, ReconAt, Works
    PROVE  Typed' /\ Counted' /\ Backed' /\ ReconAt'
<1>0. /\ Busy /\ Busy' /\ run.op \in DOMAIN ops /\ ops' \in Seq(Operations) /\ Len(ops') = Len(ops)
      /\ DOMAIN ops' = DOMAIN ops /\ run'.op = run.op
      /\ UNCHANGED <<process, session, policies, active, recon, owner, epoch, lost>> /\ faults' \in Nat
  BY BusyEngaged DEF Works, Busy, Books, Engaged, Frame
<1>1. Typed'
  BY <1>0 DEF Typed, Works
<1>2. Counted'
  <2>1. \A i \in DOMAIN ops : ops'[i].recoveryOf = ops[i].recoveryOf /\ ops'[i].request = ops[i].request
    BY DEF Works, Books
  <2> QED BY <1>0, <2>1 DEF Counted
<1>3. Backed'
  <2>1. /\ Running(ops'[run.op]) /\ run.op \notin lost
        /\ \A i \in DOMAIN ops : i # run.op => ops'[i] = ops[i]
    BY <1>0 DEF Works, Books, Backed
  <2>2. run'.pc # "leave"
    BY DEF Works
  <2> QED BY <1>0, <2>1, <2>2 DEF Backed
<1>4. ReconAt'
  <2>1. CASE recon.pc = "idle"
    BY <1>0, <2>1 DEF ReconAt
  <2>2. CASE recon.pc # "idle"
    <3>1. overrides' = overrides
      BY <2>2 DEF Works, RunInv, Shared
    <3> QED BY <1>0, <3>1 DEF ReconAt, Current
  <2> QED BY <2>1, <2>2
<1> QED BY <1>1, <1>2, <1>3, <1>4

\* They keep the record of unconfirmed writes.
LEMMA WorksDirty ==
    ASSUME Typed, Counted, Backed, RunInv, DirtyAt, Works
    PROVE  DirtyAt'
<1>0. /\ Busy /\ run.op \in DOMAIN ops /\ run.op \in Nat /\ run.op = Len(ops) /\ DOMAIN ops' = DOMAIN ops
      /\ run'.op = run.op /\ run'.pc # "leave" /\ run'.pc # "idle" /\ run.pc # "leave" /\ ops \in Seq(Operations)
      /\ dirty \in [Sims -> Nat] /\ dirty' \in [Sims -> Nat] /\ owner.sim \in Sims /\ run.op # 0
  BY BusyEngaged DEF Works, Busy, Books, Engaged, Frame, Counted, Owners
<1>1. \A i \in DOMAIN ops : ops'[i].owner = ops[i].owner /\ (i # run.op => ops'[i] = ops[i])
  BY DEF Works, Books
<1>2. Running(ops'[run.op])
  BY <1>0 DEF Works, Books, Backed
<1>3. \/ /\ UNCHANGED dirty
         /\ \/ run'.stage = run.stage \/ run'.stage \in Unconfirmed \/ run'.stage = "candidate_complete"
            \/ Place \in Untouched \/ Place = "observe"
      \/ /\ owner.sim = ops[run.op].owner.sim /\ Place \notin Untouched /\ Place \in Matched
         /\ \/ dirty' = [dirty EXCEPT ![owner.sim] = 0]
            \/ dirty' = [dirty EXCEPT ![owner.sim] = run.op] /\ run'.stage \in Unconfirmed
  <2>1. Valid /\ Place \in Matched => owner.sim = ops[run.op].owner.sim
    BY DEF Valid, RunInv, Shared
  <2> QED BY <2>1 DEF Works, Touches
<1>4. \A s \in Sims : dirty'[s] = dirty[s] \/ (s = owner.sim /\ dirty'[s] \in {0, run.op})
  BY <1>0, <1>3
<1>5. \A s \in Sims : dirty'[s] # 0 => dirty'[s] \in DOMAIN ops' /\ ops'[dirty'[s]].owner.sim = s
  BY <1>0, <1>1, <1>3, <1>4 DEF DirtyAt
<1>6. Place' \in Untouched => \A s \in Sims : dirty'[s] # run'.op
  BY <1>0, <1>3 DEF DirtyAt, Works, Touches
<1>7. MarkedAt'
  BY DEF Works, Touches
<1>8. ASSUME NEW s \in Sims, dirty'[s] = run'.op
      PROVE  run'.stage \in Unconfirmed \cup {"candidate_complete"}
  <2>1. CASE /\ UNCHANGED dirty
             /\ \/ run'.stage = run.stage \/ run'.stage \in Unconfirmed \/ run'.stage = "candidate_complete"
                \/ Place \in Untouched \/ Place = "observe"
    <3>1. /\ run.stage \in Unconfirmed \cup {"candidate_complete"} /\ Place \notin Untouched
          /\ ops[run.op].owner.sim = s
      BY <1>0, <1>8, <2>1 DEF DirtyAt
    <3>2. Place # "observe"
      BY <1>0, <1>8, <2>1, <3>1 DEF RunInv, ProvenAt, Clean
    <3> QED BY <2>1, <3>1, <3>2
  <2>2. CASE dirty' = [dirty EXCEPT ![owner.sim] = 0] /\ owner.sim = ops[run.op].owner.sim
    <3>1. s # owner.sim /\ dirty[s] = run.op
      BY <1>0, <1>8, <2>2
    <3> QED BY <1>0, <2>2, <3>1 DEF DirtyAt
  <2>3. CASE run'.stage \in Unconfirmed
    BY <2>3
  <2> QED BY <1>3, <2>1, <2>2, <2>3
<1>9. ASSUME NEW s \in Sims, dirty'[s] # 0, dirty'[s] # run'.op
      PROVE  \/ Running(ops'[dirty'[s]]) \/ ops'[dirty'[s]].status = "needs_attention"
             \/ ops'[dirty'[s]].stage = "candidate_complete"
  <2>1. dirty'[s] = dirty[s] /\ dirty[s] \in DOMAIN ops /\ dirty[s] # run.op
    BY <1>0, <1>4, <1>9 DEF DirtyAt
  <2>2. ops'[dirty'[s]] = ops[dirty[s]]
    BY <1>1, <2>1
  <2>3. \/ Running(ops[dirty[s]]) \/ ops[dirty[s]].status = "needs_attention"
        \/ ops[dirty[s]].stage = "candidate_complete"
    BY <1>9, <2>1 DEF DirtyAt
  <2> QED BY <2>2, <2>3
<1>10. ASSUME NEW j \in DOMAIN ops',
              \/ ops'[j].status = "succeeded"
              \/ ops'[j].status \in {"failed", "cancelled"} /\ ops'[j].stage = "restored"
       PROVE  LET d == dirty'[ops'[j].owner.sim] IN d = 0 \/ d > j
  <2>1. j # run.op
    BY <1>2, <1>10 DEF Running
  <2>2. ops'[j] = ops[j] /\ j \in DOMAIN ops /\ j < run.op
    BY <1>0, <1>1, <2>1
  <2>3. ops[j] \in Operations /\ ops[j].owner.sim \in Sims
    <3>1. ops[j] \in Operations
      BY <1>0, <2>2
    <3> QED BY <3>1 DEF Operations, Owners
  <2>4. dirty[ops[j].owner.sim] = 0 \/ dirty[ops[j].owner.sim] > j
    BY <1>10, <2>2 DEF DirtyAt
  <2> QED BY <1>0, <1>4, <2>2, <2>3, <2>4
<1> QED BY <1>0, <1>5, <1>6, <1>7, <1>8, <1>9, <1>10 DEF DirtyAt

\* The result is written, or its save fails and the operation is lost.
LEMMA SaveResultInvariant ==
    ASSUME IInv, SaveResult
    PROVE  IInv'
<1>0. /\ Busy /\ Busy' /\ Engaged /\ run.op \in DOMAIN ops /\ run.op # 0 /\ run.op \in Nat
      /\ run.pc = "end" /\ run'.pc = "leave" /\ run' \in Runs /\ run'.op = run.op
      /\ UNCHANGED <<process, session, policies, overrides, active, recon, modem, owner, epoch, ready, dirty>>
      /\ faults' \in Nat /\ ops \in Seq(Operations)
  <2>1. Busy
    BY DEF Busy, SaveResult, At
  <2>2. Engaged
    BY <2>1, BusyEngaged DEF IInv
  <2> QED BY <2>1, <2>2, SaveResultDoes DEF Busy, Engaged, IInv, Counted
<1>1. RunInv'
  BY <1>0, EndingKeeps DEF IInv
<1>2. PICK o : o = [Saved(run, run.stage) EXCEPT !.status = Outcome(run)]
  OBVIOUS
<1>3. /\ o \in Operations /\ o.request = ops[run.op].request /\ o.owner = ops[run.op].owner
      /\ o.recoveryOf = ops[run.op].recoveryOf /\ o.stage = run.stage /\ o.status = Outcome(run)
      /\ ~Running(o)
  BY <1>0, <1>2, OutcomeShape DEF Running
<1>4. \/ UNCHANGED lost /\ ops' = [ops EXCEPT ![run.op] = o]
      \/ UNCHANGED ops /\ lost' = lost \cup {run.op}
  BY <1>0, <1>2, SaveResultDoes
<1>5. /\ ops' \in Seq(Operations) /\ Len(ops') = Len(ops) /\ DOMAIN ops' = DOMAIN ops
      /\ lost' \subseteq DOMAIN ops /\ lost \subseteq lost'
      /\ \A i \in DOMAIN ops : i # run.op => ops'[i] = ops[i]
      /\ \A i \in DOMAIN ops : /\ ops'[i].owner = ops[i].owner /\ ops'[i].request = ops[i].request
                               /\ ops'[i].recoveryOf = ops[i].recoveryOf
      /\ \/ ops'[run.op] = o
         \/ ops'[run.op] = ops[run.op] /\ run.op \in lost' /\ Running(ops[run.op])
  <2>1. lost \subseteq DOMAIN ops /\ Running(ops[run.op])
    BY <1>0 DEF IInv, Counted, Backed
  <2>2. CASE UNCHANGED lost /\ ops' = [ops EXCEPT ![run.op] = o]
    <3>1. ops' \in Seq(Operations) /\ Len(ops') = Len(ops) /\ DOMAIN ops' = DOMAIN ops
      BY <1>0, <1>3, <2>2
    <3>2. ops'[run.op] = o /\ \A i \in DOMAIN ops : i # run.op => ops'[i] = ops[i]
      BY <1>0, <2>2
    <3> QED BY <1>3, <2>1, <2>2, <3>1, <3>2
  <2>3. CASE UNCHANGED ops /\ lost' = lost \cup {run.op}
    BY <1>0, <2>1, <2>3
  <2> QED BY <1>4, <2>2, <2>3
<1>6. Typed'
  <2>1. lost' \in SUBSET Nat
    BY <1>0, <1>5
  <2> QED BY <1>0, <1>5, <2>1 DEF IInv, Typed
<1>7. Counted'
  BY <1>0, <1>5 DEF IInv, Counted
<1>8. Backed'
  BY <1>0, <1>3, <1>5 DEF IInv, Backed
<1>9. DirtyAt'
  <2>1. \A s \in Sims : dirty'[s] # 0 => dirty'[s] \in DOMAIN ops' /\ ops'[dirty'[s]].owner.sim = s
    BY <1>0, <1>5 DEF IInv, DirtyAt
  <2>2. Place' \notin Untouched /\ MarkedAt'
    BY <1>0 DEF Place, Untouched, Opening, MarkedAt
  <2>3. run.errs = {} \/ run.stage = "restored" => Clean
    BY <1>0 DEF IInv, RunInv, ProvenAt
  <2>4. ASSUME NEW s \in Sims, dirty'[s] # 0
        PROVE  \/ Running(ops'[dirty'[s]]) \/ ops'[dirty'[s]].status = "needs_attention"
               \/ ops'[dirty'[s]].stage = "candidate_complete"
    <3>1. dirty[s] = dirty'[s] /\ dirty[s] \in DOMAIN ops /\ ops[dirty[s]].owner.sim = s
      BY <1>0, <2>4 DEF IInv, DirtyAt
    <3>2. CASE dirty[s] = run.op
      <4>1. run.stage \in Unconfirmed \cup {"candidate_complete"}
        BY <1>0, <3>2 DEF IInv, DirtyAt
      <4>2. run.errs # {}
        BY <2>3, <2>4, <3>1, <3>2 DEF Clean
      <4>3. run.stage \in Unconfirmed => Outcome(run) = "needs_attention"
        BY <4>2 DEF Outcome, Uncertain
      <4> QED BY <1>3, <1>5, <3>1, <3>2, <4>1, <4>3
    <3>3. CASE dirty[s] # run.op
      <4>1. ops'[dirty[s]] = ops[dirty[s]]
        BY <1>5, <3>1, <3>3
      <4> QED BY <1>0, <2>4, <3>1, <3>3, <4>1 DEF IInv, DirtyAt
    <3> QED BY <3>2, <3>3
  <2>5. ASSUME NEW j \in DOMAIN ops',
              \/ ops'[j].status = "succeeded"
              \/ ops'[j].status \in {"failed", "cancelled"} /\ ops'[j].stage = "restored"
        PROVE  LET d == dirty'[ops'[j].owner.sim] IN d = 0 \/ d > j
    <3>1. CASE j = run.op
      <4>1. ops'[j] = o
        BY <1>5, <2>5, <3>1 DEF Running
      <4>2. run.errs = {} \/ run.stage = "restored"
        BY <1>3, <2>5, <4>1 DEF Outcome, Uncertain
      <4>3. dirty[ops[run.op].owner.sim] = 0
        BY <2>3, <4>2 DEF Clean
      <4> QED BY <1>0, <1>3, <3>1, <4>1, <4>3
    <3>2. CASE j # run.op
      <4>1. ops'[j] = ops[j] /\ j \in DOMAIN ops
        BY <1>5, <3>2
      <4> QED BY <1>0, <2>5, <4>1 DEF IInv, DirtyAt
    <3> QED BY <3>1, <3>2
  <2> QED BY <1>0, <2>1, <2>2, <2>4, <2>5 DEF DirtyAt
<1>10. ReconAt'
  BY <1>0 DEF IInv, ReconAt, Current
<1> QED BY <1>1, <1>6, <1>7, <1>8, <1>9, <1>10 DEF IInv

\* The goroutine is gone; the operation it worked on has its result or is lost.
LEMMA LeaveInvariant ==
    ASSUME IInv, Leave
    PROVE  IInv'
<1>0. /\ run.pc = "leave" /\ run' = NoRun /\ active' = 0 /\ Busy
      /\ UNCHANGED <<process, session, policies, overrides, ops, recon, modem, owner, epoch, ready,
                     dirty, lost, faults>>
  BY LeaveDoes DEF Busy
<1>1. Engaged
  BY <1>0, BusyEngaged DEF IInv
<1>2. RunInv'
  BY <1>1, EndingKeeps DEF IInv
<1>3. run' \in Runs /\ run'.op = 0 /\ run'.pc = "idle" /\ run.op # 0
  BY <1>0, NoRunShape DEF IInv, Counted
<1>4. Typed'
  BY <1>0, <1>3 DEF IInv, Typed
<1>5. Counted'
  BY <1>0, <1>3 DEF IInv, Counted, Busy
<1>6. Backed'
  BY <1>0, <1>3 DEF IInv, Backed, Busy
<1>7. DirtyAt'
  <2>1. Place' \notin Untouched /\ MarkedAt' /\ ~Busy'
    BY <1>3 DEF Place, Untouched, Opening, MarkedAt, Busy
  <2>2. ASSUME NEW s \in Sims, dirty'[s] # 0
        PROVE  \/ Running(ops'[dirty'[s]]) \/ ops'[dirty'[s]].status = "needs_attention"
               \/ ops'[dirty'[s]].stage = "candidate_complete"
    BY <1>0, <2>2 DEF IInv, DirtyAt
  <2> QED BY <1>0, <2>1, <2>2 DEF IInv, DirtyAt
<1>8. ReconAt'
  BY <1>0 DEF IInv, ReconAt, Current
<1> QED BY <1>2, <1>4, <1>5, <1>6, <1>7, <1>8 DEF IInv

\* A goroutine that takes a step is at work, and works as it should.
LEMMA ToilsInvariant ==
    ASSUME IInv, Toils
    PROVE  Busy /\ Engaged /\ Works /\ RunInv'
<1>1. Busy
  BY DEF Toils, Busy, At, Begin, Open, ReadOriginal, SaveOriginal, CheckCancelled, Preflight, Prepare,
     ApplyInspect, SaveApplying, WriteAutoSel, WriteSelect, SaveWaiting,
     Reboot, AdoptWorker, RebootTimeout, SaveVerifying, ReadBack,
     SaveUploading, Upload, SaveImporting, WriteAdd, ReadAdded,
     SaveDeleting, WriteDelete, ReadDeleted,
     NextCandidate, SaveObserving, Observe, CandidateComplete,
     SaveRestoring, Restore, CloseSession
<1>2. Engaged
  BY <1>1, BusyEngaged DEF IInv
<1>3. RunInv' /\ Works
  BY <1>2, ToilsWorks, ToilsKeeps DEF IInv, DirtyAt
<1> QED BY <1>1, <1>2, <1>3

\* The goroutine's steps.
LEMMA RunStepInvariant ==
    ASSUME IInv, RunStep
    PROVE  IInv'
<1>1. ASSUME Toils PROVE IInv'
  <2>1. RunInv' /\ Works
    BY <1>1, ToilsInvariant
  <2> QED BY <2>1, WorksCounts, WorksDirty DEF IInv
<1> QED BY <1>1, SaveResultInvariant, LeaveInvariant DEF RunStep, Toils

(* ---------------------------------------------------------------------- *)
(* The rest of the program, and the world around it                        *)
(* ---------------------------------------------------------------------- *)

\* With no goroutine, or one that has not begun, there is nothing to know.
LEMMA FreshKeeps ==
    ASSUME run'.pc \in {"idle", "begin"}, run'.phase = "main", run'.stage = "queued", ~run'.open
    PROVE  RunInv'
<1>0. \A p \in {"idle", "begin"} :
         /\ p \notin Inside /\ p \notin Matched /\ p \notin Working /\ p \notin Observes
         /\ p \notin Imports /\ p \notin Applies /\ p \notin Reboots
  BY DEF Inside, Matched, Working, Observes, Opening, Ending, Imports, Applies, Reboots
<1>1. Place' = run'.pc /\ ~InApply' /\ ~InDelete' /\ Place' # "next"
  BY <1>0 DEF Place, InApply, InDelete
<1>2. ThenAt'
  BY <1>0 DEF ThenAt
<1>3. PhaseAt' /\ KindAt'
  BY <1>0, <1>1 DEF PhaseAt, KindAt, Ending
<1>4. Shared'
  BY <1>0, <1>1 DEF Shared
<1>5. AimAt'
  BY <1>0, <1>1 DEF AimAt
<1>6. ProvenAt'
  BY <1>0, <1>1 DEF ProvenAt, Ending
<1> QED BY <1>2, <1>3, <1>4, <1>5, <1>6 DEF RunInv

\* A step beside the goroutine that leaves its request, the modem and the record of
\* unconfirmed writes alone.
LEMMA SameKeeps ==
    ASSUME RunInv, run' = run, UNCHANGED <<modem, dirty>>, run.open => recon'.pc = "idle",
           ~Busy => run = NoRun,
           Busy => /\ Request' = Request /\ ops'[run.op].owner = ops[run.op].owner
                   /\ Request.kind = "restore" =>
                         ops'[Request.restore].original = ops[Request.restore].original
    PROVE  RunInv'
<1>1. CASE ~Busy
  <2>1. run' = NoRun
    BY <1>1
  <2> QED BY <2>1, NoRunShape, FreshKeeps
<1>2. CASE Busy
  <2>1. Place' = Place /\ (InApply' <=> InApply) /\ (InDelete' <=> InDelete)
    BY DEF Place, InApply, InDelete
  <2>2. ThenAt'
    BY DEF RunInv, ThenAt
  <2>3. PhaseAt'
    BY <2>1 DEF RunInv, PhaseAt
  <2>4. KindAt'
    BY <1>2, <2>1 DEF RunInv, KindAt
  <2>5. Shared'
    BY <1>2, <2>1 DEF RunInv, Shared
  <2>6. Request.kind = "restore" \/ RestoreTarget' = RestoreTarget
    BY <1>2 DEF RestoreTarget
  <2>7. RestoreTarget' = RestoreTarget
    BY <1>2, <2>6 DEF RestoreTarget
  <2>8. AimAt'
    BY <1>2, <2>1, <2>7 DEF RunInv, AimAt
  <2>9. (GoalMet <=> GoalMet') /\ (Clean <=> Clean') /\ (\A t : Shown(t) <=> Shown(t)')
    BY <1>2 DEF GoalMet, Clean, Shown
  <2>10. ProvenAt'
    BY <1>2, <2>1, <2>9 DEF RunInv, ProvenAt
  <2> QED BY <2>2, <2>3, <2>4, <2>5, <2>8, <2>10 DEF RunInv
<1> QED BY <1>1, <1>2

\* Policies, the automatic check up to its request, and the world change neither the
\* table nor the goroutine.
LEMMA QuietInvariant ==
    ASSUME IInv, UNCHANGED <<ops, run, active, lost, dirty, modem>>, Typed', ReconAt',
           process' = process \/ (process = "up" /\ process' = "stopping"),
           run.open \/ process = "down" => recon'.pc = "idle"
    PROVE  IInv'
<1>1. RunInv'
  BY SameKeeps DEF IInv, Counted, Request
<1>2. Counted'
  BY DEF IInv, Counted, Busy
<1>3. Backed'
  BY DEF IInv, Backed, Busy
<1>4. DirtyAt'
  BY DEF IInv, DirtyAt, MarkedAt, Place, Busy
<1> QED BY <1>1, <1>2, <1>3, <1>4 DEF IInv

\* A check that is over, or has not begun.
LEMMA NoReconShape == NoRecon \in Recons /\ NoRecon.pc = "idle"
BY DEF NoRecon, Recons

\* Saving a policy can only make the session forget its choice (SavePolicy).
LEMMA SavePolicyInvariant ==
    ASSUME IInv, NEW key \in PolicyKeys, NEW choice \in PolicyChoices, SavePolicy(key, choice)
    PROVE  IInv'
<1>0. /\ process = "up" /\ UNCHANGED <<process, session, active, ops, run, recon, modem, owner, epoch, ready, dirty, lost>>
      /\ faults' = faults + 1
  BY DEF SavePolicy, device
<1>1. overrides' \in [Sims -> Overrides \cup {None}] /\ \A s \in Sims : overrides'[s] \in {overrides[s], None}
  BY DEF SavePolicy, IInv, Typed
<1>2. policies' \in [PolicyKeys -> [choice : PolicyChoices, version : Nat]]
  <2>1. PICK p \in [choice : PolicyChoices, version : Nat] : p = policies[key]
    BY DEF IInv, Typed
  <2>2. policies' = [policies EXCEPT ![key] = [choice |-> choice, version |-> p.version + 1]]
    BY <2>1 DEF SavePolicy
  <2>3. [choice |-> choice, version |-> p.version + 1] \in [choice : PolicyChoices, version : Nat]
    BY <2>1
  <2> QED BY <2>2, <2>3 DEF IInv, Typed
<1>3. Typed'
  BY <1>0, <1>1, <1>2 DEF IInv, Typed
<1>4. ReconAt'
  <2>1. \A o \in Owners : Current(o)' \in {Current(o), None}
    BY <1>1 DEF Current, Owners
  <2> QED BY <1>0, <2>1 DEF IInv, ReconAt
<1>5. run.open => recon'.pc = "idle"
  BY <1>0 DEF IInv, RunInv, Shared
<1> QED BY <1>0, <1>3, <1>4, <1>5, QuietInvariant

\* The check takes the session's choice for the identity that is there, and drops
\* any other (resolveAndApplyPolicy, EffectivePolicy).
LEMMA BeginReconcileInvariant ==
    ASSUME IInv, BeginReconcile
    PROVE  IInv'
<1>0. /\ process = "up" /\ ~run.open /\ owner \in Owners /\ owner.sim \in Sims
      /\ EffectivePolicy(owner) # None
      /\ UNCHANGED <<process, session, policies, active, ops, run, modem, owner, epoch, ready, dirty, lost, faults>>
      /\ overrides \in [Sims -> Overrides \cup {None}]
  BY DEF BeginReconcile, device, IInv, Typed, Owners
<1>1. PICK c : c = Current(owner)
  OBVIOUS
<1>2. c = None \/ (c = overrides[owner.sim] /\ c \in Overrides)
  BY <1>0, <1>1 DEF Current
<1>3. overrides' = [overrides EXCEPT ![owner.sim] = c]
  BY <1>1 DEF BeginReconcile
<1>4. overrides' \in [Sims -> Overrides \cup {None}]
  BY <1>0, <1>2, <1>3
<1>5. PICK p : p = EffectivePolicy(owner)
  OBVIOUS
<1>6. p \in Policies /\ (c # None => p.target = c.target)
  <2>1. CASE c # None
    <3>1. p = [target |-> c.target, import |-> FALSE, version |-> 0]
      BY <1>1, <1>5, <2>1 DEF EffectivePolicy
    <3> QED BY <1>2, <2>1, <3>1 DEF Policies, Overrides
  <2>2. CASE c = None
    <3>1. PICK saved : saved = IF Stored(owner.sim).choice # None THEN Stored(owner.sim) ELSE Stored(None)
      OBVIOUS
    <3>2. saved.choice # None /\ p = [target |-> saved.choice.target, import |-> saved.choice.import,
                                      version |-> saved.version]
      BY <1>0, <1>1, <1>5, <2>2, <3>1 DEF EffectivePolicy
    <3>3. \A k : Stored(k).version \in Nat /\ (Stored(k).choice = None \/ Stored(k).choice \in PolicyChoices)
      BY DEF Stored, IInv, Typed
    <3>4. saved.version \in Nat /\ saved.choice \in PolicyChoices
      BY <3>1, <3>2, <3>3
    <3> QED BY <2>2, <3>2, <3>4, PolicyAssumption DEF Policies
  <2> QED BY <2>1, <2>2
<1>7. PICK q : q = recon'
  OBVIOUS
<1>8. q = [NoRecon EXCEPT !.pc = "inspect", !.owner = owner, !.policy = p]
  BY <1>5, <1>7 DEF BeginReconcile
<1>9. q \in Recons /\ q.pc = "inspect" /\ q.owner = owner /\ q.policy = p
  BY <1>0, <1>6, <1>8, NoReconShape DEF Recons
<1>10. Typed'
  BY <1>0, <1>4, <1>7, <1>9 DEF IInv, Typed
<1>11. ReconAt'
  <2>1. Current(recon.owner)' \in {c, None}
    BY <1>0, <1>2, <1>3, <1>7, <1>9 DEF Current
  <2> QED BY <1>0, <1>6, <1>7, <1>9, <2>1 DEF ReconAt
<1> QED BY <1>0, <1>10, <1>11, QuietInvariant

\* The check asks for what the policy names (Reconcile).
LEMMA ReconcileInspectInvariant ==
    ASSUME IInv, ReconcileInspect
    PROVE  IInv'
<1>0. /\ process = "up" /\ recon.pc = "inspect" /\ recon \in Recons
      /\ UNCHANGED <<process, session, policies, overrides, active, ops, run, modem, owner, epoch, ready,
                     dirty, lost, faults>>
      /\ recon.policy \in Policies /\ recon.owner \in Owners
  BY DEF ReconcileInspect, service, device, IInv, Typed, ReconAt
<1>1. ~run.open
  BY <1>0 DEF IInv, RunInv, Shared
<1>2. CASE recon' = NoRecon
  <2>1. Typed' /\ ReconAt'
    BY <1>0, <1>2, NoReconShape DEF IInv, Typed, ReconAt
  <2> QED BY <1>0, <1>1, <2>1, QuietInvariant
<1>3. CASE recon' = [recon EXCEPT !.pc = "start", !.request = AutoRequest(recon.policy, Snapshot(owner))]
  <2>1. PICK p \in Policies : p = recon.policy
    BY <1>0
  <2>2. PICK q : q = AutoRequest(p, Snapshot(owner))
    OBVIOUS
  <2>3. p.target \in Target
    BY <2>1 DEF Policies
  <2>4. p.target.profile \in Profiles \/ CanApply(p.target, Snapshot(owner))
    BY <2>3 DEF Target, CanApply
  <2>5. PICK adds \in Profiles \cup {None} :
           adds = IF p.import /\ ~CanApply(p.target, Snapshot(owner)) THEN p.target.profile ELSE None
    BY <2>4
  <2>6. q = [kind |-> "apply", target |-> p.target, replacement |-> None, candidates |-> <<>>, restore |-> 0,
             adds |-> adds]
    BY <2>2, <2>5 DEF AutoRequest
  <2>7. q \in AutoRequests /\ q.target = p.target
    BY <2>3, <2>6 DEF AutoRequests
  <2>8. PICK c : c = recon'
    OBVIOUS
  <2>9. c = [recon EXCEPT !.pc = "start", !.request = q]
    BY <1>3, <2>1, <2>2, <2>8
  <2>10. c \in Recons /\ c.pc = "start" /\ c.owner = recon.owner /\ c.policy = recon.policy /\ c.request = q
    BY <1>0, <2>7, <2>9 DEF Recons
  <2>11. Typed'
    BY <1>0, <2>8, <2>10 DEF IInv, Typed
  <2>12. ReconAt'
    BY <1>0, <2>1, <2>7, <2>8, <2>10 DEF IInv, ReconAt, Current
  <2> QED BY <1>0, <1>1, <2>11, <2>12, QuietInvariant
<1> QED BY <1>2, <1>3 DEF ReconcileInspect

\* The check gives up.
LEMMA ReconcileRefusedInvariant ==
    ASSUME IInv, ReconcileRefused
    PROVE  IInv'
<1>0. /\ process = "up" /\ recon' = NoRecon
      /\ UNCHANGED <<process, session, policies, overrides, active, ops, run, modem, owner, epoch, ready,
                     dirty, lost, faults>>
  BY DEF ReconcileRefused, service, device
<1>1. Typed' /\ ReconAt'
  BY <1>0, NoReconShape DEF IInv, Typed, ReconAt
<1> QED BY <1>0, <1>1, NoReconShape, QuietInvariant

\* A worker comes back, the SIM changes, the process is told to stop, or nothing happens.
LEMMA OutsideInvariant ==
    ASSUME IInv, \/ Reenumerate \/ Shutdown \/ UNCHANGED vars
                 \/ \E sim \in Sims, switched \in BOOLEAN : SimChanges(sim, switched)
    PROVE  IInv'
<1>1. /\ UNCHANGED <<session, policies, overrides, active, ops, run, recon, modem, dirty, lost>>
      /\ process' = process \/ (process = "up" /\ process' = "stopping")
  BY DEF Reenumerate, Shutdown, SimChanges, vars, service, device
<1>2. owner' \in Owners /\ epoch' \in Nat /\ ready' \in BOOLEAN /\ faults' \in Nat
  <2>1. CASE Reenumerate
    <3>1. PICK o \in Owners : o = owner
      BY DEF IInv, Typed
    <3>2. owner' = [o EXCEPT !.gen = o.gen + 1]
      BY <2>1, <3>1 DEF Reenumerate
    <3>3. owner' \in Owners
      BY <3>2 DEF Owners
    <3> QED BY <2>1, <3>3 DEF Reenumerate, IInv, Typed
  <2>2. CASE Shutdown
    BY <2>2 DEF Shutdown, device, IInv, Typed
  <2>3. CASE UNCHANGED vars
    BY <2>3 DEF vars, device, IInv, Typed
  <2>4. ASSUME NEW sim \in Sims, NEW switched \in BOOLEAN, SimChanges(sim, switched)
        PROVE  owner' \in Owners /\ epoch' \in Nat /\ ready' \in BOOLEAN /\ faults' \in Nat
    BY <2>4 DEF SimChanges, Owners, IInv, Typed
  <2> QED BY <2>1, <2>2, <2>3, <2>4
<1>3. Typed'
  BY <1>1, <1>2 DEF IInv, Typed
<1>4. ReconAt'
  BY <1>1 DEF IInv, ReconAt, Current
<1>5. run.open \/ process = "down" => recon'.pc = "idle"
  BY <1>1 DEF IInv, RunInv, Shared, Counted
<1> QED BY <1>1, <1>3, <1>4, <1>5, QuietInvariant

\* A crash forgets everything but the table.
LEMMA CrashInvariant ==
    ASSUME IInv, Crash
    PROVE  IInv'
<1>0. /\ process' = "down" /\ process # "down" /\ run' = NoRun /\ recon' = NoRecon /\ active' = 0
      /\ overrides' = [s \in Sims |-> None] /\ faults' \in Nat
      /\ UNCHANGED <<session, policies, ops, modem, owner, epoch, ready, dirty, lost>>
  BY DEF Crash, device, IInv, Typed
<1>1. /\ run' \in Runs /\ run'.op = 0 /\ run'.pc = "idle" /\ recon' \in Recons /\ recon'.pc = "idle"
      /\ run'.phase = "main" /\ run'.stage = "queued" /\ run'.open = FALSE
  BY <1>0, NoRunShape, NoReconShape
<1>2. Typed'
  BY <1>0, <1>1 DEF IInv, Typed
<1>3. Counted'
  BY <1>0, <1>1 DEF IInv, Counted, Busy
<1>4. RunInv'
  BY <1>1, FreshKeeps
<1>5. Backed'
  BY <1>0, <1>1 DEF IInv, Backed, Busy
<1>6. DirtyAt'
  <2>1. Place' \notin Untouched /\ MarkedAt' /\ ~Busy'
    BY <1>1 DEF Place, Untouched, Opening, MarkedAt, Busy
  <2>2. ASSUME NEW s \in Sims, dirty[s] # 0
        PROVE  \/ Running(ops[dirty[s]]) \/ ops[dirty[s]].status = "needs_attention"
               \/ ops[dirty[s]].stage = "candidate_complete"
    <3>1. CASE dirty[s] = run.op /\ run.pc # "leave"
      BY <2>2, <3>1 DEF IInv, Backed, Counted
    <3>2. CASE ~(dirty[s] = run.op /\ run.pc # "leave")
      BY <2>2, <3>2 DEF IInv, DirtyAt
    <3> QED BY <3>1, <3>2
  <2> QED BY <1>0, <2>1, <2>2 DEF IInv, DirtyAt
<1>7. ReconAt'
  BY <1>1 DEF ReconAt
<1> QED BY <1>2, <1>3, <1>4, <1>5, <1>6, <1>7 DEF IInv

\* The next process marks what it finds running (Service.Recover).
LEMMA RecoverTable ==
    ASSUME IInv, Recover
    PROVE  /\ ops' \in Seq(Operations) /\ Len(ops') = Len(ops) /\ DOMAIN ops' = DOMAIN ops
           /\ \A i \in DOMAIN ops :
                 /\ ops'[i] \in Operations /\ ~Running(ops'[i]) /\ ops'[i].owner = ops[i].owner
                 /\ ops'[i].key = ops[i].key /\ ops'[i].request = ops[i].request
                 /\ ops'[i].recoveryOf = ops[i].recoveryOf /\ ops'[i].stage = ops[i].stage
                 /\ \/ Running(ops[i]) /\ ops'[i].status = "needs_attention"
                    \/ ~Running(ops[i]) /\ ops'[i] = ops[i]
<1>0. ops \in Seq(Operations)
  BY DEF IInv, Typed
<1>1. ops' = [i \in DOMAIN ops |->
                 IF Running(ops[i]) THEN [ops[i] EXCEPT !.status = "needs_attention"] ELSE ops[i]]
  BY DEF Recover
<1>2. \A i \in DOMAIN ops :
         /\ ops'[i] \in Operations /\ ~Running(ops'[i]) /\ ops'[i].owner = ops[i].owner
         /\ ops'[i].key = ops[i].key /\ ops'[i].request = ops[i].request
         /\ ops'[i].recoveryOf = ops[i].recoveryOf /\ ops'[i].stage = ops[i].stage
         /\ \/ Running(ops[i]) /\ ops'[i].status = "needs_attention"
            \/ ~Running(ops[i]) /\ ops'[i] = ops[i]
  <2>1. TAKE i \in DOMAIN ops
  <2>2. PICK p \in Operations : p = ops[i]
    BY <1>0
  <2>3. CASE Running(p)
    <3>1. ops'[i] = [p EXCEPT !.status = "needs_attention"]
      BY <1>1, <2>2, <2>3
    <3>2. "needs_attention" \in Statuses
      BY DEF Statuses
    <3> QED BY <2>2, <2>3, <3>1, <3>2 DEF Operations, Running
  <2>4. CASE ~Running(p)
    BY <1>1, <2>2, <2>4
  <2> QED BY <2>3, <2>4
<1>3. DOMAIN ops = 1..Len(ops) /\ Len(ops) \in Nat
  BY <1>0
<1>4. ops' \in [1..Len(ops) -> Operations]
  BY <1>1, <1>2, <1>3
<1> QED BY <1>2, <1>3, <1>4

\* It knows nothing else.
LEMMA RecoverInvariant ==
    ASSUME IInv, Recover
    PROVE  IInv'
<1>0. /\ process' = "up" /\ session' = session + 1 /\ ready' = TRUE /\ ~Busy /\ recon.pc = "idle"
      /\ UNCHANGED <<policies, overrides, active, run, recon, modem, epoch, dirty, lost, faults>>
      /\ run = NoRun /\ ops \in Seq(Operations)
  BY DEF Recover, IInv, Counted, Typed
<1>1. owner' \in Owners
  <2>1. PICK o \in Owners : o = owner
    BY DEF IInv, Typed
  <2>2. owner' = [o EXCEPT !.gen = 1]
    BY <2>1 DEF Recover
  <2> QED BY <2>2 DEF Owners
<1>3. \A i \in DOMAIN ops :
         /\ ~Running(ops'[i]) /\ ops'[i].owner = ops[i].owner
         /\ ops'[i].request = ops[i].request /\ ops'[i].recoveryOf = ops[i].recoveryOf
         /\ ops'[i].stage = ops[i].stage
         /\ ops'[i].status = "needs_attention" \/ ops'[i] = ops[i]
  BY RecoverTable
<1>4. ops' \in Seq(Operations) /\ Len(ops') = Len(ops) /\ DOMAIN ops' = DOMAIN ops
  BY RecoverTable
<1>5. Typed'
  BY <1>0, <1>1, <1>4 DEF IInv, Typed
<1>6. Counted'
  BY <1>0, <1>3, <1>4 DEF IInv, Counted, Busy
<1>7. RunInv'
  BY <1>0, NoRunShape, FreshKeeps
<1>8. Backed'
  BY <1>0, <1>3, <1>4 DEF IInv, Backed, Busy
<1>9. DirtyAt'
  <2>1. Place' \notin Untouched /\ MarkedAt' /\ ~Busy' /\ run.op = 0 /\ dirty' = dirty
    BY <1>0, NoRunShape DEF Place, Untouched, Opening, MarkedAt, Busy
  <2>2. ASSUME NEW s \in Sims, dirty[s] # 0
        PROVE  /\ dirty[s] \in DOMAIN ops' /\ ops'[dirty[s]].owner.sim = s
               /\ ops'[dirty[s]].status = "needs_attention" \/ ops'[dirty[s]].stage = "candidate_complete"
    <3>1. dirty[s] \in DOMAIN ops /\ ops[dirty[s]].owner.sim = s
      BY <2>2 DEF IInv, DirtyAt
    <3>2. \/ Running(ops[dirty[s]]) \/ ops[dirty[s]].status = "needs_attention"
          \/ ops[dirty[s]].stage = "candidate_complete"
      BY <2>1, <2>2 DEF IInv, DirtyAt
    <3> QED BY <1>3, <1>4, <3>1, <3>2
  <2>3. ASSUME NEW j \in DOMAIN ops',
              \/ ops'[j].status = "succeeded"
              \/ ops'[j].status \in {"failed", "cancelled"} /\ ops'[j].stage = "restored"
        PROVE  LET d == dirty'[ops'[j].owner.sim] IN d = 0 \/ d > j
    <3>1. ops'[j] = ops[j] /\ j \in DOMAIN ops
      BY <1>3, <1>4, <2>3
    <3> QED BY <2>1, <2>3, <3>1 DEF IInv, DirtyAt
  <2> QED BY <2>1, <2>2, <2>3 DEF DirtyAt
<1>10. ReconAt'
  BY <1>0 DEF ReconAt
<1> QED BY <1>5, <1>6, <1>7, <1>8, <1>9, <1>10 DEF IInv

\* The user asks the running operation to stop (Cancel).
LEMMA CancelInvariant ==
    ASSUME IInv, NEW k, Cancel(k)
    PROVE  IInv'
<1>0. /\ process = "up" /\ k \in DOMAIN ops /\ Running(ops[k]) /\ ops \in Seq(Operations)
      /\ UNCHANGED <<process, session, policies, overrides, active, run, recon, modem, owner, epoch, ready,
                     dirty, lost, faults>>
  BY DEF Cancel, service, device, IInv, Typed
<1>1. PICK p \in Operations : p = ops[k]
  BY <1>0
<1>2. PICK o : o = [p EXCEPT !.cancel = TRUE, !.status = "cancelling"]
  OBVIOUS
<1>3. ops' = [ops EXCEPT ![k] = o]
  <2>1. ops' = [ops EXCEPT ![k].cancel = TRUE, ![k].status = "cancelling"]
    BY DEF Cancel
  <2> QED BY <1>0, <1>1, <1>2, <2>1
<1>4. /\ o \in Operations /\ Running(o) /\ o.owner = p.owner /\ o.request = p.request
      /\ o.recoveryOf = p.recoveryOf /\ o.original = p.original /\ o.stage = p.stage
  <2>1. "cancelling" \in Statuses
    BY DEF Statuses
  <2> QED BY <1>2, <2>1 DEF Operations, Running
<1>5. ops' \in Seq(Operations) /\ Len(ops') = Len(ops) /\ DOMAIN ops' = DOMAIN ops
  BY <1>0, <1>3, <1>4
<1>6. \A i \in DOMAIN ops :
         /\ ops'[i].owner = ops[i].owner /\ ops'[i].request = ops[i].request
         /\ ops'[i].recoveryOf = ops[i].recoveryOf /\ ops'[i].original = ops[i].original
         /\ ops'[i].stage = ops[i].stage
         /\ (Running(ops[i]) /\ Running(ops'[i])) \/ ops'[i] = ops[i]
  BY <1>0, <1>1, <1>3, <1>4
<1>7. Typed'
  BY <1>0, <1>5 DEF IInv, Typed
<1>8. Counted'
  BY <1>0, <1>5, <1>6 DEF IInv, Counted, Busy
<1>9. RunInv'
  <2>1. ~Busy => run = NoRun
    BY DEF IInv, Counted
  <2>2. run.open => recon'.pc = "idle"
    BY <1>0 DEF IInv, RunInv, Shared
  <2>3. ASSUME Busy
        PROVE  /\ Request' = Request /\ ops'[run.op].owner = ops[run.op].owner
               /\ Request.kind = "restore" =>
                     ops'[Request.restore].original = ops[Request.restore].original
    <3>1. run.op \in DOMAIN ops
      BY <2>3, BusyEngaged DEF IInv, Engaged
    <3>2. Request.kind = "restore" => Request.restore \in DOMAIN ops
      BY <1>0, <3>1 DEF IInv, Counted, Request
    <3> QED BY <1>0, <1>6, <3>1, <3>2 DEF Request
  <2> QED BY <1>0, <2>1, <2>2, <2>3, SameKeeps DEF IInv
<1>10. Backed'
  <2>1. Busy => run.op \in DOMAIN ops
    BY BusyEngaged DEF IInv, Engaged
  <2> QED BY <1>0, <1>5, <1>6, <2>1 DEF IInv, Backed, Busy
<1>11. DirtyAt'
  <2>1. /\ (Place' \in Untouched <=> Place \in Untouched) /\ (MarkedAt' <=> MarkedAt) /\ (Busy' <=> Busy)
        /\ run' = run /\ dirty' = dirty
    BY <1>0 DEF Place, MarkedAt, Busy
  <2>2. ASSUME NEW s \in Sims, dirty[s] # 0
        PROVE  /\ dirty[s] \in DOMAIN ops' /\ ops'[dirty[s]].owner.sim = s
               /\ (dirty[s] = run.op => run.pc = "leave") =>
                     \/ Running(ops'[dirty[s]]) \/ ops'[dirty[s]].status = "needs_attention"
                     \/ ops'[dirty[s]].stage = "candidate_complete"
    <3>1. dirty[s] \in DOMAIN ops /\ ops[dirty[s]].owner.sim = s
      BY <2>2 DEF IInv, DirtyAt
    <3>2. (dirty[s] = run.op => run.pc = "leave") =>
             \/ Running(ops[dirty[s]]) \/ ops[dirty[s]].status = "needs_attention"
             \/ ops[dirty[s]].stage = "candidate_complete"
      BY <2>2 DEF IInv, DirtyAt
    <3> QED BY <1>5, <1>6, <3>1, <3>2
  <2>3. ASSUME NEW j \in DOMAIN ops',
              \/ ops'[j].status = "succeeded"
              \/ ops'[j].status \in {"failed", "cancelled"} /\ ops'[j].stage = "restored"
        PROVE  LET d == dirty'[ops'[j].owner.sim] IN d = 0 \/ d > j
    <3>1. ops'[j] = ops[j] /\ j \in DOMAIN ops
      BY <1>5, <1>6, <2>3 DEF Running
    <3> QED BY <2>1, <2>3, <3>1 DEF IInv, DirtyAt
  <2>4. Place \in Untouched => \A s \in Sims : dirty[s] # run.op
    BY DEF IInv, DirtyAt
  <2>5. MarkedAt /\ \A s \in Sims : dirty[s] = run.op /\ Busy /\ run.pc # "leave" =>
           run.stage \in Unconfirmed \cup {"candidate_complete"}
    BY DEF IInv, DirtyAt
  <2> QED BY <2>1, <2>2, <2>3, <2>4, <2>5 DEF DirtyAt
<1>12. ReconAt'
  BY <1>0 DEF IInv, ReconAt, Current
<1> QED BY <1>7, <1>8, <1>9, <1>10, <1>11, <1>12 DEF IInv

\* What is pending are operations of the table.
LEMMA PendingShape == PendingRecovery \subseteq DOMAIN ops
BY DEF PendingRecovery

\* A request that is accepted becomes the newest operation and has touched nothing.
LEMMA EnqueueInvariant ==
    ASSUME IInv, NEW key \in Keys, NEW request \in Wanted, NEW auto \in BOOLEAN, NEW expected,
           request.kind = "restore" => request.restore \in DOMAIN ops,
           Enqueue(key, request, auto, expected),
           UNCHANGED <<process, session, policies, overrides, modem, owner, epoch, ready, dirty, lost, faults>>,
           recon' \in Recons, ReconAt'
    PROVE  IInv'
<1> DEFINE n == Len(ops) + 1
<1>0. /\ process = "up" /\ active' = n /\ run.op = 0 /\ ~Busy /\ n \in Nat /\ n # 0 /\ n \notin DOMAIN ops
      /\ ops \in Seq(Operations) /\ DOMAIN ops = 1..Len(ops) /\ Len(ops) \in Nat /\ lost \subseteq DOMAIN ops
      /\ dirty \in [Sims -> Nat]
  <2>1. ops \in Seq(Operations)
    BY DEF IInv, Typed
  <2>2. DOMAIN ops = 1..Len(ops) /\ Len(ops) \in Nat
    BY <2>1
  <2> QED BY <2>1, <2>2 DEF Enqueue, IInv, Counted, Typed
<1>1. PICK o : o = NewOperation(key, request, auto)
  OBVIOUS
<1>2. /\ o \in Operations /\ Running(o) /\ o.request = request /\ o.recoveryOf \subseteq DOMAIN ops
      /\ o.status = "queued"
  <2>1. PICK rec \in SUBSET (DOMAIN ops) : rec = IF RecoveryKind(request.kind) THEN PendingRecovery ELSE {}
    BY PendingShape
  <2>2. o = [key |-> key, request |-> request, policy |-> auto, owner |-> owner, recoveryOf |-> rec,
             original |-> None, current |-> None, status |-> "queued", stage |-> "queued", cancel |-> FALSE]
    BY <1>1, <2>1 DEF NewOperation
  <2>3. "queued" \in Statuses /\ "queued" \in Stages /\ rec \in SUBSET Nat /\ owner \in Owners
    BY <1>0 DEF Statuses, Stages, IInv, Typed
  <2> QED BY <2>1, <2>2, <2>3 DEF Operations, Running
<1>3. ops' = Append(ops, o)
  BY <1>1 DEF Enqueue
<1>4. /\ ops' \in Seq(Operations) /\ Len(ops') = n /\ DOMAIN ops' = 1..n /\ ops'[n] = o
      /\ \A i \in DOMAIN ops : i \in DOMAIN ops' /\ ops'[i] = ops[i]
  BY <1>0, <1>2, <1>3
<1>5. PICK q : q = run'
  OBVIOUS
<1>6. q = [NoRun EXCEPT !.op = n, !.pc = "begin"]
  BY <1>5 DEF Enqueue
<1>7. q \in Runs /\ q.op = n /\ q.pc = "begin" /\ q.phase = "main" /\ q.stage = "queued" /\ q.open = FALSE
  <2>1. "begin" \in Labels
    BY DEF Labels
  <2> QED BY <1>0, <1>6, <2>1, NoRunShape DEF Runs
<1>8. Busy' /\ Place' \in Untouched /\ MarkedAt'
  BY <1>5, <1>7 DEF Busy, Place, Untouched, Opening, MarkedAt
<1>9. Typed'
  BY <1>0, <1>4, <1>5, <1>7 DEF IInv, Typed
<1>10. Counted'
  <2>1. \A i \in DOMAIN ops' : ops'[i].recoveryOf \subseteq 1..(i-1)
    <3>1. TAKE i \in DOMAIN ops'
    <3>2. CASE i = n
      BY <1>0, <1>2, <1>4, <3>2
    <3>3. CASE i # n
      <4>1. i \in DOMAIN ops /\ ops'[i] = ops[i]
        BY <1>0, <1>4, <3>3
      <4> QED BY <4>1 DEF IInv, Counted
    <3> QED BY <3>2, <3>3
  <2>2. \A i \in DOMAIN ops' : ops'[i].request.kind = "restore" => ops'[i].request.restore \in 1..(i-1)
    <3>1. TAKE i \in DOMAIN ops'
    <3>2. CASE i = n
      BY <1>0, <1>2, <1>4, <3>2
    <3>3. CASE i # n
      <4>1. i \in DOMAIN ops /\ ops'[i] = ops[i]
        BY <1>0, <1>4, <3>3
      <4> QED BY <4>1 DEF IInv, Counted
    <3> QED BY <3>2, <3>3
  <2> QED BY <1>0, <1>4, <1>5, <1>7, <1>8, <2>1, <2>2 DEF Counted
<1>11. RunInv'
  BY <1>5, <1>7, FreshKeeps
<1>12. Backed'
  <2>1. \A i \in DOMAIN ops : Running(ops[i]) => i \in lost
    BY <1>0 DEF IInv, Backed
  <2> QED BY <1>0, <1>2, <1>4, <1>5, <1>7, <2>1 DEF Backed
<1>13. DirtyAt'
  <2>1. \A s \in Sims : dirty[s] # 0 => /\ dirty[s] \in DOMAIN ops /\ ops[dirty[s]].owner.sim = s
                                        /\ \/ Running(ops[dirty[s]]) \/ ops[dirty[s]].status = "needs_attention"
                                           \/ ops[dirty[s]].stage = "candidate_complete"
    BY <1>0 DEF IInv, DirtyAt
  <2>2. \A s \in Sims : dirty'[s] # run'.op
    BY <1>0, <1>5, <1>7, <2>1
  <2>3. ASSUME NEW s \in Sims, dirty'[s] # 0
        PROVE  /\ dirty'[s] \in DOMAIN ops' /\ ops'[dirty'[s]].owner.sim = s
               /\ \/ Running(ops'[dirty'[s]]) \/ ops'[dirty'[s]].status = "needs_attention"
                  \/ ops'[dirty'[s]].stage = "candidate_complete"
    <3>1. ops'[dirty'[s]] = ops[dirty[s]] /\ dirty'[s] \in DOMAIN ops'
      BY <1>4, <2>1, <2>3
    <3> QED BY <2>1, <2>3, <3>1
  <2>4. ASSUME NEW j \in DOMAIN ops',
              \/ ops'[j].status = "succeeded"
              \/ ops'[j].status \in {"failed", "cancelled"} /\ ops'[j].stage = "restored"
        PROVE  LET d == dirty'[ops'[j].owner.sim] IN d = 0 \/ d > j
    <3>1. j # n
      BY <1>2, <1>4, <2>4
    <3>2. ops'[j] = ops[j] /\ j \in DOMAIN ops
      BY <1>0, <1>4, <3>1
    <3> QED BY <2>4, <3>2 DEF IInv, DirtyAt
  <2> QED BY <1>8, <2>2, <2>3, <2>4 DEF DirtyAt
<1> QED BY <1>9, <1>10, <1>11, <1>12, <1>13 DEF IInv

\* The user asks.
LEMMA StartInvariant ==
    ASSUME IInv, NEW name \in DOMAIN Requests, Start(name)
    PROVE  IInv'
<1>1. UserKey(name) \in Keys /\ Requests[name] \in Wanted
  BY DEF UserKey, Keys, Wanted
<1>2. ReconAt' /\ recon' \in Recons
  BY DEF Start, IInv, ReconAt, Current, Typed, device
<1> QED BY <1>1, <1>2, EnqueueInvariant DEF Start, device

\* The automatic policy asks.
LEMMA ReconcileStartInvariant ==
    ASSUME IInv, ReconcileStart
    PROVE  IInv'
<1>1. recon.owner \in Owners /\ recon.policy \in Policies /\ recon.request \in AutoRequests
  BY DEF IInv, ReconAt, ReconcileStart
<1>2. PolicyKey \in Keys
  BY <1>1 DEF PolicyKey, Keys, Owners, Policies, IInv, Typed
<1>3. recon.request \in Wanted /\ recon.request.kind = "apply"
  BY <1>1 DEF Wanted, AutoRequests
<1>4. ReconAt' /\ recon' \in Recons
  BY NoReconShape DEF ReconcileStart, ReconAt
<1> QED BY <1>2, <1>3, <1>4, EnqueueInvariant DEF ReconcileStart, device

\* The invariant holds before anything has been asked.
LEMMA InitInvariant ==
    ASSUME Init
    PROVE  IInv
<1>1. run \in Runs /\ run.pc = "idle" /\ run.op = 0 /\ run.phase = "main" /\ run.stage = "queued" /\ run.open = FALSE
  BY NoRunShape DEF Init
<1>2. recon \in Recons /\ recon.pc = "idle" /\ ops = <<>> /\ ops \in Seq(Operations)
  BY NoReconShape DEF Init
<1>3. Typed
  BY <1>1, <1>2, ModemAssumption DEF Init, Typed, Owners, Modems
<1>4. Counted
  BY <1>1, <1>2, NoRunShape DEF Init, Counted, Busy
<1>5. RunInv
  <2>1. Place = "idle" /\ Place \notin Inside /\ Place \notin Matched /\ Place \notin Working
        /\ Place \notin Observes /\ Place \notin Opening /\ Place \notin Imports /\ ~InApply /\ ~InDelete
    BY <1>1 DEF Place, InApply, InDelete, Inside, Matched, Working, Observes, Opening, Imports, Applies, Reboots
  <2>2. ThenAt /\ PhaseAt /\ KindAt
    BY <1>1, <2>1 DEF ThenAt, PhaseAt, KindAt, Reboots
  <2>3. Shared /\ AimAt /\ ProvenAt
    BY <1>1, <2>1 DEF Shared, AimAt, ProvenAt
  <2> QED BY <2>2, <2>3 DEF RunInv
<1>6. Backed
  BY <1>1, <1>2 DEF Backed, Busy
<1>7. DirtyAt
  BY <1>1, <1>2 DEF Init, DirtyAt, MarkedAt, Place, Untouched, Opening, Busy
<1>8. ReconAt
  BY <1>2 DEF ReconAt
<1> QED BY <1>3, <1>4, <1>5, <1>6, <1>7, <1>8 DEF IInv

\* Every step keeps the invariant.
LEMMA NextInvariant ==
    ASSUME IInv, [Next]_vars
    PROVE  IInv'
<1>1. CASE RunStep
  BY <1>1, RunStepInvariant
<1>2. CASE BeginReconcile \/ ReconcileStep
  BY <1>2, BeginReconcileInvariant, ReconcileInspectInvariant, ReconcileStartInvariant,
     ReconcileRefusedInvariant DEF ReconcileStep
<1>3. CASE \E name \in DOMAIN Requests : Start(name)
  BY <1>3, StartInvariant
<1>4. CASE \E i \in 1..MaxOps : Cancel(i)
  BY <1>4, CancelInvariant
<1>5. CASE \E key \in PolicyKeys, choice \in PolicyChoices : SavePolicy(key, choice)
  BY <1>5, SavePolicyInvariant
<1>6. CASE \/ Reenumerate \/ Shutdown \/ UNCHANGED vars
           \/ \E sim \in Sims, switched \in BOOLEAN : SimChanges(sim, switched)
  BY <1>6, OutsideInvariant
<1>7. CASE Crash \/ Recover
  BY <1>7, CrashInvariant, RecoverInvariant
<1> QED BY <1>1, <1>2, <1>3, <1>4, <1>5, <1>6, <1>7 DEF Next

\* The invariant holds in every state, whatever fails and however often.
THEOREM MbnInvariant == Spec => []IInv
<1>1. Init => IInv
  BY InitInvariant
<1>2. IInv /\ [Next]_vars => IInv'
  BY NextInvariant
<1> QED BY <1>1, <1>2, PTL DEF Spec

(* ---------------------------------------------------------------------- *)
(* What the runs check                                                     *)
(* ---------------------------------------------------------------------- *)

\* Every variable keeps its type, and what names an operation names one of the table.
THEOREM MbnTypeOK == Spec => []TypeOK
<1>1. ASSUME IInv PROVE TypeOK
  <2>0. Typed /\ Counted
    BY <1>1 DEF IInv
  <2>1. DOMAIN ops = 1..Len(ops) /\ Len(ops) \in Nat
    BY <2>0 DEF Typed
  <2>2. run.op \in {0, Len(ops)} /\ run.errs \subseteq Errors /\ active = run.op
    BY <2>0, RunFields DEF Typed, Counted
  <2>3. \A op \in ToSet(ops) :
           /\ op.status \in Statuses /\ op.owner \in Owners
           /\ op.original \in Snapshots \cup {None} /\ op.current \in Snapshots \cup {None}
           /\ op.recoveryOf \subseteq DOMAIN ops /\ op.policy \in BOOLEAN /\ op.cancel \in BOOLEAN
    <3>1. ASSUME NEW i \in DOMAIN ops
          PROVE  /\ ops[i].status \in Statuses /\ ops[i].owner \in Owners
                 /\ ops[i].original \in Snapshots \cup {None} /\ ops[i].current \in Snapshots \cup {None}
                 /\ ops[i].recoveryOf \subseteq DOMAIN ops /\ ops[i].policy \in BOOLEAN /\ ops[i].cancel \in BOOLEAN
      <4>1. ops[i] \in Operations
        BY <2>0 DEF Typed
      <4>2. ops[i].recoveryOf \subseteq 1..(i-1)
        BY <2>0 DEF Counted
      <4> QED BY <2>1, <4>1, <4>2 DEF Operations
    <3> QED BY <3>1 DEF ToSet
  <2>4. \A s \in Sims : overrides[s] = None \/ (overrides[s].target \in Target /\ overrides[s].gen \in Nat)
    BY <2>0 DEF Typed, Overrides
  <2>5. dirty \in [Sims -> 0..Len(ops)]
    BY <1>1, <2>0, <2>1 DEF IInv, DirtyAt, Typed
  <2> QED BY <2>0, <2>1, <2>2, <2>3, <2>4, <2>5 DEF TypeOK, Typed, Counted, Modems, Errors
<1> QED BY <1>1, MbnInvariant, PTL

\* An operation the table shows as running has its goroutine, is lost, or waits for
\* the next start of the program.
THEOREM MbnRunningIsBacked == Spec => []RunningIsBacked
<1>1. ASSUME IInv PROVE RunningIsBacked
  BY <1>1 DEF IInv, Backed, Counted, RunningIsBacked
<1> QED BY <1>1, MbnInvariant, PTL

\* The steps, told apart by what they do to the table of operations.
Idles ==
    /\ ops' \in Seq(Operations) /\ Len(ops') = Len(ops) /\ UNCHANGED lost
    /\ \A i \in DOMAIN ops : /\ ops'[i].key = ops[i].key
                             /\ (Running(ops[i]) /\ Running(ops'[i])) \/ ops'[i] = ops[i]

\* Most leave every result as it is.
LEMMA StepKinds ==
    ASSUME IInv, [Next]_vars
    PROVE  \/ Idles \/ SaveResult \/ Recover \/ ReconcileStart
           \/ \E name \in DOMAIN Requests : Start(name)
<1>0. ops \in Seq(Operations)
  BY DEF IInv, Typed
<1>1. ASSUME UNCHANGED <<ops, lost>> PROVE Idles
  BY <1>0, <1>1 DEF Idles
<1>2. ASSUME Toils PROVE Idles
  <2>1. Busy /\ Works
    BY <1>2, ToilsInvariant
  <2>2. Running(ops[run.op])
    BY <2>1 DEF IInv, Backed, Works
  <2> QED BY <2>1, <2>2 DEF Works, Frame, Books, Idles
<1>3. ASSUME NEW k, Cancel(k) PROVE Idles
  <2>0. k \in DOMAIN ops /\ Running(ops[k]) /\ UNCHANGED lost
    BY <1>3 DEF Cancel
  <2>1. PICK p \in Operations : p = ops[k]
    BY <1>0, <2>0
  <2>2. PICK o : o = [p EXCEPT !.cancel = TRUE, !.status = "cancelling"]
    OBVIOUS
  <2>3. ops' = [ops EXCEPT ![k] = o]
    <3>1. ops' = [ops EXCEPT ![k].cancel = TRUE, ![k].status = "cancelling"]
      BY <1>3 DEF Cancel
    <3> QED BY <1>0, <2>0, <2>1, <2>2, <3>1
  <2>4. o \in Operations /\ Running(o) /\ o.key = p.key
    <3>1. "cancelling" \in Statuses
      BY DEF Statuses
    <3> QED BY <2>2, <3>1 DEF Operations, Running
  <2>5. ops' \in Seq(Operations) /\ Len(ops') = Len(ops)
    BY <1>0, <2>0, <2>3, <2>4
  <2> QED BY <1>0, <2>0, <2>1, <2>3, <2>4, <2>5 DEF Idles
<1>4. ASSUME Leave \/ BeginReconcile \/ ReconcileInspect \/ ReconcileRefused \/ Reenumerate \/ Shutdown \/ Crash
             \/ UNCHANGED vars
      PROVE  Idles
  BY <1>1, <1>4 DEF Leave, BeginReconcile, ReconcileInspect, ReconcileRefused, Reenumerate, Shutdown, Crash, vars
<1>5. ASSUME NEW key \in PolicyKeys, NEW choice \in PolicyChoices, SavePolicy(key, choice) PROVE Idles
  BY <1>1, <1>5 DEF SavePolicy
<1>6. ASSUME NEW sim \in Sims, NEW switched \in BOOLEAN, SimChanges(sim, switched) PROVE Idles
  BY <1>1, <1>6 DEF SimChanges
<1> QED BY <1>2, <1>3, <1>4, <1>5, <1>6 DEF Next, RunStep, Toils, ReconcileStep

\* The modem is written to, and rebooted, only for the SIM the operation was accepted for.
THEOREM MbnRightCard == Spec => RightCard
<1>1. ASSUME IInv, [Next]_vars, modem' # modem
      PROVE  owner.sim = ops[run.op].owner.sim
  <2>1. Toils
    <3>1. UNCHANGED vars => FALSE
      BY <1>1 DEF vars, device
    <3> QED BY <1>1, <3>1 DEF Next, RunStep, Toils, SaveResult, Leave, BeginReconcile, ReconcileStep,
         ReconcileInspect, ReconcileStart, ReconcileRefused, Reenumerate, Start, Cancel, SavePolicy, SimChanges,
         Shutdown, Crash, Recover, device
  <2>2. owner = run.owner /\ Place \in Matched
    BY <1>1, <2>1, ToilsInvariant DEF Works, Valid
  <2> QED BY <1>1, <2>2 DEF IInv, RunInv, Shared
<1>2. IInv /\ [Next]_vars => [modem' # modem => owner.sim = ops[run.op].owner.sim]_vars
  BY <1>1
<1> QED BY <1>2, MbnInvariant, PTL DEF Spec, RightCard

\* An operation is accepted by the user's request or by the automatic check.
LEMMA AcceptingSteps ==
    ASSUME IInv, [Next]_vars, Accepting
    PROVE  \/ ReconcileStart /\ Enqueue(PolicyKey, recon.request, TRUE, recon.owner)
           \/ ~Newest.policy
<1>0. ops \in Seq(Operations)
  BY DEF IInv, Typed
<1>1. ~Idles /\ Len(ops) \in Nat
  BY <1>0 DEF Idles, Accepting
<1>2. ASSUME SaveResult PROVE FALSE
  <2>1. ops' = ops \/ \E o : ops' = [ops EXCEPT ![run.op] = o]
    BY <1>2 DEF SaveResult
  <2>2. Len(ops') = Len(ops)
    BY <1>0, <2>1
  <2> QED BY <1>1, <2>2 DEF Accepting
<1>3. ASSUME Recover PROVE FALSE
  <2>1. Len(ops') = Len(ops)
    BY <1>3, RecoverTable
  <2> QED BY <1>1, <2>1 DEF Accepting
<1>4. ASSUME NEW name \in DOMAIN Requests, Start(name) PROVE ~Newest.policy
  <2>1. PICK o : o = NewOperation(UserKey(name), Requests[name], FALSE)
    OBVIOUS
  <2>2. ops' = Append(ops, o) /\ o.policy = FALSE
    BY <1>4, <2>1 DEF Start, Enqueue, NewOperation
  <2>3. ops'[Len(ops')] = o
    BY <1>0, <2>2
  <2> QED BY <2>2, <2>3 DEF Newest
<1> QED BY <1>1, <1>2, <1>3, <1>4, StepKinds DEF ReconcileStart

\* The automatic policy asks for what the user chose in this session, when the user did.
THEOREM MbnChoiceKept == Spec => ChoiceKept
<1>1. ASSUME IInv, [Next]_vars, Accepting, Newest.policy, Current(owner) # None
      PROVE  Newest.request.target = Current(owner).target
  <2>1. ReconcileStart /\ Enqueue(PolicyKey, recon.request, TRUE, recon.owner)
    BY <1>1, AcceptingSteps
  <2>2. recon.owner \in Owners /\ recon.request.target = recon.policy.target
        /\ (Current(recon.owner) # None => recon.policy.target = Current(recon.owner).target)
    BY <1>1, <2>1 DEF IInv, ReconAt, ReconcileStart
  <2>3. recon.owner = owner
    BY <2>1, <2>2, NoneAssumption DEF Enqueue
  <2>4. PICK o : o = NewOperation(PolicyKey, recon.request, TRUE)
    OBVIOUS
  <2>5. ops' = Append(ops, o) /\ o.request = recon.request
    BY <2>1, <2>4 DEF Enqueue, NewOperation
  <2>6. ops'[Len(ops')] = o
    <3>1. ops \in Seq(Operations)
      BY <1>1 DEF IInv, Typed
    <3> QED BY <2>5, <3>1
  <2> QED BY <1>1, <2>2, <2>3, <2>5, <2>6 DEF Newest
<1>2. IInv /\ [Next]_vars =>
         [Accepting /\ Newest.policy /\ Current(owner) # None =>
            Newest.request.target = Current(owner).target]_vars
  BY <1>1
<1> QED BY <1>2, MbnInvariant, PTL DEF Spec, ChoiceKept

\* No automatic write is accepted for a card whose last write nothing has confirmed.
THEOREM MbnNoBlindRewrite == Spec => NoBlindRewrite
<1>1. ASSUME IInv, [Next]_vars, Accepting, Newest.policy, dirty[owner.sim] # 0
      PROVE  ops[dirty[owner.sim]].stage = "candidate_complete"
  <2>1. ReconcileStart /\ Enqueue(PolicyKey, recon.request, TRUE, recon.owner)
    BY <1>1, AcceptingSteps
  <2>2. active = 0 /\ ~CardBusy /\ PendingRecovery = {}
    BY <2>1 DEF Enqueue, MayStart
  <2>3. run.op = 0 /\ owner.sim \in Sims /\ ops \in Seq(Operations)
    BY <1>1, <2>2 DEF IInv, Counted, Typed, Owners
  <2>4. PICK i \in DOMAIN ops : i = dirty[owner.sim] /\ ops[i].owner.sim = owner.sim
    BY <1>1, <2>3 DEF IInv, DirtyAt
  <2>5. Running(ops[i]) \/ ops[i].status = "needs_attention" \/ ops[i].stage = "candidate_complete"
    BY <1>1, <2>3, <2>4 DEF IInv, DirtyAt
  <2>6. SameCard(ops[i]) /\ ops[i] \in ToSet(ops)
    BY <2>4 DEF SameCard, ToSet
  <2>7. ~Running(ops[i])
    BY <2>2, <2>6 DEF CardBusy
  <2>8. ASSUME ops[i].status = "needs_attention" PROVE FALSE
    <3>1. i \in Resolved
      BY <2>2, <2>4, <2>6, <2>8 DEF PendingRecovery
    <3>2. PICK o \in ToSet(ops) : SameCard(o) /\ Verified(o) /\ i \in o.recoveryOf
      BY <3>1 DEF Resolved
    <3>3. PICK j \in DOMAIN ops : ops[j] = o
      BY <3>2 DEF ToSet
    <3>4. i < j
      BY <1>1, <2>3, <3>2, <3>3 DEF IInv, Counted
    <3>5. ops[j].owner.sim = owner.sim
      BY <3>2, <3>3 DEF SameCard
    <3>6. dirty[owner.sim] = 0 \/ dirty[owner.sim] > j
      BY <1>1, <3>2, <3>3, <3>5 DEF IInv, DirtyAt, Verified
    <3> QED BY <1>1, <2>3, <2>4, <3>4, <3>6
  <2> QED BY <2>4, <2>5, <2>7, <2>8
<1>2. IInv /\ [Next]_vars =>
         [Accepting /\ Newest.policy =>
            LET i == dirty[owner.sim] IN i = 0 \/ ops[i].stage = "candidate_complete"]_vars
  BY <1>1
<1> QED BY <1>2, MbnInvariant, PTL DEF Spec, NoBlindRewrite

\* Only the goroutine gives an operation its result while the program runs.
LEMMA EndingSteps ==
    ASSUME IInv, [Next]_vars, NEW i \in DOMAIN ops, Ends(i)
    PROVE  SaveResult /\ i = run.op
<1>0. ops \in Seq(Operations) /\ Running(ops[i]) /\ ~Running(ops'[i]) /\ process # "down" /\ ops'[i] # ops[i]
  BY DEF IInv, Typed, Ends
<1>1. ~Idles /\ ~Recover
  BY <1>0 DEF Idles, Recover
<1>2. ASSUME NEW key, NEW request, NEW auto, NEW expected, Enqueue(key, request, auto, expected) PROVE FALSE
  <2>1. PICK o : o = NewOperation(key, request, auto)
    OBVIOUS
  <2>2. ops' = Append(ops, o)
    BY <1>2, <2>1 DEF Enqueue
  <2> QED BY <1>0, <2>2
<1>3. ~ReconcileStart /\ ~ \E name \in DOMAIN Requests : Start(name)
  BY <1>2 DEF ReconcileStart, Start
<1>4. SaveResult
  BY <1>1, <1>3, StepKinds
<1>5. i = run.op
  <2>1. ops' = ops \/ \E o : ops' = [ops EXCEPT ![run.op] = o]
    BY <1>4 DEF SaveResult
  <2> QED BY <1>0, <2>1
<1> QED BY <1>4, <1>5

\* What is reported as done, or as put back, is what the modem shows at that moment.
THEOREM MbnVerifiedEnding == Spec => VerifiedEnding
<1>1. ASSUME IInv, [Next]_vars, NEW i \in DOMAIN ops, Ends(i),
             ops'[i].status = "succeeded" \/ ops'[i].stage = "restored"
      PROVE  Achieved(ops'[i])
  <2>1. SaveResult /\ i = run.op /\ Running(ops[i]) /\ ~Running(ops'[i])
    BY <1>1, EndingSteps DEF Ends
  <2>2. Engaged /\ run.pc = "end"
    BY <1>1, <2>1, BusyEngaged DEF IInv, Busy, SaveResult, At
  <2>3. PICK o : o = [Saved(run, run.stage) EXCEPT !.status = Outcome(run)]
    OBVIOUS
  <2>4. /\ o.request = Request /\ o.stage = run.stage /\ o.original = run.original /\ o.status = Outcome(run)
    BY <2>2, <2>3, OutcomeShape DEF Request
  <2>5. ops'[i] = o
    <3>1. ops' = [ops EXCEPT ![run.op] = o]
      BY <2>1, <2>2, <2>3, SaveResultDoes
    <3> QED BY <2>1, <3>1
  <2>6. GoalMet
    <3>1. run.errs = {} \/ run.stage = "restored"
      BY <1>1, <2>4, <2>5 DEF Outcome
    <3> QED BY <1>1, <2>2, <3>1 DEF IInv, RunInv, ProvenAt
  <2>7. PICK now \in Snapshots : /\ now = Snapshot(owner) /\ now.installed = modem.installed
                                 /\ \A t : InForce(t, now) <=> Shown(t)
    BY <2>2, SnapshotShape DEF Engaged
  <2>8. Request.kind \in RequestKinds
    <3>1. Request \in Wanted
      BY <2>2, RequestWanted DEF Request
    <3> QED BY <3>1, WantedFacts
  <2>9. Achieved(o)
    <3>1. CASE Request.kind = "trial"
      BY <2>4, <2>6, <2>7, <3>1 DEF Achieved, GoalMet
    <3>2. CASE Request.kind = "restore"
      BY <2>4, <2>6, <2>7, <3>2 DEF Achieved, GoalMet
    <3>3. CASE Request.kind \in {"apply", "delete", "import"}
      BY <2>4, <2>6, <2>7, <3>3 DEF Achieved, GoalMet
    <3> QED BY <2>8, <3>1, <3>2, <3>3 DEF RequestKinds
  <2> QED BY <2>5, <2>9
<1>2. IInv /\ [Next]_vars =>
         [\A i \in DOMAIN ops :
            Ends(i) /\ (ops'[i].status = "succeeded" \/ ops'[i].stage = "restored") => Achieved(ops'[i])]_vars
  BY <1>1
<1> QED BY <1>2, MbnInvariant, PTL DEF Spec, VerifiedEnding

(* ---------------------------------------------------------------------- *)
(* The service implements MbnJobs                                          *)
(* ---------------------------------------------------------------------- *)

\* What the table says of each operation.
JobTable == [i \in DOMAIN ops |-> [key |-> ops[i].key, state |-> JobState(i)]]
States == Jobs!Results \cup {"running", "lost"}

\* The three things that may be said of an operation.
LEMMA JobStates ==
    ASSUME IInv, NEW i \in DOMAIN ops
    PROVE  /\ ~Running(ops[i]) => JobState(i) = ops[i].status /\ JobState(i) \in Jobs!Results
           /\ Running(ops[i]) /\ i \in lost => JobState(i) = "lost"
           /\ Running(ops[i]) /\ i \notin lost => JobState(i) = "running"
           /\ JobState(i) \in States
<1>1. ops[i] \in Operations
  BY DEF IInv, Typed
<1>2. ops[i].status \in Statuses
  BY <1>1 DEF Operations
<1>3. ~Running(ops[i]) => JobState(i) = ops[i].status /\ JobState(i) \in Jobs!Results
  BY <1>2 DEF JobState, Running, Statuses, Jobs!Results
<1>4. /\ Running(ops[i]) /\ i \in lost => JobState(i) = "lost"
      /\ Running(ops[i]) /\ i \notin lost => JobState(i) = "running"
  BY DEF JobState
<1> QED BY <1>3, <1>4 DEF States

\* The table as a sequence of jobs.
Tabled ==
    /\ JobTable \in Seq([key : Keys, state : States]) /\ Len(JobTable) = Len(ops)
    /\ DOMAIN JobTable = DOMAIN ops
    /\ \A i \in DOMAIN ops : JobTable[i] = [key |-> ops[i].key, state |-> JobState(i)]

\* It has a job for each operation.
LEMMA JobTableShape == IInv => Tabled
<1> SUFFICES ASSUME IInv PROVE Tabled
  OBVIOUS
<1>1. ops \in Seq(Operations) /\ DOMAIN ops = 1..Len(ops) /\ Len(ops) \in Nat
  BY DEF IInv, Typed
<1>2. \A i \in DOMAIN ops : [key |-> ops[i].key, state |-> JobState(i)] \in [key : Keys, state : States]
  <2>1. TAKE i \in DOMAIN ops
  <2>2. PICK p \in Operations : p = ops[i]
    BY <1>1
  <2>3. p.key \in Keys
    BY DEF Operations
  <2> QED BY <2>2, <2>3, JobStates
<1>3. JobTable \in [1..Len(ops) -> [key : Keys, state : States]]
  BY <1>1, <1>2 DEF JobTable
<1> QED BY <1>1, <1>3 DEF JobTable, Tabled

\* A step that leaves every result as it is, is none of the abstract service.
LEMMA IdlesStutter ==
    ASSUME IInv, IInv', Idles
    PROVE  JobTable' = JobTable
<1>1. DOMAIN ops' = DOMAIN ops
  BY DEF IInv, Typed, Idles
<1>2. ASSUME NEW i \in DOMAIN ops
      PROVE  ops'[i].key = ops[i].key /\ JobState(i)' = JobState(i)
  <2>1. CASE ops'[i] = ops[i]
    BY <2>1 DEF Idles, JobState
  <2>2. CASE Running(ops[i]) /\ Running(ops'[i])
    BY <2>2 DEF Idles, JobState
  <2> QED BY <2>1, <2>2 DEF Idles
<1> QED BY <1>1, <1>2 DEF JobTable

\* A request that is accepted: its key is new and nothing is running.
LEMMA EnqueueAccepts ==
    ASSUME IInv, IInv', NEW key, NEW request, NEW auto, NEW expected,
           Enqueue(key, request, auto, expected), UNCHANGED lost
    PROVE  Jobs!Accept
<1>a. PICK n : n = Len(ops) + 1
  OBVIOUS
<1>b. Tabled /\ Tabled'
  BY JobTableShape, PTL
<1>1. /\ ops \in Seq(Operations) /\ DOMAIN ops = 1..Len(ops) /\ Len(ops) \in Nat
      /\ n \notin lost /\ run.op = 0 /\ process # "down"
  <2>1. ops \in Seq(Operations)
    BY DEF IInv, Typed
  <2>2. DOMAIN ops = 1..Len(ops) /\ Len(ops) \in Nat
    BY <2>1
  <2> QED BY <1>a, <2>1, <2>2 DEF IInv, Counted, Enqueue
<1>2. PICK o : o = NewOperation(key, request, auto)
  OBVIOUS
<1>3. ops' = Append(ops, o) /\ o.key = key /\ Running(o)
  BY <1>2 DEF Enqueue, NewOperation, Running
<1>4. PICK j : j = JobTable
  OBVIOUS
<1>5. PICK k : k = JobTable'
  OBVIOUS
<1>6. /\ j \in Seq([key : Keys, state : States]) /\ Len(j) = Len(ops) /\ DOMAIN j = DOMAIN ops
      /\ \A i \in DOMAIN ops : j[i] = [key |-> ops[i].key, state |-> JobState(i)]
  BY <1>4, <1>b DEF Tabled
<1>7. /\ k \in Seq([key : Keys, state : States]) /\ Len(k) = Len(ops') /\ DOMAIN k = DOMAIN ops'
      /\ \A i \in DOMAIN ops' : k[i] = [key |-> ops'[i].key, state |-> JobState(i)']
  BY <1>5, <1>b DEF Tabled
<1>8. /\ Len(ops') = n /\ DOMAIN ops' = 1..n /\ ops'[n] = o
      /\ \A i \in DOMAIN ops : ops'[i] = ops[i]
  BY <1>1, <1>3, <1>a
<1>9. k[n].key = key /\ k[n].state = "running"
  <2>1. JobState(n)' = "running"
    BY <1>1, <1>3, <1>8 DEF JobState
  <2> QED BY <1>1, <1>3, <1>7, <1>8, <2>1
<1>10. \A i \in DOMAIN j : j[i].key # key /\ j[i].state # "running"
  <2>1. TAKE i \in DOMAIN j
  <2>2. ops[i] \in ToSet(ops) /\ j[i].key = ops[i].key
    BY <1>6 DEF ToSet
  <2>3. ops[i].key # key
    BY <2>2 DEF Enqueue
  <2>4. Running(ops[i]) => i \in lost
    BY <1>1, <1>6 DEF IInv, Backed
  <2>5. JobState(i) # "running"
    BY <1>6, <2>4, JobStates DEF Jobs!Results
  <2> QED BY <1>6, <2>2, <2>3, <2>5
<1>11. \A i \in DOMAIN j : k[i] = j[i]
  <2>1. TAKE i \in DOMAIN j
  <2>2. JobState(i)' = JobState(i)
    BY <1>6, <1>8 DEF JobState
  <2> QED BY <1>1, <1>6, <1>7, <1>8, <1>a, <2>2
<1>12. k = Append(j, k[n])
  BY <1>1, <1>6, <1>7, <1>8, <1>11, <1>a
<1>13. /\ Len(k) = Len(j) + 1
       /\ \A i \in DOMAIN j : j[i].key # k[Len(k)].key /\ j[i].state # "running"
       /\ k[Len(k)].state = "running" /\ k = Append(j, k[Len(k)])
  BY <1>6, <1>7, <1>8, <1>9, <1>10, <1>12, <1>a
<1> QED BY <1>4, <1>5, <1>13 DEF Jobs!Accept, JobTable

\* A result, or none because it could not be saved.
LEMMA SaveResultEnds ==
    ASSUME IInv, IInv', SaveResult
    PROVE  \E i \in DOMAIN JobTable, result \in Jobs!Results \cup {"lost"} : Jobs!End(i, result)
<1>0. /\ Engaged /\ Running(ops[run.op]) /\ run.op \notin lost /\ run.op \in DOMAIN ops /\ ops \in Seq(Operations)
  <2>1. Busy /\ run.pc # "leave"
    BY DEF Busy, SaveResult, At
  <2> QED BY <2>1, BusyEngaged DEF IInv, Engaged, Backed
<1>1. PICK o : o = [Saved(run, run.stage) EXCEPT !.status = Outcome(run)]
  OBVIOUS
<1>2. /\ o \in Operations /\ o.key = ops[run.op].key
      /\ o.status \in {"succeeded", "failed", "cancelled", "needs_attention"}
  BY <1>0, <1>1, OutcomeShape
<1>3. \/ UNCHANGED lost /\ ops' = [ops EXCEPT ![run.op] = o]
      \/ UNCHANGED ops /\ lost' = lost \cup {run.op}
  BY <1>0, <1>1, SaveResultDoes
<1>4. DOMAIN ops' = DOMAIN ops /\ ops'[run.op].key = ops[run.op].key
      /\ \A i \in DOMAIN ops : i # run.op => ops'[i] = ops[i] /\ (i \in lost' <=> i \in lost)
  BY <1>0, <1>2, <1>3
<1>a. PICK m : m = run.op
  OBVIOUS
<1>5. PICK result \in Jobs!Results \cup {"lost"} : result = JobState(m)'
  <2>1. CASE UNCHANGED lost /\ ops' = [ops EXCEPT ![run.op] = o]
    <3>1. ops'[run.op] = o /\ ~Running(o)
      BY <1>0, <1>2, <2>1 DEF Running
    <3>2. JobState(m)' = o.status
      BY <1>a, <3>1 DEF JobState
    <3> QED BY <1>2, <3>2 DEF Jobs!Results
  <2>2. CASE UNCHANGED ops /\ lost' = lost \cup {run.op}
    BY <1>0, <1>a, <2>2 DEF JobState
  <2> QED BY <1>3, <2>1, <2>2
<1>b. Tabled /\ Tabled'
  BY JobTableShape, PTL
<1>6. m \in DOMAIN ops /\ JobTable[m] = [key |-> ops[m].key, state |-> "running"]
  BY <1>0, <1>a, <1>b, JobStates DEF Tabled
<1>7. JobTable' = [JobTable EXCEPT ![m].state = result]
  <2>1. PICK j : j = JobTable
    OBVIOUS
  <2>2. PICK k : k = JobTable'
    OBVIOUS
  <2>3. /\ DOMAIN j = DOMAIN ops /\ DOMAIN k = DOMAIN ops /\ DOMAIN ops = 1..Len(ops)
        /\ j \in Seq([key : Keys, state : States]) /\ k \in Seq([key : Keys, state : States])
    BY <1>0, <1>4, <1>b, <2>1, <2>2 DEF Tabled
  <2>4. k[m] = [key |-> ops[m].key, state |-> result]
    BY <1>4, <1>5, <1>6, <1>a, <1>b, <2>2 DEF Tabled
  <2>5. \A i \in DOMAIN ops : i # m => k[i] = j[i]
    <3>1. ASSUME NEW i \in DOMAIN ops, i # m PROVE k[i] = j[i]
      <4>1. JobState(i)' = JobState(i) /\ ops'[i].key = ops[i].key
        BY <1>4, <1>a, <3>1 DEF JobState
      <4> QED BY <1>4, <1>b, <2>1, <2>2, <4>1 DEF Tabled
    <3> QED BY <3>1
  <2>6. k = [j EXCEPT ![m] = [key |-> ops[m].key, state |-> result]]
    BY <1>6, <2>3, <2>4, <2>5
  <2>7. [j[m] EXCEPT !.state = result] = [key |-> ops[m].key, state |-> result]
    BY <1>6, <2>1
  <2>8. k = [j EXCEPT ![m].state = result]
    BY <2>6, <2>7
  <2> QED BY <2>1, <2>2, <2>8
<1>8. Jobs!End(m, result)
  BY <1>6, <1>7 DEF Jobs!End, JobTable
<1> QED BY <1>5, <1>6, <1>8, <1>b DEF Tabled

\* The next start of the program gives every operation without a result the same one.
LEMMA RecoverRestarts ==
    ASSUME IInv, IInv', Recover
    PROVE  Jobs!Restarted
<1>0. UNCHANGED lost
  BY DEF Recover
<1>1. /\ DOMAIN ops' = DOMAIN ops /\ Len(ops') = Len(ops) /\ ops \in Seq(Operations)
      /\ \A i \in DOMAIN ops :
            /\ ~Running(ops'[i]) /\ ops'[i].key = ops[i].key
            /\ \/ Running(ops[i]) /\ ops'[i].status = "needs_attention"
               \/ ~Running(ops[i]) /\ ops'[i] = ops[i]
  BY RecoverTable DEF IInv, Typed
<1>2. Tabled /\ Tabled'
  BY JobTableShape, PTL
<1>3. PICK j : j = JobTable
  OBVIOUS
<1>4. PICK k : k = JobTable'
  OBVIOUS
<1>5. /\ DOMAIN j = DOMAIN ops /\ DOMAIN k = DOMAIN ops /\ DOMAIN ops = 1..Len(ops)
      /\ j \in Seq([key : Keys, state : States]) /\ k \in Seq([key : Keys, state : States])
  BY <1>1, <1>2, <1>3, <1>4 DEF Tabled
<1>6. ASSUME NEW i \in DOMAIN ops
      PROVE  k[i] = IF j[i].state \in Jobs!Results THEN j[i] ELSE [j[i] EXCEPT !.state = "needs_attention"]
  <2>1. j[i] = [key |-> ops[i].key, state |-> JobState(i)]
    BY <1>2, <1>3 DEF Tabled
  <2>2. k[i] = [key |-> ops[i].key, state |-> JobState(i)']
    BY <1>1, <1>2, <1>4 DEF Tabled
  <2>3. JobState(i)' = ops'[i].status
    BY <1>1 DEF JobState
  <2>4. CASE Running(ops[i])
    <3>1. JobState(i) \in {"running", "lost"}
      BY <2>4, JobStates
    <3>2. j[i].state \notin Jobs!Results
      BY <2>1, <3>1 DEF Jobs!Results
    <3>3. [j[i] EXCEPT !.state = "needs_attention"] = [key |-> ops[i].key, state |-> "needs_attention"]
      BY <2>1
    <3> QED BY <1>1, <2>2, <2>3, <2>4, <3>2, <3>3
  <2>5. CASE ~Running(ops[i])
    <3>1. JobState(i) = ops[i].status /\ JobState(i) \in Jobs!Results
      BY <2>5, JobStates
    <3> QED BY <1>1, <2>1, <2>2, <2>3, <2>5, <3>1
  <2> QED BY <2>4, <2>5
<1>7. k = [i \in DOMAIN j |-> IF j[i].state \in Jobs!Results THEN j[i]
                              ELSE [j[i] EXCEPT !.state = "needs_attention"]]
  BY <1>5, <1>6
<1> QED BY <1>3, <1>4, <1>7 DEF Jobs!Restarted, JobTable

\* Each request is carried out at most once, one at a time, and its result is final.
THEOREM MbnImplementsJobs == Spec => ImplementsJobs
<1>1. Init => Jobs!Init
  BY DEF Init, Jobs!Init
<1>2. ASSUME IInv, IInv', [Next]_vars PROVE Jobs!Next \/ JobTable' = JobTable
  <2>1. CASE Idles
    BY <1>2, <2>1, IdlesStutter
  <2>2. CASE SaveResult
    <3>1. \E i \in DOMAIN JobTable, result \in Jobs!Results \cup {"lost"} : Jobs!End(i, result)
      BY <1>2, <2>2, SaveResultEnds
    <3> QED BY <3>1 DEF Jobs!Next, JobTable
  <2>3. CASE Recover
    BY <1>2, <2>3, RecoverRestarts DEF Jobs!Next
  <2>4. CASE ReconcileStart
    <3>1. Jobs!Accept
      BY <1>2, <2>4, EnqueueAccepts DEF ReconcileStart
    <3> QED BY <3>1 DEF Jobs!Next
  <2>5. ASSUME NEW name \in DOMAIN Requests, Start(name) PROVE Jobs!Next
    <3>1. Jobs!Accept
      BY <1>2, <2>5, EnqueueAccepts DEF Start
    <3> QED BY <3>1 DEF Jobs!Next
  <2> QED BY <1>2, <2>1, <2>2, <2>3, <2>4, <2>5, StepKinds
<1>3. IInv /\ IInv' /\ [Next]_vars =>
         [Jobs!Next]_[i \in DOMAIN ops |-> [key |-> ops[i].key, state |-> JobState(i)]]
  BY <1>2 DEF JobTable
<1> QED BY <1>1, <1>3, MbnInvariant, PTL DEF Spec, ImplementsJobs, Jobs!Spec

=============================================================================
