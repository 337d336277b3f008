------------------------------ MODULE SingleLeg ------------------------------
(***************************************************************************)
(* The single-leg shadow experiment: the control RPCs that set it up,      *)
(* enable and pause it, the child scan of a source decision, which records *)
(* candidates in one run per policy and opens them through an RPC, and the *)
(* settlement of expired positions through another.                        *)
(*                                                                         *)
(* A scan runs on the background worker; a retry of it, by hand or after a *)
(* crash, on another. An RPC is a transaction of the database: one step    *)
(* per lock it may wait for, visible to others when it commits, and it     *)
(* goes on when the client that called it times out or dies. Who holds a   *)
(* row lock follows from the transactions' states.                         *)
(***************************************************************************)
EXTENDS Integers, FiniteSets, FiniteSetsExt

CONSTANTS
  Arms,         \* experimental policies; each has a binding and a portfolio
  Decisions,    \* source decisions
  Runs,         \* rows of single_leg_shadow_runs
  Decision,     \* the source decision of each,
  Policy,       \* and its policy
  Candidates,   \* contracts the selector finds on the source tapes
  Run,          \* the run of each
  Tapes,        \* the ask of each candidate on its tape, 0 for none the
                \* client would use
  Start,        \* starting capital of each portfolio
  Payoffs,      \* intrinsic values at expiry
  Scans,        \* deliveries of child jobs
  Settlers,     \* calls of settle_expired_positions
  None,
  MaxTroubles   \* bound: kinds of failure that strike, each once

ASSUME ExperimentAssumption ==
  /\ Decision \in [Runs -> Decisions]
  /\ Policy \in [Runs -> Arms]
  /\ \A d \in Decisions, a \in Arms :
       Cardinality({r \in Runs : Decision[r] = d /\ Policy[r] = a}) = 1
  /\ Run \in [Candidates -> Runs]
  /\ IsFiniteSet(Candidates)
  /\ Tapes \subseteq [Candidates -> Nat]
  /\ Payoffs \subseteq Nat
  /\ Start \in Nat
  /\ MaxTroubles \in Nat
  /\ None \notin Runs \cup Candidates

Arm == [k \in Candidates |-> Policy[Run[k]]]

VARIABLES
  epoch,     \* single_leg_experiment_epochs.state; the bindings follow it
  approved,  \* the four policy rows are approved
  ctl,       \* the enable or pause under way: its kind, portfolios it locked
  tape,      \* the tapes of the source decisions
  queued,    \* decisions whose child job was enqueued
  runs,      \* single_leg_shadow_runs.status
  attempts,  \* candidate_generated rows
  rejected,  \* execution_rejected rows
  orders,    \* single_leg_shadow_orders, one per candidate
  posn,      \* single_leg_shadow_positions
  cash,      \* paper_portfolios.cash_balance
  netliq,    \* paper_portfolios.net_liq
  events,    \* sum of amount over the portfolio's cash events
  scan,      \* per scan: its place in the handler
  open,      \* per scan and candidate: the open RPC
  settler,   \* per settlement: its loop
  close,     \* per settlement and position: the close RPC
  late,      \* history: orders per run since the pause
  troubles   \* history: kinds of failure so far

table == <<runs, attempts, rejected>>
book == <<orders, posn, cash, netliq, events, late>>
control == <<epoch, approved, ctl>>
vars == <<control, tape, queued, table, book, scan, open, settler, close,
          troubles>>

-----------------------------------------------------------------------------

Of(r) == {k \in Candidates : Run[k] = r}
OfArm(a) == {k \in Candidates : Arm[k] = a}

(* todo: runs left to scan. runs: those scanned, to execute; partial: the  *)
(* ones of them with a write error. run: the one under way. left: its      *)
(* candidates to record or to open. call: the open RPC the client waits    *)
(* for. bad: errors so far. dark: its tape could not be loaded.            *)
ScanState ==
  [pc : {"idle", "scan", "record", "execute", "done"}, todo : SUBSET Runs,
   runs : SUBSET Runs, partial : SUBSET Runs, run : Runs \cup {None},
   left : SUBSET Candidates, call : Candidates \cup {None}, bad : BOOLEAN,
   dark : BOOLEAN]

IdleScan == [pc |-> "idle", todo |-> {}, runs |-> {}, partial |-> {},
             run |-> None, left |-> {}, call |-> None, bad |-> FALSE,
             dark |-> FALSE]

(* cash: holds the run row. commit: holds the portfolio row too, and has   *)
(* read its balance. dup: the insert met the unique key of another order.  *)
OpenState == [pc : {"none", "check", "cash", "commit", "done", "failed",
                    "dup"}, before : Nat]
NoOpen == [pc |-> "none", before |-> 0]

(* cash: holds the position row. commit: the portfolio row too.            *)
CloseState == [pc : {"none", "check", "cash", "commit"}, pay : Nat,
               before : Nat]
NoClose == [pc |-> "none", pay |-> 0, before |-> 0]

SettlerState == [left : SUBSET Candidates, call : Candidates \cup {None}]
IdleSettler == [left |-> {}, call |-> None]

(* error: a call that failed with nothing done. lost: one whose answer was *)
(* lost. silent: a failure that leaves candidates without a record.        *)
Kinds == {"error", "lost", "silent"}

TypeOK ==
  /\ epoch \in {"absent", "disabled", "enabled", "paused"}
  /\ approved \in BOOLEAN
  /\ ctl \in [op : {"none", "enable", "pause"}, locked : SUBSET Arms]
  /\ tape \in Tapes
  /\ queued \subseteq Decisions
  /\ runs \in [Runs -> {"absent", "running", "succeeded", "partial",
                        "failed"}]
  /\ attempts \subseteq Candidates
  /\ rejected \subseteq Candidates
  /\ orders \subseteq Candidates
  /\ posn \in [Candidates -> {"none", "open", "closed"}]
  /\ cash \in [Arms -> Nat]
  /\ netliq \in [Arms -> Int]
  /\ events \in [Arms -> Int]
  /\ scan \in [Scans -> ScanState]
  /\ open \in [Scans -> [Candidates -> OpenState]]
  /\ settler \in [Settlers -> SettlerState]
  /\ close \in [Settlers -> [Candidates -> CloseState]]
  /\ late \in [Runs -> Nat]
  /\ troubles \subseteq Kinds

Init ==
  /\ epoch = "absent"
  /\ approved = FALSE
  /\ ctl = [op |-> "none", locked |-> {}]
  /\ tape \in Tapes
  /\ queued = {}
  /\ runs = [r \in Runs |-> "absent"]
  /\ attempts = {}
  /\ rejected = {}
  /\ orders = {}
  /\ posn = [k \in Candidates |-> "none"]
  /\ cash = [a \in Arms |-> Start]
  /\ netliq = [a \in Arms |-> Start]
  /\ events = [a \in Arms |-> 0]
  /\ scan = [s \in Scans |-> IdleScan]
  /\ open = [s \in Scans |-> [k \in Candidates |-> NoOpen]]
  /\ settler = [m \in Settlers |-> IdleSettler]
  /\ close = [m \in Settlers |-> [k \in Candidates |-> NoClose]]
  /\ late = [r \in Runs |-> 0]
  /\ troubles = {}

Fails(t) ==
  /\ t \notin troubles
  /\ Cardinality(troubles) < MaxTroubles
  /\ troubles' = troubles \cup {t}

Steady == UNCHANGED troubles

-----------------------------------------------------------------------------
(* Row locks.                                                              *)

(* SELECT ... FOR UPDATE of the run row. It also holds back inserts that   *)
(* reference the row and updates of it.                                    *)
RunFree(r) ==
  \A s \in Scans : \A k \in Of(r) : open[s][k].pc \notin {"cash", "commit"}

(* SELECT ... FOR UPDATE of the portfolio row, by the open and the close   *)
(* RPC and by the trigger on the bindings' update.                         *)
PortfolioFreeOfControl(a) == a \notin ctl.locked
PortfolioFree(a) ==
  /\ a \notin ctl.locked
  /\ \A k \in OfArm(a) : /\ \A s \in Scans : open[s][k].pc # "commit"
                         /\ \A m \in Settlers : close[m][k].pc # "commit"

(* SELECT ... FOR UPDATE of the position row.                              *)
PositionUnlocked(k) == TRUE
PositionFree(k) == \A m \in Settlers : close[m][k].pc \notin {"cash", "commit"}

-----------------------------------------------------------------------------
(* Control RPCs. They share an advisory lock, so what they read of each    *)
(* other's rows cannot change under them.                                  *)

Control == ctl.op = "none"

(* rpc_setup: epoch, portfolios and bindings, disabled. Replays change     *)
(* nothing.                                                                *)
Setup ==
  /\ Control /\ epoch = "absent"
  /\ epoch' = "disabled"
  /\ Steady
  /\ UNCHANGED <<approved, ctl, queued, table, book, scan, open,
                 settler, close>>

Approve ==
  /\ Control /\ epoch = "disabled" /\ ~approved
  /\ approved' = TRUE
  /\ Steady
  /\ UNCHANGED <<epoch, ctl, queued, table, book, scan, open,
                 settler, close>>

(* rpc_enable and rpc_pause up to their update of the bindings.            *)
EnableStart ==
  /\ Control /\ epoch \in {"disabled", "paused"} /\ approved
  /\ ctl' = [op |-> "enable", locked |-> {}]
  /\ Steady
  /\ UNCHANGED <<epoch, approved, queued, table, book, scan, open,
                 settler, close>>

PauseStart ==
  /\ Control /\ epoch # "absent"
  /\ ctl' = [op |-> "pause", locked |-> {}]
  /\ Steady
  /\ UNCHANGED <<epoch, approved, queued, table, book, scan, open,
                 settler, close>>

(* The update fires the custody trigger for each binding: it locks the     *)
(* portfolio and, on the first enable, wants its balance untouched.        *)
Untouched(a) == cash[a] = Start /\ netliq[a] = Start

CtlLock(a) ==
  /\ ctl.op # "none" /\ a \notin ctl.locked /\ PortfolioFree(a)
  /\ ctl' = IF ctl.op = "enable" /\ epoch = "disabled" /\ ~Untouched(a)
            THEN [op |-> "none", locked |-> {}]
            ELSE [ctl EXCEPT !.locked = @ \cup {a}]
  /\ Steady
  /\ UNCHANGED <<epoch, approved, queued, table, book, scan, open,
                 settler, close>>

CtlCommit ==
  /\ ctl.op # "none" /\ ctl.locked = Arms
  /\ ctl' = [op |-> "none", locked |-> {}]
  /\ epoch' = IF ctl.op = "enable" THEN "enabled" ELSE "paused"
  /\ late' = IF ctl.op = "pause" /\ epoch # "paused"
             THEN [r \in Runs |-> 0] ELSE late
  /\ Steady
  /\ UNCHANGED <<approved, queued, table, orders, posn, cash, netliq, events,
                 scan, open, settler, close>>

(* The statement is cancelled while it waits.                              *)
CtlAborts ==
  /\ ctl.op # "none"
  /\ Fails("error")
  /\ ctl' = [op |-> "none", locked |-> {}]
  /\ UNCHANGED <<epoch, approved, queued, table, book, scan, open,
                 settler, close>>

-----------------------------------------------------------------------------
(* The child scan.                                                         *)

(* _load_enabled_experimental_bindings, and the same test inside the open  *)
(* RPC.                                                                    *)
Enabled == epoch = "enabled" /\ approved

(* maybe_enqueue_single_leg_shadow_scan, once for each decision.           *)
Enqueue(d) ==
  /\ Enabled /\ d \notin queued
  /\ queued' = queued \cup {d}
  /\ Steady
  /\ UNCHANGED <<control, table, book, scan, open, settler, close>>

Goes(s, rec) == scan' = [scan EXCEPT ![s] = rec]

(* The job ends after its last run.                                        *)
Done == [IdleScan EXCEPT !.pc = "done"]
Rest(rec) == IF rec.todo = {} /\ rec.runs = {} THEN Done
             ELSE [rec EXCEPT !.pc = "scan", !.run = None, !.dark = FALSE]

Scanning == UNCHANGED <<control, queued, book, open, settler, close>>

ScanStart(s, d) ==
  /\ d \in queued /\ scan[s].pc = "idle"
  /\ Goes(s, IF Enabled
             THEN [IdleScan EXCEPT !.pc = "scan",
                                   !.todo = {r \in Runs : Decision[r] = d}]
             ELSE Done)
  /\ Steady /\ UNCHANGED table /\ Scanning

(* The readiness or the source tape cannot be read.                        *)
ScanFails(s) ==
  /\ queued # {} /\ scan[s].pc = "idle"
  /\ Fails("error")
  /\ Goes(s, Done)
  /\ UNCHANGED table /\ Scanning

(* begin_run: insert, or fetch the row another scan inserted, whose status *)
(* stays. The insert references the epoch and the portfolio.               *)
BeginRun(s, r) ==
  /\ scan[s].pc = "scan" /\ r \in scan[s].todo
  /\ runs[r] = "absent" => Control /\ PortfolioFree(Policy[r])
  /\ runs' = [runs EXCEPT ![r] = IF @ = "absent" THEN "running" ELSE @]
  /\ Goes(s, [scan[s] EXCEPT !.pc = "record", !.todo = @ \ {r}, !.run = r,
                             !.left = Of(r), !.bad = FALSE])
  /\ Steady /\ UNCHANGED <<attempts, rejected>> /\ Scanning

BeginFails(s, r) ==
  /\ scan[s].pc = "scan" /\ r \in scan[s].todo
  /\ Fails("error")
  /\ Goes(s, Rest([scan[s] EXCEPT !.todo = @ \ {r}]))
  /\ UNCHANGED table /\ Scanning

(* The selector ranks the candidates of a tape the same way every time,    *)
(* and the attempts are read back in the order they were written.          *)
First(S) == CHOOSE k \in S : TRUE

Recording(s) == scan[s].pc = "record" /\ RunFree(scan[s].run)

(* The selector raises: the run is finished as failed and not executed.    *)
SelectorFails(s) ==
  /\ Recording(s) /\ scan[s].left = Of(scan[s].run)
  /\ Fails("error")
  /\ runs' = [runs EXCEPT ![scan[s].run] = "failed"]
  /\ Goes(s, Rest([scan[s] EXCEPT !.left = {}]))
  /\ UNCHANGED <<attempts, rejected>> /\ Scanning

(* record_attempt of a candidate; a duplicate is fine.                     *)
RecordCandidate(s) ==
  /\ Recording(s) /\ scan[s].left # {}
  /\ attempts' = attempts \cup {First(scan[s].left)}
  /\ Goes(s, [scan[s] EXCEPT !.left = @ \ {First(@)}])
  /\ Steady /\ UNCHANGED <<runs, rejected>> /\ Scanning

RecordFails(s) ==
  /\ Recording(s) /\ scan[s].left # {}
  /\ Fails("error")
  /\ Goes(s, [scan[s] EXCEPT !.left = @ \ {First(@)}, !.bad = TRUE])
  /\ UNCHANGED table /\ Scanning

Status(bad) == IF bad THEN "partial" ELSE "succeeded"

Finished(s) ==
  Rest([scan[s] EXCEPT !.runs = @ \cup {scan[s].run},
          !.partial = IF scan[s].bad THEN @ \cup {scan[s].run} ELSE @])

FinishRun(s) ==
  /\ Recording(s) /\ scan[s].left = {}
  /\ runs' = [runs EXCEPT ![scan[s].run] = Status(scan[s].bad)]
  /\ Goes(s, Finished(s))
  /\ Steady /\ UNCHANGED <<attempts, rejected>> /\ Scanning

(* Nobody looks at finish_run's result.                                    *)
FinishFails(s) ==
  /\ Recording(s) /\ scan[s].left = {}
  /\ Fails("error")
  /\ Goes(s, Finished(s))
  /\ UNCHANGED table /\ Scanning

-----------------------------------------------------------------------------
(* execute_run_candidates.                                                 *)

(* All runs are scanned; the candidates come from the table, the ones      *)
(* another scan recorded among them.                                       *)
ExecuteStart(s, r) ==
  /\ scan[s].pc = "scan" /\ scan[s].todo = {} /\ r \in scan[s].runs
  /\ Goes(s, [scan[s] EXCEPT !.pc = "execute", !.run = r,
                !.left = attempts \cap Of(r), !.bad = FALSE])
  /\ Steady /\ UNCHANGED table /\ Scanning

ReadFails(s, r) ==
  /\ scan[s].pc = "scan" /\ scan[s].todo = {} /\ r \in scan[s].runs
  /\ Fails("silent")
  /\ Goes(s, [scan[s] EXCEPT !.pc = "execute", !.run = r, !.bad = TRUE])
  /\ UNCHANGED table /\ Scanning

(* The source tape cannot be loaded: the candidates, if there are any, are *)
(* rejected one by one, whatever becomes of each write.                    *)
TapeFails(s, r) ==
  /\ scan[s].pc = "scan" /\ scan[s].todo = {} /\ r \in scan[s].runs
  /\ attempts \cap Of(r) # {}
  /\ Fails("error")
  /\ Goes(s, [scan[s] EXCEPT !.pc = "execute", !.run = r,
                !.left = attempts \cap Of(r), !.bad = TRUE, !.dark = TRUE])
  /\ UNCHANGED table /\ Scanning

Executing(s, k) ==
  /\ scan[s].pc = "execute" /\ scan[s].call = None
  /\ scan[s].left # {} /\ k = First(scan[s].left)

(* No tape, or no usable quote on it: rejected, without an error.          *)
Quoted(s, k) == ~scan[s].dark /\ tape[k] > 0

Reject(s, k) ==
  /\ Executing(s, k) /\ ~Quoted(s, k)
  /\ RunFree(scan[s].run)
  /\ rejected' = rejected \cup {k}
  /\ Goes(s, [scan[s] EXCEPT !.left = @ \ {k}])
  /\ Steady /\ UNCHANGED <<runs, attempts>> /\ Scanning

CallOpen(s, k) ==
  /\ Executing(s, k) /\ Quoted(s, k)
  /\ open' = [open EXCEPT ![s][k].pc = "check"]
  /\ Goes(s, [scan[s] EXCEPT !.call = k])
  /\ Steady
  /\ UNCHANGED <<control, queued, table, book, settler, close>>

Answered(s) ==
  [scan[s] EXCEPT !.left = @ \ {scan[s].call}, !.call = None]

Received(s) ==
  /\ open' = [open EXCEPT ![s][scan[s].call] = NoOpen]
  /\ UNCHANGED <<control, queued, book, settler, close>>

OpenAnswers(s) ==
  /\ scan[s].call # None /\ open[s][scan[s].call].pc = "done"
  /\ Goes(s, Answered(s))
  /\ Steady /\ UNCHANGED table /\ Received(s)

(* The RPC raised. It is counted and recorded as a rejection.              *)
RaisesSilently(s) ==
  /\ scan[s].call # None /\ open[s][scan[s].call].pc \in {"failed", "dup"}
  /\ Goes(s, [Answered(s) EXCEPT !.bad = TRUE])
  /\ Steady /\ UNCHANGED table /\ Received(s)
OpenRaises(s) ==
  /\ scan[s].call # None /\ open[s][scan[s].call].pc \in {"failed", "dup"}
  /\ RunFree(scan[s].run)
  /\ rejected' = rejected \cup {scan[s].call}
  /\ Goes(s, [Answered(s) EXCEPT !.bad = TRUE])
  /\ Steady /\ UNCHANGED <<runs, attempts>> /\ Received(s)

(* The rejection itself, of either kind, is not written.                   *)
RejectFails(s, k) ==
  /\ \/ Executing(s, k) /\ ~Quoted(s, k)
     \/ scan[s].call = k /\ open[s][k].pc \in {"failed", "dup"}
  /\ Fails("silent")
  /\ open' = [open EXCEPT ![s][k] = NoOpen]
  /\ Goes(s, [scan[s] EXCEPT !.left = @ \ {k}, !.call = None, !.bad = TRUE])
  /\ UNCHANGED <<control, queued, table, book, settler, close>>

(* The client gives up on an RPC that may yet run, or has run: recorded as *)
(* a rejection like any other exception.                                   *)
OpenLost(s) ==
  /\ scan[s].call # None /\ RunFree(scan[s].run)
  /\ Fails("lost")
  /\ rejected' = rejected \cup {scan[s].call}
  /\ Goes(s, [Answered(s) EXCEPT !.bad = TRUE])
  /\ UNCHANGED <<runs, attempts>> /\ Scanning

(* _persist_execution_summary overwrites the run's status by id.           *)
Executed(s) == scan[s].pc = "execute" /\ scan[s].left = {}

RunExecuted(s) == Rest([scan[s] EXCEPT !.runs = @ \ {scan[s].run}])

Persist(s) ==
  /\ Executed(s) /\ RunFree(scan[s].run)
  /\ runs' = [runs EXCEPT ![scan[s].run] =
                Status(scan[s].bad \/ scan[s].run \in scan[s].partial)]
  /\ Goes(s, RunExecuted(s))
  /\ Steady /\ UNCHANGED <<attempts, rejected>> /\ Scanning

PersistFails(s) ==
  /\ Executed(s)
  /\ Fails("error")
  /\ Goes(s, RunExecuted(s))
  /\ UNCHANGED table /\ Scanning

(* The work-horse dies; an RPC it called goes on.                          *)
ScanCrash(s) ==
  /\ scan[s].pc \notin {"idle", "done"}
  /\ Fails("silent")
  /\ Goes(s, Done)
  /\ UNCHANGED table /\ Scanning

-----------------------------------------------------------------------------
(* rpc_open_single_leg_shadow_position_v1.                                 *)

Openable == {"running", "succeeded", "partial"}

(* Lock the run, look for the order of an earlier call, then check the     *)
(* epoch, the binding and the policy.                                      *)
VerdictAnew(k) ==
  IF runs[Run[k]] \in Openable /\ Enabled THEN "cash" ELSE "failed"
Verdict(k) ==
  CASE runs[Run[k]] \notin Openable -> "failed"
    [] k \in orders -> "done"
    [] ~Enabled -> "failed"
    [] OTHER -> "cash"
VerdictUnchecked(k) ==
  CASE runs[Run[k]] \notin Openable -> "failed"
    [] k \in orders -> "done"
    [] OTHER -> "cash"

(* An answer nobody waits for is gone.                                     *)
Ends(s, k, v) ==
  [open EXCEPT ![s][k] = IF scan[s].call = k \/ v = "dup"
                         THEN [NoOpen EXCEPT !.pc = v] ELSE NoOpen]

OpenCheckOf(s, k, v) ==
  /\ open[s][k].pc = "check" /\ RunFree(Run[k])
  /\ open' = IF v = "cash" THEN [open EXCEPT ![s][k].pc = v]
             ELSE Ends(s, k, v)
  /\ Steady
  /\ UNCHANGED <<control, queued, table, book, scan, settler, close>>
OpenCheckAnyEpoch(s, k) == OpenCheckOf(s, k, VerdictUnchecked(k))
OpenCheck(s, k) == OpenCheckOf(s, k, Verdict(k))

(* Lock the portfolio and read its balance.                                *)
OpenCashOf(s, k, ok) ==
  /\ open[s][k].pc = "cash" /\ PortfolioFree(Arm[k])
  /\ open' = IF ok THEN [open EXCEPT ![s][k] = [pc |-> "commit",
                                                before |-> cash[Arm[k]]]]
             ELSE Ends(s, k, "failed")
  /\ Steady
  /\ UNCHANGED <<control, queued, table, book, scan, settler, close>>
OpenCashPositive(s, k) == OpenCashOf(s, k, cash[Arm[k]] > 0)
OpenCash(s, k) == OpenCashOf(s, k, cash[Arm[k]] >= tape[k])

(* Order, position, balance, cash event; the insert of a second order for  *)
(* the candidate would meet UNIQUE (run_id, candidate_fingerprint).        *)
OpenCommit(s, k) ==
  /\ open[s][k].pc = "commit"
  /\ LET a == Arm[k] IN
     IF k \in orders
     THEN /\ open' = Ends(s, k, "dup")
          /\ UNCHANGED book
     ELSE /\ open' = Ends(s, k, "done")
          /\ orders' = orders \cup {k}
          /\ posn' = [posn EXCEPT ![k] = "open"]
          /\ cash' = [cash EXCEPT ![a] = open[s][k].before - tape[k]]
          /\ events' = [events EXCEPT ![a] = @ - tape[k]]
          /\ late' = [late EXCEPT ![Run[k]] = IF epoch = "paused" THEN @ + 1
                                                                ELSE @]
          /\ UNCHANGED netliq
  /\ Steady
  /\ UNCHANGED <<control, queued, table, scan, settler, close>>

(* Cancelled by the server: everything is rolled back.                     *)
OpenAborts(s, k) ==
  /\ open[s][k].pc \in {"check", "cash", "commit"}
  /\ Fails("error")
  /\ open' = Ends(s, k, "failed")
  /\ UNCHANGED <<control, queued, table, book, scan, settler, close>>

-----------------------------------------------------------------------------
(* settle_expired_positions and rpc_close_single_leg_shadow_position_v1.   *)

Settling == UNCHANGED <<control, queued, table, book, scan, open>>

(* The open positions whose expiry date has come. Part of the              *)
(* mark-to-market job on the one otc worker.                               *)
SettleStart(m, due) ==
  /\ \A n \in Settlers : settler[n] = IdleSettler
  /\ \A k \in Candidates : close[m][k].pc = "none"
  /\ due # {} /\ \A k \in due : posn[k] = "open"
  /\ settler' = [settler EXCEPT ![m].left = due]
  /\ Steady /\ UNCHANGED close /\ Settling

(* No spot for the symbol: a settlement_deferred event, retried next time. *)
SettleDefer(m, k) ==
  /\ settler[m].call = None /\ k \in settler[m].left
  /\ settler' = [settler EXCEPT ![m].left = @ \ {k}]
  /\ Steady /\ UNCHANGED close /\ Settling

SettleCall(m, k, v) ==
  /\ settler[m].call = None /\ k \in settler[m].left
  /\ settler' = [settler EXCEPT ![m].call = k]
  /\ close' = [close EXCEPT ![m][k] = [NoClose EXCEPT !.pc = "check",
                                                      !.pay = v]]
  /\ Steady /\ Settling

SettleNext(m) ==
  settler' = [settler EXCEPT ![m].left = @ \ {settler[m].call},
                             ![m].call = None]

SettleAnswer(m) ==
  /\ settler[m].call # None /\ close[m][settler[m].call].pc = "none"
  /\ SettleNext(m)
  /\ Steady /\ UNCHANGED close /\ Settling

(* The answer is lost; the RPC goes on.                                    *)
SettleLost(m) ==
  /\ settler[m].call # None
  /\ Fails("lost")
  /\ SettleNext(m)
  /\ UNCHANGED close /\ Settling

(* Lock the position; a closed one is answered from its outcome.           *)
CloseCheck(m, k) ==
  /\ close[m][k].pc = "check" /\ PositionFree(k)
  /\ close' = [close EXCEPT ![m][k] = IF posn[k] = "closed" THEN NoClose
                                      ELSE [@ EXCEPT !.pc = "cash"]]
  /\ Steady /\ UNCHANGED settler /\ Settling

CloseCash(m, k) ==
  /\ close[m][k].pc = "cash" /\ PortfolioFree(Arm[k])
  /\ close' = [close EXCEPT ![m][k].pc = "commit",
                            ![m][k].before = cash[Arm[k]]]
  /\ Steady /\ UNCHANGED settler /\ Settling

(* Raises: rolled back, and counted by the settlement.                     *)
CloseAborts(m, k) ==
  /\ close[m][k].pc # "none"
  /\ Fails("error")
  /\ close' = [close EXCEPT ![m][k] = NoClose]
  /\ UNCHANGED settler /\ Settling

CloseCommitOf(m, k, pnl) ==
  /\ close[m][k].pc = "commit"
  /\ posn' = [posn EXCEPT ![k] = "closed"]
  /\ cash' = [cash EXCEPT ![Arm[k]] = close[m][k].before + close[m][k].pay]
  /\ netliq' = [netliq EXCEPT ![Arm[k]] = @ + pnl]
  /\ events' = [events EXCEPT ![Arm[k]] = @ + close[m][k].pay]
  /\ close' = [close EXCEPT ![m][k] = NoClose]
  /\ Steady
  /\ UNCHANGED <<control, queued, table, orders, late, scan, open,
                 settler>>
CloseCommitGross(m, k) == CloseCommitOf(m, k, close[m][k].pay)
CloseCommit(m, k) == CloseCommitOf(m, k, close[m][k].pay - tape[k])

-----------------------------------------------------------------------------

ScanStep(s) ==
  \/ ScanFails(s) \/ \E d \in Decisions : ScanStart(s, d)
  \/ \E r \in Runs : \/ BeginRun(s, r) \/ BeginFails(s, r)
                     \/ ExecuteStart(s, r) \/ ReadFails(s, r)
                     \/ TapeFails(s, r)
  \/ RecordCandidate(s) \/ RecordFails(s)
  \/ \E k \in Candidates : \/ Reject(s, k) \/ CallOpen(s, k)
                           \/ RejectFails(s, k)
  \/ SelectorFails(s) \/ FinishRun(s) \/ FinishFails(s)
  \/ OpenAnswers(s) \/ OpenRaises(s) \/ OpenLost(s)
  \/ Persist(s) \/ PersistFails(s) \/ ScanCrash(s)

OpenStep(s, k) == OpenCheck(s, k) \/ OpenCash(s, k) \/ OpenCommit(s, k)

SettlerStep(m) ==
  \/ \E due \in SUBSET Candidates : SettleStart(m, due)
  \/ \E k \in Candidates : \/ SettleDefer(m, k)
                           \/ \E v \in Payoffs : SettleCall(m, k, v)
  \/ SettleAnswer(m) \/ SettleLost(m)

CloseStep(m, k) ==
  CloseCheck(m, k) \/ CloseCash(m, k) \/ CloseCommit(m, k) \/ CloseAborts(m, k)

Next ==
  \/ Setup \/ Approve \/ EnableStart \/ PauseStart
  \/ \E a \in Arms : CtlLock(a)
  \/ CtlCommit \/ CtlAborts
  \/ \E d \in Decisions : Enqueue(d)
  \/ \E s \in Scans : ScanStep(s)
  \/ \E s \in Scans, k \in Candidates : OpenStep(s, k) \/ OpenAborts(s, k)
  \/ \E m \in Settlers : SettlerStep(m)
  \/ \E m \in Settlers, k \in Candidates : CloseStep(m, k)

Spec == Init /\ [][Next /\ UNCHANGED tape]_vars

-----------------------------------------------------------------------------
(* Properties.                                                             *)

(* The balance of a portfolio is its starting capital and its cash events, *)
(* whatever opens and settlements of it overlap: each RPC computes the new *)
(* balance from one it read before.                                        *)
CashIsEvents == \A a \in Arms : cash[a] = Start + events[a]

Total(amount, S) == MapThenSumSet(LAMBDA k : amount[k], S)

(* Net liquidation value is cash plus open contracts at cost, though       *)
(* opening leaves net_liq alone and settling adds only the profit.         *)
NetLiqIsWorth ==
  \A a \in Arms :
    netliq[a] = cash[a] + Total(tape, {k \in OfArm(a) : posn[k] = "open"})

(* "The loser observes the existing order and returns the same receipt     *)
(* rather than surfacing a uniqueness error": however a scan, its retry    *)
(* and calls given up by their client overlap.                             *)
ReplayGetsReceipt ==
  \A s \in Scans, k \in Candidates : open[s][k].pc # "dup"

(* The kill switch: after a pause has committed, at most one more order of *)
(* each run lands, the one past its check at that moment, however many     *)
(* candidates and scans are waiting. A portfolio may see one for each      *)
(* decision, since the lock that orders the checks is on the run row.      *)
PauseStops == \A r \in Runs : late[r] <= 1

(* When the scans have ended, every recorded candidate was opened or       *)
(* durably rejected, unless a scan died, could not read the candidates or  *)
(* could not write a rejection.                                            *)
CandidatesResolved ==
  /\ \A s \in Scans : scan[s].pc \in {"idle", "done"}
  /\ "silent" \notin troubles
  => attempts \subseteq orders \cup rejected

Books == INSTANCE ShadowBook

(* Opens and settlements are atomic though each is several statements of   *)
(* several transactions: the books go through what ShadowBook allows and   *)
(* nothing else, under every overlap of scans, retries, settlements, calls *)
(* given up by their client, aborts and control RPCs.                      *)
RPCsAreAtomic == Books!Spec
=============================================================================
