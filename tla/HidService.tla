----------------------------- MODULE HidService -----------------------------
(***************************************************************************)
(* The joystick as the renderer sees it: HidService (hid/hid-service.ts)   *)
(* over the reader of HidReader.  Reports drive the pushes, at most one a  *)
(* window: the first at once, what follows when the window ends.  The      *)
(* link's push tick, every 200 ms, shows the reader too.                   *)
(*                                                                         *)
(* A report is its number: the renderer holds the number of the last one   *)
(* it was shown.  The rate, the ages and what an axis stands for are left  *)
(* out.                                                                    *)
(***************************************************************************)
EXTENDS HidReader

CONSTANT MaxReports  \* bound: reports the device sends

ASSUME ReportsAssumption == MaxReports \in Nat

VARIABLES
    report,    \* the last report onData() took
    shown,     \* the one the renderer was last shown
    recent,    \* hidPushedAt is less than HID_PUSH_MS ago
    pushTimer  \* hidPushTimer is armed

serviceVars == <<report, shown, recent, pushTimer>>
allVars == <<vars, serviceVars>>

ServiceTypeOK ==
    /\ TypeOK
    /\ {report, shown} \subseteq 0..MaxReports
    /\ {recent, pushTimer} \subseteq BOOLEAN

ServiceInit ==
    Init /\ report = 0 /\ shown = 0 /\ recent = FALSE /\ pushTimer = FALSE

---------------------------------------------------------------------------
\* HidService.hid: there from start() to stop().
Serves == reader \in {"running", "unavailable"}

\* Mutant, NoneLeftUnsent: the leading edge alone.
Leads == recent' = TRUE /\ UNCHANGED pushTimer /\ shown' = IF recent THEN shown ELSE report'

\* pushHid(): at once, or when the window ends.
PushHid ==
    IF recent
    THEN pushTimer' = TRUE /\ UNCHANGED <<shown, recent>>
    ELSE shown' = report' /\ recent' = TRUE /\ UNCHANGED pushTimer

\* A handle that is being closed may still report.
Reports(d) ==
    /\ handle[d] \in {"open", "closing"}
    /\ report < MaxReports /\ report' = report + 1
    /\ IF Serves THEN PushHid ELSE UNCHANGED <<shown, recent, pushTimer>>
    /\ UNCHANGED vars

WindowEnds ==
    recent /\ recent' = FALSE /\ UNCHANGED <<vars, report, shown, pushTimer>>

\* It may fire after the window: a report may have been pushed meanwhile.
PushTimerFires ==
    /\ pushTimer /\ pushTimer' = FALSE
    /\ shown' = report /\ recent' = TRUE
    /\ UNCHANGED <<vars, report>>

\* flush(): the link's tick, calibration's answer, or a renderer that loads.
Flush == Serves /\ shown' = report /\ UNCHANGED <<vars, report, recent, pushTimer>>

StopService == Stop /\ pushTimer' = FALSE /\ UNCHANGED <<report, shown, recent>>

ReaderSteps ==
    /\ \/ Start \/ OpenFails \/ RetryFires \/ Reopen \/ LostReleases \/ Drop \/ Plug
       \/ \E d \in Devices : Opened(d) \/ Lost(d) \/ Closed(d)
    /\ UNCHANGED serviceVars

ServiceNext ==
    \/ ReaderSteps \/ StopService
    \/ WindowEnds \/ PushTimerFires \/ Flush
    \/ \E d \in Devices : Reports(d)

ServiceSpec == ServiceInit /\ [][ServiceNext]_allVars /\ Fairness

---------------------------------------------------------------------------
\* "The state that follows it is never the one left unsent": while the
\* service runs, a report that was not shown has its push under way, and does
\* not wait for the link's tick.
NoneLeftUnsent == Serves /\ shown # report => pushTimer
=============================================================================
