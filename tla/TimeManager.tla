------------------------------ MODULE TimeManager ------------------------------
(***************************************************************************)
(* The phosphor-time-manager daemon: phosphor::time::Manager, which keeps  *)
(* the time mode of the settings daemon and the NTP setting of systemd's   *)
(* timedated in step, and phosphor::time::BmcEpoch, which sets the clock.  *)
(*                                                                         *)
(* The settings daemon and timedated are external: the first stores one    *)
(* property and signals each change of it; the second starts or stops the  *)
(* NTP service as a job and signals the NTP property when the job is done. *)
(* The daemon's method calls block it, so a handler is one step as long as *)
(* it touches one of the two only once; signals that arrive meanwhile wait *)
(* in its D-Bus connection, "inbox", in the order they were sent.          *)
(***************************************************************************)
EXTENDS Naturals, Sequences

CONSTANTS
    DefaultMode,    \* DEFAULT_TIME_MODE, a build option
    CallFaults,     \* which of the daemon's calls may fail
    Patient,        \* do users and admins wait until everything is quiet, and do
                    \* restarts not hit an admin's change?
    MaxEdits,       \* bound on the edits of the setting by users
    MaxAdmin,       \* bound on the changes of NTP by others (timedatectl)
    MaxCrashes,     \* bound on the restarts of the daemon
    MaxSets,        \* bound on the successful settings of the clock
    MaxInbox        \* bound on the signals that wait when another is sent

Modes == {"NTP", "Manual"}
Calls == {"getSetting", "setNtp", "setProperty"}

ASSUME TimeManagerAssumption ==
    /\ DefaultMode \in Modes
    /\ CallFaults \subseteq Calls
    /\ Patient \in BOOLEAN
    /\ MaxEdits \in Nat /\ MaxAdmin \in Nat /\ MaxCrashes \in Nat
    /\ MaxSets \in Nat /\ MaxInbox \in Nat

\* What getSetting returns when it fails: the empty string, which is no mode.
NoMode == "none"

\* A PropertiesChanged signal of the settings daemon or of timedated.
Signal == [src : {"settings", "timedate"}, mode : Modes]

VARIABLES
    setting,    \* TimeSyncMethod in the settings daemon, persistent
    service,    \* the NTP service under timedated
    job,        \* is a job of timedated on the NTP service under way?
    phase,      \* of the daemon: down, subscribed, read (in Manager's ctor) or up
    mode,       \* what getSetting returned to the constructor of this start
    timeMode,   \* Manager::timeMode
    inbox,      \* signals sent to the daemon, not yet dispatched
    sets,       \* how often BmcEpoch has set the clock
    edits, admin, crashes   \* the bounds used up

external == <<setting, service, job>>
daemon   == <<phase, mode, timeMode, sets>>
budgets  == <<edits, admin, crashes>>
vars == <<external, daemon, inbox, budgets>>

Init ==
    /\ setting \in Modes
    /\ service \in {"active", "inactive"}
    /\ job = FALSE
    /\ phase = "down" /\ mode = NoMode /\ timeMode = DefaultMode
    /\ inbox = <<>>
    /\ sets = 0
    /\ edits = 0 /\ admin = 0 /\ crashes = 0

NtpMode == IF service = "active" THEN "NTP" ELSE "Manual"

\* Nothing is under way.
Quiet == phase = "up" /\ inbox = <<>> /\ ~job

--------------------------------------------------------------------------------
(* The two services the daemon keeps in step                               *)

\* A signal reaches the daemon once its constructor has registered the matches.
Sent(q, src, m) == IF phase = "down" THEN q
                   ELSE Append(q, [src |-> src, mode |-> m])

\* Properties.Set on the settings daemon: a change is signalled.
PutSetting(q, m) ==
    /\ setting' = m
    /\ inbox' = IF m = setting THEN q ELSE Sent(q, "settings", m)

\* SetNTP: a job starts the service or begins to stop it.
SetNTP(on) ==
    /\ service' = IF on THEN "active"
                  ELSE IF service = "inactive" THEN "inactive" ELSE "stopping"
    /\ job' = TRUE

\* The job is done: timedated signals the NTP property.
JobDone ==
    /\ job /\ Len(inbox) < MaxInbox
    /\ job' = FALSE
    /\ service' = IF service = "stopping" THEN "inactive" ELSE service
    /\ inbox' = Sent(inbox, "timedate", NtpMode)
    /\ UNCHANGED <<setting, daemon, budgets>>

\* A user sets TimeSyncMethod, over D-Bus or Redfish.
UserEdit(m) ==
    /\ edits < MaxEdits /\ Len(inbox) < MaxInbox
    /\ Patient => Quiet
    /\ m # setting
    /\ PutSetting(inbox, m)
    /\ edits' = edits + 1
    /\ UNCHANGED <<service, job, daemon, admin, crashes>>

\* Somebody else calls timedated's SetNTP.
AdminSetNTP(on) ==
    /\ admin < MaxAdmin
    /\ Patient => Quiet
    /\ SetNTP(on)
    /\ admin' = admin + 1
    /\ UNCHANGED <<setting, daemon, inbox, edits, crashes>>

--------------------------------------------------------------------------------
(* Manager                                                                 *)

\* Deviations a property catches: a failed conversion that is stored all the same; a
\* mode that is never recorded.
setCurrentTimeModeUnchecked(m) == timeMode' = m
setCurrentTimeModeForgotten(m) == m \in STRING /\ UNCHANGED timeMode

\* utils::strToMode throws on what is no mode; setCurrentTimeMode keeps the old.
setCurrentTimeMode(m) == timeMode' = IF m \in Modes THEN m ELSE timeMode

\* Deviation: enable and disable are swapped.
updateNtpSettingSwapped(m) == SetNTP(m # "NTP")

\* The call's failure is logged and forgotten.
updateNtpSetting(m) ==
    \/ SetNTP(m = "NTP")
    \/ "setNtp" \in CallFaults /\ UNCHANGED <<service, job>>

\* Deviation: forceSet is ignored.
onPropertyChangedUnforced(m, forceSet) ==
    IF (m = "NTP") # (timeMode = "NTP")
    THEN updateNtpSetting(m) /\ setCurrentTimeMode(m)
    ELSE forceSet \in BOOLEAN /\ UNCHANGED <<service, job, timeMode>>

\* onPropertyChanged
onPropertyChanged(m, forceSet) ==
    IF forceSet \/ (m = "NTP") # (timeMode = "NTP")
    THEN updateNtpSetting(m) /\ setCurrentTimeMode(m)
    ELSE UNCHANGED <<service, job, timeMode>>

\* The constructor: the matches come first, then the setting is read, then it is
\* forced on timedated.
Subscribe ==
    /\ phase = "down"
    /\ phase' = "subscribed"
    /\ UNCHANGED <<external, mode, timeMode, sets, inbox, budgets>>

\* Deviation: the build's default is taken for the setting.
ReadDefault ==
    /\ phase = "subscribed"
    /\ mode' = DefaultMode
    /\ phase' = "read"
    /\ UNCHANGED <<external, timeMode, sets, inbox, budgets>>

ReadSetting ==
    /\ phase = "subscribed"
    /\ \/ mode' = setting
       \/ "getSetting" \in CallFaults /\ mode' = NoMode
    /\ phase' = "read"
    /\ UNCHANGED <<external, timeMode, sets, inbox, budgets>>

ForceMode ==
    /\ phase = "read"
    /\ onPropertyChanged(mode, TRUE)
    /\ phase' = "up"
    /\ UNCHANGED <<setting, mode, sets, inbox, budgets>>

\* onSettingsChanged
OnSettingsChanged ==
    /\ phase = "up" /\ inbox # <<>> /\ Head(inbox).src = "settings"
    /\ onPropertyChanged(Head(inbox).mode, FALSE)
    /\ inbox' = Tail(inbox)
    /\ UNCHANGED <<setting, phase, mode, sets, budgets>>

\* Deviation: the signal is treated as one of the settings daemon, and forced.
OnTimedateEchoed ==
    /\ phase = "up" /\ inbox # <<>> /\ Head(inbox).src = "timedate"
    /\ onPropertyChanged(Head(inbox).mode, TRUE)
    /\ inbox' = Tail(inbox)
    /\ UNCHANGED <<setting, phase, mode, sets, budgets>>

\* Deviation: the mode is recorded, and not stored.
OnTimedateUnstored ==
    /\ phase = "up" /\ inbox # <<>> /\ Head(inbox).src = "timedate"
    /\ setCurrentTimeMode(Head(inbox).mode)
    /\ inbox' = Tail(inbox)
    /\ UNCHANGED <<setting, service, job, phase, mode, sets, budgets>>

\* onTimedateChanged: when storing the mode fails, nothing is changed.
OnTimedateChanged ==
    /\ phase = "up" /\ inbox # <<>> /\ Head(inbox).src = "timedate"
    /\ LET m == Head(inbox).mode
       IN \/ /\ (m = "NTP") # (timeMode = "NTP")
             /\ PutSetting(Tail(inbox), m)
             /\ setCurrentTimeMode(m)
          \/ /\ (m = "NTP") # (timeMode = "NTP") => "setProperty" \in CallFaults
             /\ inbox' = Tail(inbox)
             /\ UNCHANGED <<setting, timeMode>>
    /\ UNCHANGED <<service, job, phase, mode, sets, budgets>>

\* BmcEpoch::elapsed: timedated refuses while the NTP service is not stopped, and
\* then nothing changes.
SetElapsed ==
    /\ phase = "up" /\ sets < MaxSets
    /\ service = "inactive"
    /\ sets' = sets + 1
    /\ UNCHANGED <<external, phase, mode, timeMode, inbox, budgets>>

\* The process ends and systemd starts it again (Restart=always).
Crash ==
    /\ phase # "down" /\ crashes < MaxCrashes
    /\ Patient /\ admin > 0 => Quiet
    /\ phase' = "down" /\ mode' = NoMode /\ timeMode' = DefaultMode
    /\ inbox' = <<>>
    /\ crashes' = crashes + 1
    /\ UNCHANGED <<external, sets, edits, admin>>

--------------------------------------------------------------------------------
Startup == Subscribe \/ ReadSetting \/ ForceMode
Handler == OnSettingsChanged \/ OnTimedateChanged
Others  == (\E m \in Modes : UserEdit(m)) \/ (\E on \in BOOLEAN : AdminSetNTP(on))

Next == Startup \/ Handler \/ JobDone \/ SetElapsed \/ Others \/ Crash

Spec == Init /\ [][Next]_vars

\* systemd starts the daemon, the event loop dispatches what waits, and timedated
\* ends its jobs.
FairSpec == Spec /\ WF_vars(Startup) /\ WF_vars(Handler) /\ WF_vars(JobDone)

--------------------------------------------------------------------------------
(* Properties                                                              *)

\* The variables have their types.
TypeOK ==
    /\ setting \in Modes
    /\ service \in {"active", "inactive", "stopping"}
    /\ job \in BOOLEAN
    /\ phase \in {"down", "subscribed", "read", "up"}
    /\ mode \in Modes \cup {NoMode}
    /\ timeMode \in Modes
    /\ inbox \in Seq(Signal)
    /\ sets \in Nat /\ edits \in Nat /\ admin \in Nat /\ crashes \in Nat

\* However edits of the setting, changes by timedatectl, jobs and restarts of the
\* daemon interleave, once nothing is under way the three views are one: the stored
\* setting, Manager::timeMode and the state of the NTP service.  In Manual mode the
\* service has stopped by then, so that timedated accepts a time.
Agreement ==
    Quiet => timeMode = setting /\ service = IF setting = "NTP" THEN "active" ELSE "inactive"

\* SetNTP and Set calls that fail are forgotten, yet timeMode ends up as the stored
\* setting: the handlers never record a mode they did not store or read. It takes a
\* constructor that could read the setting.
SettingFollowed == Quiet /\ mode # NoMode => timeMode = setting

\* README.md's table: in NTP mode, Elapsed cannot be set. BmcEpoch never looks at the
\* mode: it is timedated that refuses, so the mode must have reached timedated.
SetOnlyInManual == [][Quiet /\ sets' # sets => setting = "Manual"]_vars

\* While nobody else changes NTP, the stored setting is what users made it: neither a
\* restart, whose timeMode starts as the build's default, nor the signals of jobs the
\* daemon itself caused make it store another mode. (Users wait until all is quiet.)
DaemonKeepsSetting == [][setting' # setting /\ admin = 0 => edits' # edits]_vars

\* A mode asked of timedated is on its way to the settings daemon, as a job or as the
\* signal of it.
Asked ==
    \/ job /\ NtpMode # setting
    \/ \E i \in DOMAIN inbox : inbox[i].src = "timedate" /\ inbox[i].mode # setting

\* The two services do not chase each other forever: after the last change from
\* outside, everything comes to rest. (Users wait until all is quiet.)
ComesToRest == <>[]Quiet

\* The daemon has not handled the signal of a change of the setting yet.
Behind == phase = "up" /\ timeMode # setting

\* What is left to be done before everything is quiet: each signal is to be handled, a
\* job is to be done and its signal handled, a setting that the daemon does not follow
\* is one more job, a mode that is asked of timedated one more signal of the setting.
Cost(due, n) == IF due THEN n ELSE 0
StartCost == CASE phase = "down" -> 5 [] phase = "subscribed" -> 4
               [] phase = "read" -> 3 [] phase = "up" -> 0
Unrest == Len(inbox) + Cost(job, 2) + Cost(Behind, 2) + Cost(Asked, 1) + StartCost

\* Why: whatever the daemon or timedated does brings rest nearer.  A signal that makes
\* the daemon call timedated or the settings daemon, which signal it again, is never the
\* echo of such a call. (Users wait until all is quiet.)
NearerToRest == [][Startup \/ Handler \/ JobDone => Unrest' < Unrest]_vars

\* The mode asked for last
LastAsked == IF Asked THEN CHOOSE m \in Modes : m # setting ELSE setting

\* The daemon keeps what TimeMode promises: one mode that all views follow, which only
\* users and administrators change, whatever echoes of it cross and however often the
\* daemon is restarted. (They wait until all is quiet; README.md:72-115.)
Promise == INSTANCE TimeMode WITH chosen <- LastAsked, settled <- Quiet, ntp <- NtpMode

OneMode == Promise!Spec

--------------------------------------------------------------------------------
(* Why Agreement holds: the newest signal of each service on its way to the daemon,*)
(* or the daemon's own state when there is none, is that service's state.          *)

Silent(q, src) == \A i \in DOMAIN q : q[i].src # src

\* The newest signal of src in q, if there is one, says m.
Tells(q, src, m) ==
    \A i \in DOMAIN q :
        q[i].src = src /\ (\A j \in DOMAIN q : j > i => q[j].src # src) => q[i].mode = m

\* Holds whatever calls fail.
SettingTold ==
    /\ IF phase = "down" THEN inbox = <<>> ELSE Tells(inbox, "settings", setting)
    /\ phase = "read" /\ mode # NoMode /\ Silent(inbox, "settings") => mode = setting
    /\ phase = "up" /\ mode # NoMode /\ Silent(inbox, "settings") => timeMode = setting

\* Holds when no call fails.
NtpTold ==
    /\ phase = "up" /\ ~job =>
            /\ Tells(inbox, "timedate", NtpMode)
            /\ Silent(inbox, "timedate") => timeMode = NtpMode
    /\ service = "stopping" => job
    /\ phase \in {"read", "up"} => mode # NoMode

\* Holds when moreover the others are patient: what is asked of timedated is the only
\* thing under way.
AskedAlone ==
    /\ phase = "read" => mode = setting
    /\ \A i \in DOMAIN inbox : inbox[i].src = "settings" => inbox[i].mode = setting
    /\ Asked => /\ phase = "up" /\ admin > 0
                /\ timeMode = setting /\ NtpMode # setting
                /\ IF job THEN inbox = <<>> ELSE Len(inbox) = 1

\* When the daemon does not follow the setting, nothing but the signal of it is under way.
BehindAlone == Behind => ~job /\ Len(inbox) = 1

\* Inductive when no call fails; Agreement follows.
InStepInv == TypeOK /\ SettingTold /\ NtpTold
================================================================================
