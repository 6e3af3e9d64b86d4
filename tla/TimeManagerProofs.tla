--------------------------- MODULE TimeManagerProofs ---------------------------
(***************************************************************************)
(* What TLAPS proves of TimeManager for every build default and every      *)
(* bound: typing; that timeMode follows the stored setting whatever calls  *)
(* fail (SettingFollowed, from SettingTold); and that without failed calls *)
(* setting, timeMode and NTP service agree at rest (Agreement, from        *)
(* NtpTold), so that the clock is then only set in Manual mode.  If users  *)
(* and administrators are patient too: that every step is one of TimeMode  *)
(* or leaves it unchanged (from AskedAlone).                               *)
(***************************************************************************)
EXTENDS TimeManager, TLAPS

USE TimeManagerAssumption

\* A signal sent to the daemon keeps the inbox a sequence of signals.
LEMMA SentType ==
    ASSUME NEW q \in Seq(Signal), NEW src \in {"settings", "timedate"}, NEW m \in Modes
    PROVE  Sent(q, src, m) \in Seq(Signal)
<1>1. [src |-> src, mode |-> m] \in Signal
    BY DEF Signal
<1>2. Append(q, [src |-> src, mode |-> m]) \in Seq(Signal)
    BY <1>1
<1> QED
    BY <1>2 DEF Sent

LEMMA InitType == Init => TypeOK
<1> SUFFICES ASSUME Init PROVE TypeOK
    OBVIOUS
<1>1. inbox \in Seq(Signal)
    BY DEF Init
<1>2. /\ setting \in Modes /\ service \in {"active", "inactive", "stopping"}
      /\ phase \in {"down", "subscribed", "read", "up"}
      /\ mode \in Modes \cup {NoMode} /\ timeMode \in Modes
      /\ sets \in Nat /\ edits \in Nat /\ admin \in Nat /\ crashes \in Nat
    BY DEF Init
<1>3. job \in BOOLEAN
    BY Zenon DEF Init
<1> QED
    BY <1>1, <1>2, <1>3 DEF TypeOK

LEMMA NextType == TypeOK /\ [Next]_vars => TypeOK'
<1> SUFFICES ASSUME TypeOK, [Next]_vars PROVE TypeOK'
    OBVIOUS
<1>0. NtpMode \in Modes
    BY DEF NtpMode, Modes
<1>1. CASE Subscribe
    BY <1>1 DEF Subscribe, TypeOK, external, budgets
<1>2. CASE ReadSetting
    BY <1>2 DEF ReadSetting, TypeOK, external, budgets
<1>3. CASE ForceMode
    BY <1>3 DEF ForceMode, onPropertyChanged, updateNtpSetting, setCurrentTimeMode, SetNTP,
                TypeOK, budgets
<1>4. CASE OnSettingsChanged
    <2>1. Tail(inbox) \in Seq(Signal)
        BY <1>4 DEF OnSettingsChanged, TypeOK
    <2> QED
        BY <1>4, <2>1 DEF OnSettingsChanged, onPropertyChanged, updateNtpSetting,
                          setCurrentTimeMode, SetNTP, TypeOK, budgets
<1>5. CASE OnTimedateChanged
    <2>1. Head(inbox) \in Signal /\ Tail(inbox) \in Seq(Signal)
        BY <1>5 DEF OnTimedateChanged, TypeOK
    <2>3. Head(inbox).mode \in Modes
        BY <2>1 DEF Signal
    <2>2. Sent(Tail(inbox), "settings", Head(inbox).mode) \in Seq(Signal)
        BY <2>1, <2>3, SentType
    <2> QED
        BY <1>5, <2>1, <2>2, <2>3 DEF OnTimedateChanged, PutSetting, setCurrentTimeMode, TypeOK,
                                budgets
<1>6. CASE JobDone
    <2>1. Sent(inbox, "timedate", NtpMode) \in Seq(Signal)
        BY <1>0, SentType DEF TypeOK
    <2> QED
        BY <1>6, <2>1 DEF JobDone, TypeOK, daemon, budgets
<1>7. CASE SetElapsed
    BY <1>7 DEF SetElapsed, TypeOK, external, budgets
<1>8. ASSUME NEW m \in Modes, UserEdit(m) PROVE TypeOK'
    <2>1. Sent(inbox, "settings", m) \in Seq(Signal)
        BY SentType DEF TypeOK
    <2> QED
        BY <1>8, <2>1 DEF UserEdit, PutSetting, TypeOK, daemon
<1>9. ASSUME NEW on \in BOOLEAN, AdminSetNTP(on) PROVE TypeOK'
    BY <1>9 DEF AdminSetNTP, SetNTP, TypeOK, daemon
<1>10. CASE Crash
    <2>1. inbox' \in Seq(Signal)
        BY <1>10 DEF Crash
    <2> QED
        BY <1>10, <2>1 DEF Crash, TypeOK, external
<1>11. CASE UNCHANGED vars
    BY <1>11 DEF vars, external, daemon, budgets, TypeOK
<1> QED
    BY <1>1, <1>2, <1>3, <1>4, <1>5, <1>6, <1>7, <1>8, <1>9, <1>10, <1>11
    DEF Next, Startup, Handler, Others

\* The variables have their types, whatever calls fail: TypeOK of the runs.
THEOREM TypeCorrect == Spec => []TypeOK
BY InitType, NextType, PTL DEF Spec

--------------------------------------------------------------------------------
(* What a queue of signals tells                                           *)

\* A signal sent last is what the queue tells of its source, and changes nothing for
\* the other source.
LEMMA AppendTells ==
    ASSUME NEW q \in Seq(Signal), NEW s \in Signal
    PROVE  /\ Tells(Append(q, s), s.src, s.mode) /\ ~Silent(Append(q, s), s.src)
           /\ \A src \in {"settings", "timedate"} \ {s.src} :
                 /\ \A m \in Modes : Tells(Append(q, s), src, m) <=> Tells(q, src, m)
                 /\ Silent(Append(q, s), src) <=> Silent(q, src)
<1> DEFINE r == Append(q, s)
<1>1. /\ Len(q) \in Nat /\ DOMAIN q = 1 .. Len(q) /\ DOMAIN r = 1 .. Len(q) + 1
      /\ r[Len(q) + 1] = s /\ \A i \in 1 .. Len(q) : r[i] = q[i]
    OBVIOUS
<1> HIDE DEF r
<1>2. Tells(r, s.src, s.mode) /\ ~Silent(r, s.src)
    BY <1>1 DEF Tells, Silent
<1>3. ASSUME NEW src \in {"settings", "timedate"} \ {s.src}
      PROVE  /\ \A m \in Modes : Tells(r, src, m) <=> Tells(q, src, m)
             /\ Silent(r, src) <=> Silent(q, src)
    BY <1>1 DEF Tells, Silent
<1> QED
    BY <1>2, <1>3 DEF r

\* What the queue tells of a source is still told when the head has been taken,
\* unless the head was the last word on it.
LEMMA TailTells ==
    ASSUME NEW q \in Seq(Signal), q # <<>>, NEW src \in {"settings", "timedate"},
           NEW m \in Modes, Tells(q, src, m)
    PROVE  /\ Tells(Tail(q), src, m)
           /\ Silent(Tail(q), src) /\ Head(q).src = src => Head(q).mode = m
           /\ Silent(Tail(q), src) /\ Head(q).src # src => Silent(q, src)
<1> DEFINE r == Tail(q)
<1>1. /\ Len(q) \in Nat \ {0} /\ DOMAIN q = 1 .. Len(q) /\ DOMAIN r = 1 .. Len(q) - 1
      /\ Head(q) = q[1] /\ \A i \in 1 .. Len(q) - 1 : r[i] = q[i + 1]
    OBVIOUS
<1> HIDE DEF r
<1>2. Tells(r, src, m)
    <2> SUFFICES ASSUME NEW i \in DOMAIN r, r[i].src = src,
                        \A j \in DOMAIN r : j > i => r[j].src # src
                 PROVE  r[i].mode = m
        BY DEF Tells
    <2>1. i + 1 \in DOMAIN q /\ q[i + 1] = r[i]
        BY <1>1
    <2>2. ASSUME NEW j \in DOMAIN q, j > i + 1 PROVE q[j].src # src
        <3>1. j - 1 \in DOMAIN r /\ j - 1 > i /\ r[j - 1] = q[j]
            BY <1>1, <2>2
        <3> QED
            BY <3>1
    <2> QED
        BY <2>1, <2>2 DEF Tells
<1>3. Silent(r, src) => \A i \in 2 .. Len(q) : q[i].src # src
    <2> SUFFICES ASSUME Silent(r, src), NEW i \in 2 .. Len(q) PROVE q[i].src # src
        OBVIOUS
    <2>1. i - 1 \in DOMAIN r /\ r[i - 1] = q[i]
        BY <1>1
    <2> QED
        BY <2>1 DEF Silent
<1>4. Silent(r, src) /\ Head(q).src = src => Head(q).mode = m
    BY <1>1, <1>3 DEF Tells
<1>5. Silent(r, src) /\ Head(q).src # src => Silent(q, src)
    BY <1>1, <1>3 DEF Silent
<1> QED
    BY <1>2, <1>4, <1>5 DEF r

--------------------------------------------------------------------------------
(* timeMode follows the stored setting                                     *)

\* What Properties.Set leaves in the inbox: it tells the setting it stored, provided
\* the inbox told the one before; of timedated it tells what it told before.
LEMMA PutTells ==
    ASSUME NEW q \in Seq(Signal), NEW m \in Modes, setting \in Modes, phase # "down",
           PutSetting(q, m), Tells(q, "settings", setting)
    PROVE  /\ inbox' \in Seq(Signal) /\ setting' = m
           /\ Tells(inbox', "settings", setting')
           /\ Silent(inbox', "settings") => Silent(q, "settings") /\ m = setting
           /\ \A n \in Modes : Tells(inbox', "timedate", n) <=> Tells(q, "timedate", n)
           /\ Silent(inbox', "timedate") <=> Silent(q, "timedate")
<1> DEFINE s == [src |-> "settings", mode |-> m]
<1>1. s \in Signal /\ s.src = "settings" /\ s.mode = m
    BY DEF Signal
<1>2. CASE m = setting
    BY <1>2 DEF PutSetting
<1>3. CASE m # setting
    <2>1. inbox' = Append(q, s) /\ setting' = m /\ Append(q, s) \in Seq(Signal)
        BY <1>1, <1>3 DEF PutSetting, Sent
    <2>2. /\ Tells(Append(q, s), s.src, s.mode) /\ ~Silent(Append(q, s), s.src)
          /\ \A src \in {"settings", "timedate"} \ {s.src} :
                /\ \A n \in Modes : Tells(Append(q, s), src, n) <=> Tells(q, src, n)
                /\ Silent(Append(q, s), src) <=> Silent(q, src)
        BY <1>1, AppendTells
    <2> HIDE DEF s
    <2> QED
        BY <1>1, <2>1, <2>2
<1> QED
    BY <1>2, <1>3

\* A report of timedated does the same for the NTP service.
LEMMA ReportTells ==
    ASSUME NEW q \in Seq(Signal), NEW m \in Modes, phase # "down",
           NEW n \in Modes
    PROVE  /\ Tells(Sent(q, "timedate", m), "timedate", m)
           /\ ~Silent(Sent(q, "timedate", m), "timedate")
           /\ Tells(Sent(q, "timedate", m), "settings", n) <=> Tells(q, "settings", n)
           /\ Silent(Sent(q, "timedate", m), "settings") <=> Silent(q, "settings")
<1> DEFINE s == [src |-> "timedate", mode |-> m]
<1>1. s \in Signal /\ s.src = "timedate" /\ s.mode = m
    BY DEF Signal
<1>2. Sent(q, "timedate", m) = Append(q, s)
    BY DEF Sent
<1>3. /\ Tells(Append(q, s), s.src, s.mode) /\ ~Silent(Append(q, s), s.src)
      /\ \A src \in {"settings", "timedate"} \ {s.src} :
            /\ \A k \in Modes : Tells(Append(q, s), src, k) <=> Tells(q, src, k)
            /\ Silent(Append(q, s), src) <=> Silent(q, src)
    BY <1>1, AppendTells
<1> HIDE DEF s
<1> QED
    BY <1>1, <1>2, <1>3

LEMMA EmptyTells ==
    ASSUME NEW src, NEW m PROVE Tells(<<>>, src, m) /\ Silent(<<>>, src)
BY DEF Tells, Silent

LEMMA SettingStep == TypeOK /\ SettingTold /\ [Next]_vars => SettingTold'
<1> SUFFICES ASSUME TypeOK, SettingTold, [Next]_vars PROVE SettingTold'
    OBVIOUS
<1>0. setting \in Modes /\ inbox \in Seq(Signal) /\ NtpMode \in Modes
    BY DEF TypeOK, NtpMode, Modes
<1>1. CASE Subscribe
    BY <1>1, EmptyTells DEF Subscribe, SettingTold, external
<1>2. CASE ReadSetting
    BY <1>2 DEF ReadSetting, SettingTold, external
<1>3. CASE ForceMode
    BY <1>3, <1>0 DEF ForceMode, onPropertyChanged, setCurrentTimeMode, SettingTold, TypeOK
<1>4. CASE OnSettingsChanged
    <2>1. /\ Tells(Tail(inbox), "settings", setting)
          /\ Silent(Tail(inbox), "settings") => Head(inbox).mode = setting
        BY <1>0, <1>4, TailTells DEF OnSettingsChanged, SettingTold
    <2>2. Head(inbox).mode \in Modes
        <3>1. Head(inbox) \in Signal
            BY <1>0, <1>4 DEF OnSettingsChanged
        <3> QED
            BY <3>1 DEF Signal
    <2>3. timeMode' = Head(inbox).mode
        BY <1>4, <2>2 DEF OnSettingsChanged, onPropertyChanged, setCurrentTimeMode, TypeOK,
                          Modes
    <2> QED
        BY <1>4, <2>1, <2>3 DEF OnSettingsChanged, SettingTold
<1>5. CASE OnTimedateChanged
    <2> DEFINE q == Tail(inbox)
               m == Head(inbox).mode
    <2>1. q \in Seq(Signal) /\ Head(inbox) \in Signal
        BY <1>0, <1>5 DEF OnTimedateChanged
    <2>2. m \in Modes
        BY <2>1 DEF Signal
    <2>3. /\ Tells(q, "settings", setting)
          /\ Silent(q, "settings") => Silent(inbox, "settings")
        BY <1>0, <1>5, TailTells DEF OnTimedateChanged, SettingTold
    <2>4. CASE PutSetting(q, m) /\ setCurrentTimeMode(m)
        <3>1. phase # "down"
            BY <1>5 DEF OnTimedateChanged
        <3>2. setting' = m /\ Tells(inbox', "settings", setting')
            BY <1>0, <2>1, <2>2, <2>3, <2>4, <3>1, PutTells
        <3>3. timeMode' = m
            BY <2>2, <2>4 DEF setCurrentTimeMode
        <3> QED
            BY <1>5, <3>2, <3>3 DEF OnTimedateChanged, SettingTold
    <2>5. CASE inbox' = q /\ UNCHANGED <<setting, timeMode>>
        BY <1>5, <2>3, <2>5 DEF OnTimedateChanged, SettingTold
    <2> QED
        BY <1>5, <2>4, <2>5 DEF OnTimedateChanged
<1>6. CASE JobDone
    <2>1. CASE phase = "down"
        BY <1>6, <2>1 DEF JobDone, Sent, SettingTold, daemon
    <2>2. CASE phase # "down"
        <3>1. /\ Tells(Sent(inbox, "timedate", NtpMode), "settings", setting)
                    <=> Tells(inbox, "settings", setting)
              /\ Silent(Sent(inbox, "timedate", NtpMode), "settings")
                    <=> Silent(inbox, "settings")
            BY <1>0, <2>2, ReportTells
        <3> QED
            BY <1>6, <2>2, <3>1 DEF JobDone, SettingTold, daemon
    <2> QED
        BY <2>1, <2>2
<1>7. CASE SetElapsed
    BY <1>7 DEF SetElapsed, SettingTold, external
<1>8. ASSUME NEW m \in Modes, UserEdit(m) PROVE SettingTold'
    <2>1. CASE phase = "down"
        BY <1>8, <2>1 DEF UserEdit, PutSetting, Sent, SettingTold, daemon
    <2>2. CASE phase # "down"
        <3>1. /\ setting' = m /\ Tells(inbox', "settings", setting')
              /\ Silent(inbox', "settings") => m = setting
            BY <1>0, <1>8, <2>2, PutTells DEF UserEdit, SettingTold
        <3> QED
            BY <1>8, <2>2, <3>1 DEF UserEdit, SettingTold, daemon
    <2> QED
        BY <2>1, <2>2
<1>9. ASSUME NEW on \in BOOLEAN, AdminSetNTP(on) PROVE SettingTold'
    BY <1>9 DEF AdminSetNTP, SettingTold, daemon
<1>10. CASE Crash
    BY <1>10 DEF Crash, SettingTold
<1>11. CASE UNCHANGED vars
    BY <1>11 DEF vars, external, daemon, SettingTold
<1> QED
    BY <1>1, <1>2, <1>3, <1>4, <1>5, <1>6, <1>7, <1>8, <1>9, <1>10, <1>11
    DEF Next, Startup, Handler, Others

\* Whatever calls of the daemon fail, timeMode is the stored setting once nothing is
\* under way (SettingFollowed of the runs), for every history of edits, jobs and restarts.
THEOREM SettingAlwaysFollowed == Spec => []SettingFollowed
<1>1. Init => SettingTold
    BY DEF Init, SettingTold
<1>2. SettingTold => SettingFollowed
    BY EmptyTells DEF SettingTold, SettingFollowed, Quiet
<1> QED
    BY <1>1, <1>2, SettingStep, TypeCorrect, PTL DEF Spec

--------------------------------------------------------------------------------
(* Agreement of the two services                                           *)

LEMMA NtpStep ==
    ASSUME CallFaults = {}
    PROVE  TypeOK /\ SettingTold /\ NtpTold /\ [Next]_vars => NtpTold'
<1> SUFFICES ASSUME TypeOK, SettingTold, NtpTold, [Next]_vars PROVE NtpTold'
    OBVIOUS
<1>0. setting \in Modes /\ inbox \in Seq(Signal) /\ NtpMode \in Modes
    BY DEF TypeOK, NtpMode, Modes
<1>a. ASSUME job', phase' \in {"read", "up"} => mode' # NoMode PROVE NtpTold'
    BY <1>a DEF NtpTold
<1>b. UNCHANGED service => NtpMode' = NtpMode
    BY DEF NtpMode
<1>1. CASE Subscribe
    BY <1>1 DEF Subscribe, NtpTold, external
<1>2. CASE ReadSetting
    BY <1>0, <1>2 DEF ReadSetting, NtpTold, external, Modes, NoMode
<1>3. CASE ForceMode
    <2>1. SetNTP(mode = "NTP")
        BY <1>3 DEF ForceMode, onPropertyChanged, updateNtpSetting
    <2> QED
        BY <1>3, <1>a, <2>1 DEF ForceMode, SetNTP, NtpTold
<1>4. CASE OnSettingsChanged
    <2>1. CASE UNCHANGED <<service, job, timeMode>>
        <3>1. Tells(inbox, "timedate", NtpMode) =>
                 /\ Tells(Tail(inbox), "timedate", NtpMode)
                 /\ Silent(Tail(inbox), "timedate") => Silent(inbox, "timedate")
            BY <1>0, <1>4, TailTells DEF OnSettingsChanged
        <3> QED
            BY <1>4, <1>b, <2>1, <3>1 DEF OnSettingsChanged, NtpTold
    <2>2. CASE ~UNCHANGED <<service, job, timeMode>>
        <3>1. job'
            BY <1>4, <2>2 DEF OnSettingsChanged, onPropertyChanged, updateNtpSetting, SetNTP
        <3> QED
            BY <1>4, <1>a, <3>1 DEF OnSettingsChanged, NtpTold
    <2> QED
        BY <2>1, <2>2
<1>5. CASE OnTimedateChanged
    <2> DEFINE q == Tail(inbox)
               m == Head(inbox).mode
    <2>1. q \in Seq(Signal) /\ Head(inbox) \in Signal
        BY <1>0, <1>5 DEF OnTimedateChanged
    <2>2. m \in Modes
        BY <2>1 DEF Signal
    <2>3. Tells(inbox, "timedate", NtpMode) =>
             /\ Tells(q, "timedate", NtpMode)
             /\ Silent(q, "timedate") => m = NtpMode
        BY <1>0, <1>5, TailTells DEF OnTimedateChanged
    <2>4. timeMode' = m
        BY <1>5, <2>2 DEF OnTimedateChanged, setCurrentTimeMode, TypeOK, Modes
    <2>5. /\ Tells(inbox', "timedate", NtpMode) <=> Tells(q, "timedate", NtpMode)
          /\ Silent(inbox', "timedate") <=> Silent(q, "timedate")
        <3>1. CASE PutSetting(q, m)
            <4>1. phase # "down"
                BY <1>5 DEF OnTimedateChanged
            <4>2. Tells(q, "settings", setting)
                BY <1>0, <1>5, TailTells DEF OnTimedateChanged, SettingTold
            <4> QED
                BY <1>0, <2>1, <2>2, <3>1, <4>1, <4>2, PutTells
        <3>2. CASE inbox' = q
            BY <3>2
        <3> QED
            BY <1>5, <3>1, <3>2 DEF OnTimedateChanged
    <2> HIDE DEF q, m
    <2> QED
        BY <1>5, <1>b, <2>3, <2>4, <2>5 DEF OnTimedateChanged, NtpTold
<1>6. CASE JobDone
    <2>1. NtpMode' = NtpMode
        BY <1>6 DEF JobDone, NtpMode, TypeOK
    <2>2. phase # "down" => /\ Tells(inbox', "timedate", NtpMode)
                            /\ ~Silent(inbox', "timedate")
        BY <1>0, <1>6, ReportTells DEF JobDone
    <2> QED
        BY <1>6, <2>1, <2>2 DEF JobDone, NtpTold, daemon, TypeOK
<1>7. CASE SetElapsed
    BY <1>7, <1>b DEF SetElapsed, NtpTold, external
<1>8. ASSUME NEW m \in Modes, UserEdit(m) PROVE NtpTold'
    <2>1. CASE phase = "down"
        BY <1>8, <2>1 DEF UserEdit, NtpTold, daemon
    <2>2. CASE phase # "down"
        <3>1. /\ Tells(inbox', "timedate", NtpMode) <=> Tells(inbox, "timedate", NtpMode)
              /\ Silent(inbox', "timedate") <=> Silent(inbox, "timedate")
            BY <1>0, <1>8, <2>2, PutTells DEF UserEdit, SettingTold
        <3> QED
            BY <1>8, <1>b, <2>2, <3>1 DEF UserEdit, NtpTold, daemon
    <2> QED
        BY <2>1, <2>2
<1>9. ASSUME NEW on \in BOOLEAN, AdminSetNTP(on) PROVE NtpTold'
    BY <1>9, <1>a DEF AdminSetNTP, SetNTP, NtpTold, daemon
<1>10. CASE Crash
    BY <1>10 DEF Crash, NtpTold, external
<1>11. CASE UNCHANGED vars
    BY <1>11, <1>b DEF vars, external, daemon, NtpTold
<1> QED
    BY <1>1, <1>2, <1>3, <1>4, <1>5, <1>6, <1>7, <1>8, <1>9, <1>10, <1>11
    DEF Next, Startup, Handler, Others

\* When no call fails, the newest signal of each service, or else the daemon, says what
\* that service's state is (InStepInv of the runs).
THEOREM InStepAlways ==
    ASSUME CallFaults = {}
    PROVE  Spec => []InStepInv
<1>1. Init => InStepInv
    BY InitType DEF Init, SettingTold, NtpTold, InStepInv
<1>2. InStepInv /\ [Next]_vars => InStepInv'
    BY NextType, SettingStep, NtpStep DEF InStepInv
<1> QED
    BY <1>1, <1>2, PTL DEF Spec

LEMMA InStepAgrees == InStepInv => Agreement
BY EmptyTells DEF InStepInv, TypeOK, SettingTold, NtpTold, Agreement, Quiet, NtpMode, Modes

\* When no call of the daemon fails, the stored setting, timeMode and the state of the
\* NTP service agree whenever nothing is under way (Agreement of the runs).
THEOREM AgreementAlways ==
    ASSUME CallFaults = {}
    PROVE  Spec => []Agreement
BY InStepAlways, InStepAgrees, PTL

\* Then Elapsed is only set, at rest, in Manual mode (SetOnlyInManual of the runs).
THEOREM SetOnlyInManualAlways ==
    ASSUME CallFaults = {}
    PROVE  Spec => SetOnlyInManual
<1>1. TypeOK /\ Agreement /\ [Next]_vars => [Quiet /\ sets' # sets => setting = "Manual"]_vars
    <2> SUFFICES ASSUME TypeOK, Agreement, [Next]_vars, Quiet, sets' # sets
                 PROVE  setting = "Manual"
        BY DEF vars
    <2>1. SetElapsed
        <3>1. Startup \/ Handler \/ JobDone \/ Others \/ Crash \/ UNCHANGED vars => sets' = sets
            BY DEF Startup, Subscribe, ReadSetting, ForceMode, Handler, OnSettingsChanged,
                   OnTimedateChanged, JobDone, Others, UserEdit, AdminSetNTP, Crash, vars, daemon
        <3> QED
            BY <3>1 DEF Next
    <2> QED
        BY <2>1 DEF SetElapsed, Agreement, TypeOK, Modes
<1> QED
    BY <1>1, TypeCorrect, AgreementAlways, PTL DEF Spec, SetOnlyInManual

--------------------------------------------------------------------------------
(* One mode: the refinement of TimeMode                                    *)

\* There are two modes.
LEMMA OtherMode ==
    ASSUME NEW m \in Modes, NEW n \in Modes, n # m
    PROVE  (CHOOSE x \in Modes : x # m) = n
BY DEF Modes

\* What waits in the tail of an inbox waits in the inbox.
LEMMA InTail ==
    ASSUME NEW q \in Seq(Signal), q # <<>>, NEW i \in DOMAIN Tail(q)
    PROVE  i + 1 \in DOMAIN q /\ Tail(q)[i] = q[i + 1]
OBVIOUS

LEMMA EmptySeq == ASSUME NEW q \in Seq(Signal), Len(q) = 0 PROVE q = <<>>
OBVIOUS

\* A job of SetNTP is on the way to the mode it was asked for.
LEMMA SetNTPMode ==
    ASSUME NEW m \in Modes, SetNTP(m = "NTP")
    PROVE  NtpMode' = m /\ job'
BY DEF SetNTP, NtpMode, Modes

LEMMA QuietNotAsked == Quiet => ~Asked /\ LastAsked = setting
BY DEF Quiet, Asked, LastAsked

LEMMA AskedAloneStep ==
    ASSUME Patient, CallFaults = {}
    PROVE  InStepInv /\ AskedAlone /\ [Next]_vars => AskedAlone'
<1> SUFFICES ASSUME InStepInv, AskedAlone, [Next]_vars PROVE AskedAlone'
    OBVIOUS
<1>0. /\ setting \in Modes /\ timeMode \in Modes /\ inbox \in Seq(Signal)
      /\ NtpMode \in Modes /\ admin \in Nat
    BY DEF InStepInv, TypeOK, NtpMode, Modes
<1>a. UNCHANGED service => NtpMode' = NtpMode
    BY DEF NtpMode
<1>b. ASSUME UNCHANGED <<setting, service, job, inbox>>
      PROVE  (Asked' <=> Asked) /\ NtpMode' = NtpMode
    BY <1>a, <1>b DEF Asked
<1>1. CASE Subscribe
    BY <1>1, <1>b DEF Subscribe, AskedAlone, external, budgets
<1>2. CASE ReadSetting
    BY <1>2, <1>b DEF ReadSetting, AskedAlone, external, budgets
<1>3. CASE ForceMode
    <2>1. mode = setting /\ ~Asked
        BY <1>3 DEF ForceMode, AskedAlone
    <2>2. SetNTP(setting = "NTP")
        BY <1>3, <2>1 DEF ForceMode, onPropertyChanged, updateNtpSetting
    <2>3. ~Asked'
        BY <1>3, <1>0, <2>1, <2>2, SetNTPMode DEF ForceMode, Asked
    <2> QED
        BY <1>3, <2>3 DEF ForceMode, AskedAlone
<1>4. CASE OnSettingsChanged
    <2>1. /\ inbox # <<>> /\ 1 \in DOMAIN inbox /\ Head(inbox) = inbox[1]
          /\ Head(inbox).src = "settings" /\ inbox' = Tail(inbox)
          /\ setting' = setting /\ phase = "up" /\ phase' = "up"
        BY <1>4, <1>0 DEF OnSettingsChanged
    <2>2. Head(inbox).mode = setting
        BY <2>1 DEF AskedAlone
    <2>3. ~Asked
        <3>1. ASSUME Asked PROVE \E i \in DOMAIN inbox : inbox[i].src = "timedate"
            BY <2>1, <3>1 DEF Asked, AskedAlone
        <3>2. Asked => DOMAIN inbox = {1}
            BY <1>0, <2>1 DEF AskedAlone
        <3> QED
            BY <2>1, <3>1, <3>2
    <2>4. \/ NtpMode' = setting
          \/ UNCHANGED <<service, job>>
        BY <1>0, <1>4, <2>2, SetNTPMode
        DEF OnSettingsChanged, onPropertyChanged, updateNtpSetting
    <2>5. ~Asked'
        BY <1>0, <1>a, <2>1, <2>3, <2>4, InTail DEF Asked
    <2> QED
        BY <1>0, <2>1, <2>5, InTail DEF AskedAlone
<1>5. CASE OnTimedateChanged
    <2> DEFINE q == Tail(inbox)
               m == Head(inbox).mode
    <2>1. /\ inbox # <<>> /\ 1 \in DOMAIN inbox /\ Head(inbox) = inbox[1]
          /\ Head(inbox).src = "timedate" /\ q \in Seq(Signal) /\ Head(inbox) \in Signal
          /\ phase = "up" /\ phase' = "up" /\ UNCHANGED <<service, job>>
        BY <1>5, <1>0 DEF OnTimedateChanged
    <2>2. m \in Modes
        BY <2>1 DEF Signal
    <2>3. \/ (m = "NTP") # (timeMode = "NTP") /\ PutSetting(q, m)
          \/ (m = "NTP") = (timeMode = "NTP") /\ inbox' = q /\ setting' = setting
        BY <1>5, Zenon DEF OnTimedateChanged
    <2>4. CASE m = setting
        <3>1. setting' = setting /\ inbox' = q
            BY <2>3, <2>4 DEF PutSetting
        <3>2. ~Asked
            <4>1. Asked => DOMAIN inbox = {1} /\ ~job
                BY <1>0, <2>1 DEF AskedAlone
            <4> QED
                BY <2>1, <2>4, <4>1 DEF Asked
        <3>3. ~Asked'
            BY <1>0, <1>a, <2>1, <3>1, <3>2, InTail DEF Asked
        <3> QED
            BY <1>0, <2>1, <3>1, <3>3, InTail DEF AskedAlone
    <2>5. CASE m # setting
        <3>1. Asked
            BY <2>1, <2>5 DEF Asked
        <3>2. timeMode = setting /\ ~job /\ Len(inbox) = 1
            BY <2>1, <3>1 DEF AskedAlone
        <3>3. q = <<>>
            <4>1. Len(q) = 0
                BY <1>0, <2>1, <3>2
            <4> HIDE DEF q
            <4> QED
                BY <2>1, <4>1, EmptySeq
        <3>4. PutSetting(q, m)
            BY <1>0, <2>2, <2>3, <2>5, <3>2 DEF Modes
        <3>5. setting' = m /\ inbox' = Append(q, [src |-> "settings", mode |-> m])
            BY <2>1, <2>5, <3>4 DEF PutSetting, Sent
        <3>6. \A i \in DOMAIN inbox' : inbox'[i].src = "settings" /\ inbox'[i].mode = setting'
            <4>1. inbox' = Append(<<>>, [src |-> "settings", mode |-> setting'])
                BY <3>3, <3>5
            <4> QED
                BY <4>1
        <3>7. ~Asked'
            BY <2>1, <3>2, <3>6 DEF Asked
        <3> QED
            BY <2>1, <3>6, <3>7 DEF AskedAlone
    <2> QED
        BY <2>4, <2>5
<1>6. CASE JobDone
    <2> DEFINE s == [src |-> "timedate", mode |-> NtpMode]
    <2>1. /\ job /\ ~job' /\ NtpMode' = NtpMode
          /\ UNCHANGED <<setting, phase, mode, timeMode, admin>>
        BY <1>6 DEF JobDone, NtpMode, InStepInv, TypeOK, daemon, budgets
    <2>2. inbox' = inbox \/ inbox' = Append(inbox, s)
        BY <1>6 DEF JobDone, Sent
    <2>3. s \in Signal /\ s.src = "timedate" /\ s.mode = NtpMode
        BY <1>0 DEF Signal
    <2>4. Asked => phase = "up" /\ inbox' = Append(inbox, s) /\ inbox = <<>>
        BY <1>6, <2>1 DEF AskedAlone, JobDone, Sent
    <2> HIDE DEF s
    <2>5. \A i \in DOMAIN inbox' : inbox'[i] = s \/ (i \in DOMAIN inbox /\ inbox'[i] = inbox[i])
        BY <1>0, <2>2, <2>3
    <2>6. Asked' => Asked
        BY <2>1, <2>3, <2>5 DEF Asked
    <2>7. Asked => Len(inbox') = 1
        BY <2>3, <2>4
    <2> QED
        BY <2>1, <2>3, <2>5, <2>6, <2>7 DEF AskedAlone
<1>7. CASE SetElapsed
    BY <1>7, <1>b DEF SetElapsed, AskedAlone, external, budgets
<1>8. ASSUME NEW m \in Modes, UserEdit(m) PROVE AskedAlone'
    <2>1. phase = "up" /\ ~job /\ inbox = <<>> /\ m # setting
        BY <1>8 DEF UserEdit, Quiet
    <2>2. setting' = m /\ inbox' = Append(<<>>, [src |-> "settings", mode |-> m]) /\ ~job'
          /\ phase' = "up"
        BY <1>8, <2>1 DEF UserEdit, PutSetting, Sent, daemon
    <2>3. \A i \in DOMAIN inbox' : inbox'[i].src = "settings" /\ inbox'[i].mode = setting'
        BY <2>2
    <2> QED
        BY <2>2, <2>3 DEF AskedAlone, Asked
<1>9. ASSUME NEW on \in BOOLEAN, AdminSetNTP(on) PROVE AskedAlone'
    <2>1. phase = "up" /\ inbox = <<>> /\ timeMode = setting
        <3>1. Quiet
            BY <1>9 DEF AdminSetNTP
        <3> QED
            BY <3>1, InStepAgrees DEF Agreement, Quiet
    <2>2. job' /\ admin' = admin + 1 /\ UNCHANGED <<setting, phase, mode, timeMode, inbox>>
        BY <1>9 DEF AdminSetNTP, SetNTP, daemon
    <2> QED
        BY <1>0, <2>1, <2>2 DEF AskedAlone, Asked
<1>10. CASE Crash
    <2>1. UNCHANGED <<setting, service, job, admin>> /\ inbox' = <<>> /\ phase' = "down"
        BY <1>10 DEF Crash, external
    <2>2. Asked => admin > 0 /\ Quiet
        BY <1>10 DEF Crash, AskedAlone
    <2>3. ~Asked'
        BY <1>a, <2>1, <2>2, QuietNotAsked DEF Asked
    <2> QED
        BY <2>1, <2>3 DEF AskedAlone
<1>11. CASE UNCHANGED vars
    BY <1>11, <1>b DEF vars, external, daemon, budgets, AskedAlone
<1> QED
    BY <1>1, <1>2, <1>3, <1>4, <1>5, <1>6, <1>7, <1>8, <1>9, <1>10, <1>11
    DEF Next, Startup, Handler, Others

LEMMA AskedAloneInvariant ==
    ASSUME Patient, CallFaults = {}
    PROVE  Spec => [](InStepInv /\ AskedAlone)
<1>1. Init => AskedAlone
    BY DEF Init, AskedAlone, Asked
<1> QED
    BY <1>1, AskedAloneStep, InStepAlways, PTL DEF Spec

\* The steps of users and administrators aside, no step changes the mode asked for last.
LEMMA LastAskedKept ==
    ASSUME Patient, CallFaults = {}, InStepInv, AskedAlone, AskedAlone',
           Startup \/ Handler \/ JobDone \/ SetElapsed \/ Crash
    PROVE  LastAsked' = LastAsked /\ (setting' = setting \/ admin > 0)
<1>0. /\ setting \in Modes /\ inbox \in Seq(Signal) /\ NtpMode \in Modes
      /\ timeMode \in Modes
    BY DEF InStepInv, TypeOK, NtpMode, Modes
<1>a. ASSUME UNCHANGED setting, Asked' <=> Asked PROVE LastAsked' = LastAsked
    BY <1>a DEF LastAsked
<1>b. ASSUME UNCHANGED <<setting, service, job, inbox>> PROVE LastAsked' = LastAsked
    BY <1>b, <1>a DEF Asked, NtpMode
<1>1. CASE Subscribe \/ ReadSetting \/ SetElapsed
    BY <1>1, <1>b DEF Subscribe, ReadSetting, SetElapsed, external
<1>2. CASE ForceMode \/ Crash
    <2>1. UNCHANGED setting /\ phase' \in {"up", "down"}
        BY <1>2 DEF ForceMode, Crash, external
    <2>2. CASE ForceMode
        <3>1. ~Asked /\ inbox' = inbox /\ mode = setting
            BY <2>2 DEF ForceMode, AskedAlone
        <3>2. SetNTP(setting = "NTP")
            BY <2>2, <3>1 DEF ForceMode, onPropertyChanged, updateNtpSetting
        <3>3. ~Asked'
            BY <1>0, <2>1, <3>1, <3>2, SetNTPMode DEF Asked
        <3> QED
            BY <1>a, <2>1, <3>1, <3>3
    <2>3. CASE Crash
        <3>1. ~Asked'
            BY <2>3 DEF Crash, AskedAlone
        <3>2. ~Asked
            BY <2>3, QuietNotAsked DEF Crash, AskedAlone
        <3> QED
            BY <1>a, <2>1, <3>1, <3>2
    <2> QED
        BY <1>2, <2>1, <2>2, <2>3
<1>3. CASE OnSettingsChanged
    <2>1. /\ UNCHANGED <<setting, admin>> /\ inbox # <<>> /\ inbox' = Tail(inbox)
          /\ 1 \in DOMAIN inbox /\ inbox[1].src = "settings" /\ phase' = "up"
        BY <1>0, <1>3 DEF OnSettingsChanged, budgets
    <2>2. ~Asked
        <3>1. Asked => ~job /\ DOMAIN inbox = {1}
            BY <1>0, <2>1 DEF AskedAlone
        <3> QED
            BY <2>1, <3>1 DEF Asked
    <2>3. inbox[1].mode = setting
        BY <2>1 DEF AskedAlone
    <2>4. NtpMode' = setting \/ UNCHANGED <<service, job>>
        BY <1>0, <1>3, <2>3, SetNTPMode
        DEF OnSettingsChanged, onPropertyChanged, updateNtpSetting
    <2>5. ~Asked'
        BY <1>0, <2>1, <2>2, <2>4, InTail DEF Asked, NtpMode
    <2> QED
        BY <1>a, <2>1, <2>2, <2>5
<1>4. CASE OnTimedateChanged
    <2> DEFINE q == Tail(inbox)
               m == Head(inbox).mode
    <2>1. /\ inbox # <<>> /\ 1 \in DOMAIN inbox /\ Head(inbox) = inbox[1]
          /\ Head(inbox).src = "timedate" /\ q \in Seq(Signal) /\ Head(inbox) \in Signal
          /\ phase = "up" /\ UNCHANGED <<service, job>>
        BY <1>4, <1>0 DEF OnTimedateChanged
    <2>2. m \in Modes
        BY <2>1 DEF Signal
    <2>3. \/ PutSetting(q, m)
          \/ inbox' = q /\ setting' = setting /\ (m = "NTP") = (timeMode = "NTP")
        BY <1>4, Zenon DEF OnTimedateChanged
    <2>4. CASE m = setting
        <3>1. setting' = setting /\ inbox' = q
            BY <2>3, <2>4 DEF PutSetting
        <3>2. ~Asked
            <4>1. Asked => DOMAIN inbox = {1} /\ ~job
                BY <1>0, <2>1 DEF AskedAlone
            <4> QED
                BY <2>1, <2>4, <4>1 DEF Asked
        <3>3. ~Asked'
            BY <1>0, <2>1, <3>1, <3>2, InTail DEF Asked, NtpMode
        <3> QED
            BY <1>a, <3>1, <3>2, <3>3
    <2>5. CASE m # setting
        <3>1. Asked
            BY <2>1, <2>5 DEF Asked
        <3>2. timeMode = setting /\ ~job /\ Len(inbox) = 1 /\ admin > 0
            BY <2>1, <3>1 DEF AskedAlone
        <3>3. PutSetting(q, m)
            BY <1>0, <2>2, <2>3, <2>5, <3>2 DEF Modes
        <3>4. setting' = m
            BY <3>3 DEF PutSetting
        <3>5. timeMode' = m
            BY <1>0, <1>4, <2>2, <2>5, <3>2
            DEF OnTimedateChanged, setCurrentTimeMode, Modes
        <3>6. Len(inbox') = 1 /\ inbox'[1].src = "settings"
            <4>1. inbox' = Append(q, [src |-> "settings", mode |-> m])
                BY <2>1, <2>5, <3>3 DEF PutSetting, Sent
            <4>2. Len(q) = 0
                BY <1>0, <2>1, <3>2
            <4> HIDE DEF q, m
            <4> QED
                BY <2>1, <4>1, <4>2
        <3>7. DOMAIN inbox' = {1}
            <4>1. inbox' \in Seq(Signal)
                <5>1. [src |-> "settings", mode |-> m] \in Signal
                    BY <2>2 DEF Signal
                <5>2. inbox' = Append(q, [src |-> "settings", mode |-> m])
                    BY <2>1, <2>5, <3>3 DEF PutSetting, Sent
                <5> HIDE DEF q, m
                <5> QED
                    BY <2>1, <5>1, <5>2
            <4> QED
                BY <3>6, <4>1
        <3>8. ~Asked'
            BY <2>1, <3>2, <3>6, <3>7 DEF Asked
        <3>9. LastAsked = m
            BY <1>0, <2>2, <2>5, <3>1, OtherMode DEF LastAsked
        <3> QED
            BY <3>2, <3>4, <3>8, <3>9 DEF LastAsked
    <2> QED
        BY <2>4, <2>5
<1>5. CASE JobDone
    <2> DEFINE s == [src |-> "timedate", mode |-> NtpMode]
    <2>1. job /\ ~job' /\ NtpMode' = NtpMode /\ UNCHANGED <<setting, phase, admin>>
        BY <1>5 DEF JobDone, NtpMode, InStepInv, TypeOK, daemon, budgets
    <2>2. phase = "up" => inbox' = Append(inbox, s)
        BY <1>5 DEF JobDone, Sent
    <2>3. s \in Signal /\ s.src = "timedate" /\ s.mode = NtpMode
        BY <1>0 DEF Signal
    <2> HIDE DEF s
    <2>4. inbox' = inbox \/ inbox' = Append(inbox, s)
        BY <1>5 DEF JobDone, Sent, s
    <2>5. Asked => Asked'
        <3>1. ASSUME Asked PROVE inbox' = Append(inbox, s) /\ NtpMode # setting
            BY <2>2, <3>1 DEF AskedAlone
        <3>2. Append(inbox, s)[Len(inbox) + 1] = s /\ Len(inbox) + 1 \in DOMAIN Append(inbox, s)
            BY <1>0, <2>3
        <3> QED
            BY <2>1, <2>3, <3>1, <3>2 DEF Asked
    <2>6. \A i \in DOMAIN inbox' :
             inbox'[i] = s \/ (i \in DOMAIN inbox /\ inbox'[i] = inbox[i])
        BY <1>0, <2>3, <2>4
    <2>7. Asked' => Asked
        BY <2>1, <2>3, <2>6 DEF Asked
    <2> QED
        BY <1>a, <2>1, <2>5, <2>7
<1> QED
    BY <1>1, <1>2, <1>3, <1>4, <1>5 DEF Startup, Handler, Subscribe, ReadSetting, SetElapsed,
       JobDone, external

\* Without others who change NTP, the daemon never changes the setting by itself, as long
\* as users wait until all is quiet (DaemonKeepsSetting of the runs).
THEOREM DaemonAlwaysKeepsSetting ==
    ASSUME Patient, CallFaults = {}
    PROVE  Spec => DaemonKeepsSetting
<1>1. InStepInv /\ AskedAlone /\ AskedAlone' /\ [Next]_vars
      => [setting' # setting /\ admin = 0 => edits' # edits]_vars
    <2> SUFFICES ASSUME InStepInv, AskedAlone, AskedAlone', Next, setting' # setting, admin = 0
                 PROVE  edits' # edits
        BY DEF vars
    <2>1. \A on \in BOOLEAN : ~AdminSetNTP(on)
        BY DEF AdminSetNTP
    <2>2. PICK m \in Modes : UserEdit(m)
        BY <2>1, LastAskedKept DEF Next, Others
    <2>3. edits \in Nat /\ edits' = edits + 1
        BY <2>2 DEF UserEdit, InStepInv, TypeOK
    <2> QED
        BY <2>3
<1> QED
    BY <1>1, AskedAloneInvariant, PTL DEF Spec, DaemonKeepsSetting

\* When no call fails and the others are patient, the daemon behaves as TimeMode says:
\* there is one mode, which only they change, and which all views follow.  (That they
\* come to do so, []<>settled, is liveness, which TLC checks.)
THEOREM KeepsOneMode ==
    ASSUME Patient, CallFaults = {}
    PROVE  Spec => Promise!Init /\ [][Promise!Next]_(Promise!vars)
<1>1. Init => Promise!Init
    <2> SUFFICES ASSUME Init PROVE Promise!Init
        OBVIOUS
    <2>1. ~Asked /\ ~Quiet /\ NtpMode \in Modes
        BY DEF Init, Asked, Quiet, NtpMode, Modes
    <2>2. setting \in Modes /\ timeMode \in Modes /\ sets = 0
        BY DEF Init
    <2> QED
        BY <2>1, <2>2 DEF Promise!Init, LastAsked
<1>2. InStepInv /\ InStepInv' /\ AskedAlone /\ AskedAlone' /\ [Next]_vars
      => [Promise!Next]_(Promise!vars)
    <2> SUFFICES ASSUME InStepInv, InStepInv', AskedAlone, AskedAlone', [Next]_vars
                 PROVE  Promise!Next \/ UNCHANGED Promise!vars
        OBVIOUS
    <2>1. /\ setting \in Modes /\ timeMode' \in Modes /\ setting' \in Modes
          /\ NtpMode' \in Modes /\ sets \in Nat
        BY DEF InStepInv, TypeOK, NtpMode, Modes
    <2>2. /\ Quiet => LastAsked = setting /\ timeMode = setting /\ NtpMode = setting
          /\ Quiet' => LastAsked' = setting' /\ timeMode' = setting' /\ NtpMode' = setting'
        BY InStepAgrees, QuietNotAsked DEF Agreement, InStepInv, SettingTold, NtpTold, Quiet,
           Asked, LastAsked, Tells, Silent
    <2>3. LastAsked' \in Modes
        <3>1. \A m \in Modes : \E n \in Modes : n # m
            BY DEF Modes
        <3> QED
            BY <2>1, <3>1 DEF LastAsked
    <2>4. CASE Startup \/ Handler \/ JobDone \/ Crash
        <3>1. LastAsked' = LastAsked /\ sets' = sets
            <4>1. sets' = sets
                BY <2>4 DEF Startup, Handler, Subscribe, ReadSetting, ForceMode,
                   OnSettingsChanged, OnTimedateChanged, JobDone, Crash, daemon
            <4> QED
                BY <2>4, <4>1, LastAskedKept
        <3>2. CASE ~Quiet'
            BY <2>1, <3>1, <3>2 DEF Promise!Next, Promise!Follow, Promise!Unsettled
        <3>3. CASE Quiet'
            <4>1. ~Quiet
                BY <2>4, <3>3 DEF Quiet, Startup, Handler, Subscribe, ReadSetting, ForceMode,
                   OnSettingsChanged, OnTimedateChanged, JobDone, Crash
            <4> QED
                BY <2>2, <3>1, <3>3, <4>1 DEF Promise!Next, Promise!Settle, Promise!Agree
        <3> QED
            BY <3>2, <3>3
    <2>5. CASE SetElapsed
        <3>1. sets' = sets + 1 /\ UNCHANGED <<setting, timeMode, service, job, inbox, phase>>
            BY <2>5 DEF SetElapsed, external
        <3>2. NtpMode = "Manual"
            BY <2>5 DEF SetElapsed, NtpMode
        <3>3. LastAsked' = LastAsked /\ Quiet' = Quiet /\ NtpMode' = NtpMode
            BY <3>1 DEF LastAsked, Asked, Quiet, NtpMode
        <3> QED
            BY <2>2, <3>1, <3>2, <3>3 DEF Promise!Next, Promise!SetClock, Promise!views
    <2>6. ASSUME Others PROVE Promise!Next
        <3>1. Quiet /\ sets' = sets
            BY <2>6 DEF Others, UserEdit, AdminSetNTP, daemon
        <3>2. ~Quiet'
            <4>1. ASSUME NEW m \in Modes, UserEdit(m) PROVE inbox' # <<>>
                <5>1. inbox' = Append(<<>>, [src |-> "settings", mode |-> m])
                    BY <3>1, <4>1 DEF UserEdit, PutSetting, Sent, Quiet
                <5> QED
                    BY <5>1
            <4>2. ASSUME NEW on \in BOOLEAN, AdminSetNTP(on) PROVE job'
                BY <4>2 DEF AdminSetNTP, SetNTP
            <4> QED
                BY <2>6, <4>1, <4>2 DEF Others, Quiet
        <3> QED
            BY <2>1, <2>3, <3>1, <3>2 DEF Promise!Next, Promise!Choose, Promise!Unsettled
    <2>7. CASE UNCHANGED vars
        <3>1. UNCHANGED <<setting, timeMode, service, job, inbox, phase, sets>>
            BY <2>7 DEF vars, external, daemon
        <3> QED
            BY <3>1 DEF Promise!vars, Promise!views, LastAsked, Asked, Quiet, NtpMode
    <2> QED
        BY <2>4, <2>5, <2>6, <2>7 DEF Next
<1> QED
    BY <1>1, <1>2, AskedAloneInvariant, PTL DEF Spec

--------------------------------------------------------------------------------
(* Patient users: every step of the daemon and of timedated brings rest nearer.    *)

\* A mode is asked of timedated when it is another than the stored one.
LEMMA AskedIff ==
    /\ TypeOK => (Asked <=> LastAsked # setting)
    /\ TypeOK' => (Asked' <=> LastAsked' # setting')
<1>1. \A m \in Modes : \E n \in Modes : n # m
    BY DEF Modes
<1>2. ASSUME TypeOK PROVE Asked <=> LastAsked # setting
    BY <1>1, <1>2 DEF TypeOK, LastAsked
<1>3. ASSUME TypeOK' PROVE Asked' <=> LastAsked' # setting'
    BY <1>1, <1>3 DEF TypeOK, LastAsked
<1> QED
    BY <1>2, <1>3

LEMMA BehindAloneStep ==
    ASSUME Patient, InStepInv, AskedAlone, AskedAlone', BehindAlone, [Next]_vars
    PROVE  BehindAlone'
<1>0. inbox \in Seq(Signal) /\ setting \in Modes /\ timeMode \in Modes
    BY DEF InStepInv, TypeOK
<1>1. CASE Subscribe \/ ReadSetting \/ Crash
    BY <1>1 DEF Subscribe, ReadSetting, Crash, BehindAlone, Behind
<1>2. CASE ForceMode
    <2>1. mode = setting /\ setting' = setting
        BY <1>2 DEF ForceMode, AskedAlone
    <2>2. timeMode' = setting
        BY <1>0, <1>2, <2>1 DEF ForceMode, onPropertyChanged, setCurrentTimeMode
    <2> QED
        BY <2>1, <2>2 DEF BehindAlone, Behind
<1>3. CASE OnSettingsChanged
    <2>1. /\ phase = "up" /\ setting' = setting /\ inbox # <<>> /\ 1 \in DOMAIN inbox
          /\ Head(inbox) = inbox[1] /\ Head(inbox).src = "settings"
        BY <1>0, <1>3 DEF OnSettingsChanged
    <2>2. Head(inbox).mode = setting
        BY <2>1 DEF AskedAlone
    <2>3. timeMode' = setting
        BY <1>0, <1>3, <2>1, <2>2
        DEF OnSettingsChanged, onPropertyChanged, setCurrentTimeMode, Modes
    <2> QED
        BY <2>1, <2>3 DEF BehindAlone, Behind
<1>4. CASE OnTimedateChanged
    <2> DEFINE m == Head(inbox).mode
    <2>1. /\ phase = "up" /\ inbox # <<>> /\ 1 \in DOMAIN inbox /\ Head(inbox) = inbox[1]
          /\ Head(inbox).src = "timedate" /\ Head(inbox) \in Signal
        BY <1>0, <1>4 DEF OnTimedateChanged
    <2>a. m \in Modes
        BY <2>1 DEF Signal
    <2>2. ~Behind
        <3>1. ASSUME Behind PROVE Silent(inbox, "settings")
            BY <1>0, <2>1, <3>1 DEF BehindAlone, Silent
        <3>2. mode # NoMode
            BY <2>1 DEF InStepInv, NtpTold
        <3> QED
            BY <2>1, <3>1, <3>2 DEF InStepInv, SettingTold, Behind
    <2>3. timeMode = setting
        BY <2>1, <2>2 DEF Behind
    <2>4. timeMode' = setting'
        BY <1>0, <1>4, <2>a, <2>3
        DEF OnTimedateChanged, PutSetting, setCurrentTimeMode, Modes
    <2> QED
        BY <2>4 DEF BehindAlone, Behind
<1>5. CASE JobDone
    BY <1>5 DEF JobDone, BehindAlone, Behind, daemon
<1>6. ASSUME NEW m \in Modes, UserEdit(m) PROVE BehindAlone'
    <2>1. phase = "up" /\ ~job /\ inbox = <<>> /\ m # setting /\ job' = job
        BY <1>6 DEF UserEdit, Quiet
    <2>2. inbox' = Append(<<>>, [src |-> "settings", mode |-> m])
        BY <1>6, <2>1 DEF UserEdit, PutSetting, Sent
    <2> QED
        BY <2>1, <2>2 DEF BehindAlone
<1>7. ASSUME NEW on \in BOOLEAN, AdminSetNTP(on) PROVE BehindAlone'
    <2>1. phase = "up" /\ timeMode = setting
        <3>1. Quiet
            BY <1>7 DEF AdminSetNTP
        <3> QED
            BY <3>1, InStepAgrees DEF Agreement, Quiet
    <2> QED
        BY <1>7, <2>1 DEF AdminSetNTP, BehindAlone, Behind, daemon
<1>8. CASE SetElapsed \/ UNCHANGED vars
    BY <1>8 DEF SetElapsed, vars, external, daemon, BehindAlone, Behind
<1> QED
    BY <1>1, <1>2, <1>3, <1>4, <1>5, <1>6, <1>7, <1>8 DEF Next, Startup, Handler, Others

\* What the terms of Unrest may be.
LEMMA UnrestTerms ==
    ASSUME TypeOK
    PROVE  /\ Len(inbox) \in Nat /\ StartCost \in Nat
           /\ Cost(job, 2) \in Nat /\ Cost(Behind, 2) \in Nat /\ Cost(Asked, 1) \in Nat
           /\ (job <=> Cost(job, 2) = 2) /\ (~job <=> Cost(job, 2) = 0)
           /\ (Behind <=> Cost(Behind, 2) = 2) /\ (~Behind <=> Cost(Behind, 2) = 0)
           /\ (Asked <=> Cost(Asked, 1) = 1) /\ (~Asked <=> Cost(Asked, 1) = 0)
           /\ phase = "up" <=> StartCost = 0
BY DEF TypeOK, Cost, StartCost

LEMMA UnrestTermsPrime ==
    ASSUME TypeOK'
    PROVE  /\ Len(inbox') \in Nat /\ StartCost' \in Nat
           /\ Cost(job, 2)' \in Nat /\ Cost(Behind, 2)' \in Nat /\ Cost(Asked, 1)' \in Nat
           /\ (job' <=> Cost(job, 2)' = 2) /\ (~job' <=> Cost(job, 2)' = 0)
           /\ (Behind' <=> Cost(Behind, 2)' = 2) /\ (~Behind' <=> Cost(Behind, 2)' = 0)
           /\ (Asked' <=> Cost(Asked, 1)' = 1) /\ (~Asked' <=> Cost(Asked, 1)' = 0)
           /\ phase' = "up" <=> StartCost' = 0
BY DEF TypeOK, Cost, StartCost

\* When no call fails and the others are patient, there is nothing left to do exactly when
\* all is quiet, and every step of the daemon or of timedated leaves less to do: the core
\* of ComesToRest, which adds that these steps are taken.
THEOREM AlwaysNearerToRest ==
    ASSUME Patient, CallFaults = {}
    PROVE  Spec => NearerToRest /\ [](Unrest \in Nat /\ (Unrest = 0 <=> Quiet))
<1> DEFINE Inv == InStepInv /\ AskedAlone /\ BehindAlone
<1>1. Init => BehindAlone
    BY DEF Init, BehindAlone, Behind
<1>2. InStepInv /\ AskedAlone /\ AskedAlone' /\ BehindAlone /\ [Next]_vars => BehindAlone'
    BY BehindAloneStep
<1>3. Inv => Unrest \in Nat /\ (Unrest = 0 <=> Quiet)
    <2> SUFFICES ASSUME Inv PROVE Unrest \in Nat /\ (Unrest = 0 <=> Quiet)
        OBVIOUS
    <2>0. TypeOK /\ inbox \in Seq(Signal) /\ Len(inbox) \in Nat
          /\ phase \in {"down", "subscribed", "read", "up"}
        BY DEF InStepInv, TypeOK
    <2>1. Unrest \in Nat
        BY <2>0, UnrestTerms DEF Unrest
    <2>2. ASSUME Unrest = 0 PROVE Quiet
        <3>1. phase = "up" /\ Len(inbox) = 0 /\ ~job
            BY <2>0, <2>2, UnrestTerms DEF Unrest
        <3> QED
            BY <2>0, <3>1, EmptySeq DEF Quiet
    <2>3. ASSUME Quiet PROVE Unrest = 0
        <3>1. ~Asked /\ ~Behind
            BY <2>3, QuietNotAsked, InStepAgrees DEF Agreement, Behind
        <3> QED
            BY <2>0, <2>3, <3>1, UnrestTerms DEF Quiet, Unrest
    <2> QED
        BY <2>1, <2>2, <2>3
<1>4. Inv /\ Inv' /\ [Next]_vars => [Startup \/ Handler \/ JobDone => Unrest' < Unrest]_vars
    <2> SUFFICES ASSUME Inv, Inv', Startup \/ Handler \/ JobDone PROVE Unrest' < Unrest
        OBVIOUS
    <2>0. /\ TypeOK /\ TypeOK' /\ inbox \in Seq(Signal) /\ inbox' \in Seq(Signal)
          /\ Len(inbox) \in Nat /\ Len(inbox') \in Nat
          /\ phase \in {"down", "subscribed", "read", "up"}
          /\ setting \in Modes /\ timeMode \in Modes
        BY DEF InStepInv, TypeOK
    <2>a. setting' = setting => (Asked' <=> Asked)
        BY <2>0, LastAskedKept, AskedIff
    <2>1. CASE Subscribe \/ ReadSetting
        <3>1. /\ UNCHANGED <<setting, job, inbox>> /\ StartCost' = StartCost - 1
              /\ ~Behind /\ ~Behind'
            BY <2>1 DEF Subscribe, ReadSetting, external, StartCost, Behind
        <3> QED
            BY <2>0, <2>a, <3>1, UnrestTerms, UnrestTermsPrime DEF Unrest
    <2>2. CASE ForceMode
        <3>1. mode = setting /\ setting' = setting /\ phase = "read" /\ phase' = "up"
              /\ inbox' = inbox
            BY <2>2 DEF ForceMode, AskedAlone
        <3>2. timeMode' = setting
            BY <2>0, <2>2, <3>1 DEF ForceMode, onPropertyChanged, setCurrentTimeMode
        <3> QED
            <4>1. ~Behind /\ ~Behind' /\ StartCost = 3 /\ StartCost' = 0
                BY <3>1, <3>2 DEF Behind, StartCost
            <4>2. Cost(job, 2)' <= 2
                BY <2>0, UnrestTermsPrime
            <4> QED
                BY <2>0, <2>a, <3>1, <4>1, <4>2, UnrestTerms, UnrestTermsPrime DEF Unrest
    <2>3. CASE OnSettingsChanged
        <3>1. /\ phase = "up" /\ phase' = "up" /\ setting' = setting /\ inbox # <<>>
              /\ Head(inbox) = inbox[1] /\ 1 \in DOMAIN inbox
              /\ Head(inbox).src = "settings" /\ inbox' = Tail(inbox)
            BY <2>0, <2>3 DEF OnSettingsChanged
        <3>2. Head(inbox).mode = setting
            BY <3>1 DEF AskedAlone
        <3>3. Len(inbox') = Len(inbox) - 1
            BY <2>0, <3>1
        <3>4. IF Behind THEN timeMode' = setting ELSE UNCHANGED <<job, timeMode>>
            BY <2>0, <2>3, <3>1, <3>2
            DEF OnSettingsChanged, onPropertyChanged, setCurrentTimeMode, Modes, Behind
        <3> QED
            <4>1. StartCost' = StartCost
                BY <3>1 DEF StartCost
            <4>2. Cost(Asked, 1)' = Cost(Asked, 1)
                BY <2>a, <3>1 DEF Cost
            <4>3. CASE Behind
                <5>1. ~Behind' /\ ~job
                    BY <3>1, <3>4, <4>3 DEF Behind, BehindAlone
                <5>2. Cost(Behind, 2) = 2 /\ Cost(Behind, 2)' = 0 /\ Cost(job, 2) = 0
                      /\ Cost(job, 2)' <= 2
                    BY <4>3, <5>1 DEF Cost
                <5> QED
                    BY <2>0, <3>3, <4>1, <4>2, <5>2, UnrestTerms, UnrestTermsPrime DEF Unrest
            <4>4. CASE ~Behind
                <5>1. Cost(Behind, 2)' = Cost(Behind, 2) /\ Cost(job, 2)' = Cost(job, 2)
                    BY <3>1, <3>4, <4>4 DEF Behind, Cost
                <5> QED
                    BY <2>0, <3>3, <4>1, <4>2, <5>1, UnrestTerms, UnrestTermsPrime DEF Unrest
            <4> QED
                BY <4>3, <4>4
    <2>4. CASE OnTimedateChanged
        <3> DEFINE m == Head(inbox).mode
        <3>1. /\ phase = "up" /\ phase' = "up" /\ job' = job /\ inbox # <<>>
              /\ 1 \in DOMAIN inbox /\ Head(inbox) = inbox[1] /\ Head(inbox) \in Signal
              /\ Head(inbox).src = "timedate" /\ Tail(inbox) \in Seq(Signal)
            BY <2>0, <2>4 DEF OnTimedateChanged
        <3>a. m \in Modes
            BY <3>1 DEF Signal
        <3>2. timeMode = setting
            <4>1. ASSUME Behind PROVE Silent(inbox, "settings")
                BY <2>0, <3>1, <4>1 DEF BehindAlone, Silent
            <4>2. mode # NoMode
                BY <3>1 DEF InStepInv, NtpTold
            <4> QED
                BY <3>1, <4>1, <4>2 DEF InStepInv, SettingTold, Behind
        <3>3. Len(Tail(inbox)) = Len(inbox) - 1
            BY <2>0, <3>1
        <3>4. timeMode' = setting'
            BY <2>0, <2>4, <3>a, <3>2
            DEF OnTimedateChanged, PutSetting, setCurrentTimeMode, Modes
        <3>5. ~Behind /\ ~Behind' /\ StartCost' = StartCost
            BY <3>1, <3>2, <3>4 DEF Behind, StartCost
        <3>6. CASE m = setting
            <4>1. setting' = setting /\ inbox' = Tail(inbox)
                BY <2>4, <3>6 DEF OnTimedateChanged, PutSetting
            <4>2. Cost(Asked, 1)' = Cost(Asked, 1)
                BY <2>a, <4>1 DEF Cost
            <4>3. Cost(Behind, 2)' = Cost(Behind, 2) /\ Cost(job, 2)' = Cost(job, 2)
                BY <3>1, <3>5 DEF Cost
            <4> QED
                BY <2>0, <3>3, <3>5, <4>1, <4>2, <4>3, UnrestTerms, UnrestTermsPrime DEF Unrest
        <3>7. CASE m # setting
            <4>1. Asked
                BY <3>1, <3>7 DEF Asked
            <4>2. PutSetting(Tail(inbox), m)
                BY <2>0, <2>4, <3>1, <3>2, <3>7, <3>a DEF OnTimedateChanged, Modes
            <4>3. setting' = m /\ inbox' = Append(Tail(inbox), [src |-> "settings", mode |-> m])
                BY <3>1, <3>7, <4>2 DEF PutSetting, Sent
            <4>4. Len(inbox') = Len(inbox)
                BY <3>1, <3>3, <4>3, <2>0
            <4>5. ~Asked'
                <5>1. LastAsked' = LastAsked /\ LastAsked \in Modes /\ LastAsked # setting
                    BY <2>0, <4>1, LastAskedKept, AskedIff, OtherMode DEF LastAsked
                <5> QED
                    BY <2>0, <3>a, <3>7, <4>3, <5>1, AskedIff DEF Modes
            <4>6. Cost(Asked, 1)' = 0 /\ Cost(Asked, 1) = 1
                BY <4>1, <4>5 DEF Cost
            <4>7. Cost(Behind, 2)' = Cost(Behind, 2) /\ Cost(job, 2)' = Cost(job, 2)
                BY <3>1, <3>5 DEF Cost
            <4> QED
                BY <2>0, <3>5, <4>4, <4>6, <4>7, UnrestTerms, UnrestTermsPrime DEF Unrest
        <3> QED
            BY <3>6, <3>7
    <2>5. CASE JobDone
        <3>1. job /\ ~job' /\ UNCHANGED <<setting, phase, timeMode>>
            BY <2>5 DEF JobDone, daemon
        <3>2. Len(inbox') <= Len(inbox) + 1
            BY <2>0, <2>5 DEF JobDone, Sent
        <3> QED
            <4>1. Cost(Behind, 2)' = Cost(Behind, 2) /\ StartCost' = StartCost
                BY <3>1 DEF Behind, StartCost
            <4>2. Cost(Asked, 1)' = Cost(Asked, 1)
                BY <2>a, <3>1 DEF Cost
            <4>3. Cost(job, 2) = 2 /\ Cost(job, 2)' = 0
                BY <3>1 DEF Cost
            <4> QED
                BY <2>0, <3>2, <4>1, <4>2, <4>3, UnrestTerms, UnrestTermsPrime DEF Unrest
    <2> QED
        BY <2>1, <2>2, <2>3, <2>4, <2>5 DEF Startup, Handler
<1>5. Spec => []Inv
    BY <1>1, <1>2, AskedAloneInvariant, PTL DEF Spec
<1> QED
    BY <1>3, <1>4, <1>5, PTL DEF Spec, NearerToRest

================================================================================
