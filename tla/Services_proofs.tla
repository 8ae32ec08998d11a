-------------------------- MODULE Services_proofs ---------------------------
(***************************************************************************)
(* The settings holder, the uptime checker, verification codes and         *)
(* messages to contacts: their inductive invariants and the properties     *)
(* that follow, for any number of processes, requests, consumers, jobs,    *)
(* restarts and failures; and every component of MCServices keeps its      *)
(* invariant when they run side by side.                                   *)
(***************************************************************************)
EXTENDS MCServices, InboxAndHub_proofs, FiniteSetTheorems, TLAPS

-----------------------------------------------------------------------------
(* SettingsHolder                                                          *)

\* A Get whose dictionary has become null since it found one has noticed a Fill.
NullNoticed ==
  \A r \in Requests :
    request[r].at \in {"contains", "index"} /\ settingsDic[request[r].host] = NoDictionary
      => request[r].beside

\* Who fills the dictionary of a host in current assigns what is in the table.
FillsFresh ==
  \A r \in Requests :
    request[r] # Ended /\ request[r].host \in current =>
      /\ request[r].at \in {"clear", "query"} /\ request[r].own # NoDictionary
           => request[r].own = table
      /\ request[r].at = "assign" => request[r].read = table

\* The context of a Get tracks nothing yet.
LooksFirst ==
  \A r \in Requests : request[r].at = "look" => request[r].own = NoDictionary

\* A Set brings a value.
SavesValue ==
  \A r \in Requests : request[r].at = "save" => request[r].own \in SettingValues

\* An old dictionary of such a host is about to be cleared.
OldIsCleared ==
  \A h \in current :
    \/ settingsDic[h] \in {table, NoDictionary}
    \/ \E r \in Requests : request[r] # Ended /\ request[r].host = h /\ request[r].at = "clear"

SettingsInv ==
  SettingsTypeOK /\ FailsOnlyBesideFill /\ NullNoticed /\ LooksFirst /\ SavesValue
  /\ FillsFresh /\ OldIsCleared

-----------------------------------------------------------------------------

LEMMA SettingsInitInv == ASSUME SettingsInit PROVE SettingsInv
<1>1. sets \in 0..MaxSets /\ table \in SettingValues /\ current \subseteq Hosts
  BY SettingsAssumption DEF SettingsInit
<1> QED
  BY <1>1 DEF SettingsInit, SettingsInv, SettingsTypeOK, FailsOnlyBesideFill, NullNoticed, LooksFirst,
     SavesValue, FillsFresh, OldIsCleared, Ended, Dictionary

LEMMA GetInv ==
  ASSUME SettingsInv, NEW r \in Requests, NEW h \in Hosts, GetSetting(r, h)
  PROVE  SettingsInv'
<1> PICK q : q = [at |-> "look", kind |-> "get", host |-> h, own |-> NoDictionary,
        read |-> NoDictionary, beside |-> FALSE] OBVIOUS
<1>1. q \in Request /\ q.at = "look" /\ q # Ended
  BY DEF Request, Dictionary, Ended
<1>2. request' = [request EXCEPT ![r] = q]
  BY DEF GetSetting
<1> QED
  BY <1>1, <1>2 DEF GetSetting, SettingsInv, SettingsTypeOK, FailsOnlyBesideFill, NullNoticed, LooksFirst,
     SavesValue, FillsFresh, OldIsCleared, Ended, Dictionary

LEMMA SetInv ==
  ASSUME SettingsInv, NEW r \in Requests, NEW h \in Hosts, NEW v \in SettingValues,
         SetSetting(r, h, v)
  PROVE  SettingsInv'
<1> PICK q : q = [at |-> "save", kind |-> "set", host |-> h, own |-> v,
        read |-> NoDictionary, beside |-> FALSE] OBVIOUS
<1>1. q \in Request /\ q.at = "save" /\ q # Ended
  BY DEF Request, Dictionary, Ended
<1>2. request' = [request EXCEPT ![r] = q] /\ sets' \in 0..MaxSets
  BY SettingsAssumption DEF SetSetting, SettingsInv, SettingsTypeOK
<1> QED
  BY <1>1, <1>2 DEF SetSetting, SettingsInv, SettingsTypeOK, FailsOnlyBesideFill, NullNoticed, LooksFirst,
     SavesValue, FillsFresh, OldIsCleared, Ended, Dictionary

LEMMA RequestShape ==
  ASSUME SettingsInv, NEW r \in Requests, request[r] # Ended
  PROVE  /\ request[r] \in Request /\ request[r].host \in Hosts
         /\ request[r].own \in Dictionary /\ request[r].read \in Dictionary
BY DEF SettingsInv, SettingsTypeOK, Request

\* A request that moves on to a step other than filling.
LEMMA LookInv ==
  ASSUME SettingsInv, NEW r \in Requests, Look(r)
  PROVE  SettingsInv'
<1>1. request[r] # Ended /\ request[r].at = "look"
  BY DEF Look, Does, Ended
<1>2. request[r] \in Request /\ request[r].host \in Hosts
  BY <1>1, RequestShape
<1> PICK q : q = [request[r] EXCEPT !.at =
                    IF settingsDic[request[r].host] = NoDictionary THEN "clear" ELSE "contains"]
  OBVIOUS
<1>3. /\ q \in Request /\ q # Ended /\ q.host = request[r].host
      /\ q.at \in {"clear", "contains"} /\ q.own = request[r].own
      /\ q.at = "contains" => settingsDic[q.host] # NoDictionary
  BY <1>2 DEF Request, Ended
<1>4. request' = [request EXCEPT ![r] = q]
  BY DEF Look, Moves
<1> QED
  BY <1>1, <1>2, <1>3, <1>4 DEF Look, SettingsInv, SettingsTypeOK, FailsOnlyBesideFill, NullNoticed, LooksFirst,
     SavesValue, FillsFresh, OldIsCleared, Ended, Dictionary

\* The other hosts of the new history have nobody filling and no dictionary.
LEMMA SaveInv ==
  ASSUME SettingsInv, NEW r \in Requests, SaveSetting(r)
  PROVE  SettingsInv'
<1>1. request[r] # Ended /\ request[r].at = "save"
  BY DEF SaveSetting, Does, Ended
<1>2. request[r] \in Request /\ request[r].host \in Hosts
  BY <1>1, RequestShape
<1>3. CASE request' = [request EXCEPT ![r] = Ended] /\ UNCHANGED <<table, current>>
  BY <1>1, <1>2, <1>3 DEF SaveSetting, SettingsInv, SettingsTypeOK, FailsOnlyBesideFill, NullNoticed, LooksFirst,
     SavesValue, FillsFresh, OldIsCleared, Ended, Dictionary
<1>4. CASE /\ table' = request[r].own /\ Moves(r, "clear")
           /\ current' = {h \in Hosts : /\ Filling(h) = {}
                                        /\ h = request[r].host \/ settingsDic[h] = NoDictionary}
  <2> PICK q : q = [request[r] EXCEPT !.at = "clear"]
    OBVIOUS
  <2>1. /\ q \in Request /\ q # Ended /\ q.host = request[r].host
        /\ q.at = "clear" /\ q.own = table'
    BY <1>2, <1>4 DEF Request, Ended
  <2>2. request' = [request EXCEPT ![r] = q]
    BY <1>4 DEF Moves
  <2>3. \A h \in current', p \in Requests :
           request[p] # Ended /\ request[p].host = h => request[p].at \notin {"clear", "query", "assign"}
    BY <1>4 DEF Filling
  <2>4. table' \in SettingValues
    BY <1>1, <1>2, <1>4 DEF Request, Dictionary, SettingsInv, SavesValue
  <2> QED
    BY <1>1, <1>2, <1>4, <2>1, <2>2, <2>3, <2>4 DEF SaveSetting, SettingsInv, SettingsTypeOK, FailsOnlyBesideFill, NullNoticed, LooksFirst,
     SavesValue, FillsFresh, OldIsCleared, Ended, Dictionary
<1> QED BY <1>3, <1>4 DEF SaveSetting

LEMMA ClearInv ==
  ASSUME SettingsInv, NEW r \in Requests, Clear(r)
  PROVE  SettingsInv'
<1>1. request[r] # Ended /\ request[r].at = "clear"
  BY DEF Clear, Does, Ended
<1>2. request[r] \in Request /\ request[r].host \in Hosts
  BY <1>1, RequestShape
<1> PICK q : q = [request[r] EXCEPT !.at = "query"]
  OBVIOUS
<1>3. /\ q \in Request /\ q # Ended /\ q.host = request[r].host
      /\ q.at = "query" /\ q.own = request[r].own
  BY <1>2 DEF Request, Ended
<1>4. /\ request'[r] = q /\ request' \in [Requests -> Request \cup {Ended}]
      /\ \A p \in Requests \ {r} :
            /\ request'[p] = Ended <=> request[p] = Ended
            /\ request[p] # Ended =>
                 /\ request'[p].at = request[p].at /\ request'[p].own = request[p].own
                 /\ request'[p].host = request[p].host /\ request'[p].read = request[p].read
                 /\ request[p].beside => request'[p].beside
                 /\ request[p].at \in {"contains", "index"} /\ request[p].host = request[r].host
                      => request'[p].beside
  BY <1>3, RequestShape DEF Clear, Request, Ended, SettingsInv, SettingsTypeOK
<1>5. /\ settingsDic' = [settingsDic EXCEPT ![request[r].host] = NoDictionary]
      /\ UNCHANGED <<table, sets, current, answered>>
  BY DEF Clear
<1>5a. Ended.at = "ended"
  BY DEF Ended
<1>6. /\ request'[r].at = "query" /\ request'[r] # Ended
      /\ \A p \in Requests : p # r => request'[p].at = request[p].at
  <2>1. ASSUME NEW p \in Requests, p # r PROVE request'[p].at = request[p].at
    <3>1. CASE request[p] = Ended
      BY <3>1, <2>1, <1>4
    <3>2. CASE request[p] # Ended
      BY <3>2, <2>1, <1>4
    <3> QED BY <3>1, <3>2
  <2> QED BY <2>1, <1>3, <1>4
<1>7. SettingsTypeOK'
  <2>1. \A p \in Requests : request'[p].at = "assign" => request'[p].read # NoDictionary
    <3> SUFFICES ASSUME NEW p \in Requests, request'[p].at = "assign"
                 PROVE  request'[p].read # NoDictionary
      OBVIOUS
    <3>1. p # r /\ request[p].at = "assign"
      BY <1>6
    <3>2. request[p] # Ended
      BY <3>1, <1>5a
    <3> QED BY <3>1, <3>2, <1>4 DEF SettingsInv, SettingsTypeOK
  <2>2. settingsDic' \in [Hosts -> Dictionary]
    BY <1>2, <1>5 DEF SettingsInv, SettingsTypeOK, Dictionary
  <2> QED BY <2>1, <2>2, <1>4, <1>5 DEF SettingsInv, SettingsTypeOK
<1>8. NullNoticed'
  <2> SUFFICES ASSUME NEW p \in Requests, request'[p].at \in {"contains", "index"},
                      settingsDic'[request'[p].host] = NoDictionary
               PROVE  request'[p].beside
    BY DEF NullNoticed
  <2>1. p # r /\ request[p] # Ended /\ request[p].at \in {"contains", "index"}
    BY <1>5a, <1>6
  <2>2. request[p] \in Request /\ request[p].host \in Hosts /\ request'[p].host = request[p].host
    BY <2>1, <1>4, RequestShape
  <2>3. CASE request[p].host = request[r].host
    BY <2>1, <2>3, <1>4
  <2>4. CASE request[p].host # request[r].host
    <3>1. settingsDic[request[p].host] = NoDictionary
      BY <2>2, <2>4, <1>2, <1>5 DEF SettingsInv, SettingsTypeOK
    <3> QED BY <3>1, <2>1, <1>4 DEF SettingsInv, NullNoticed
  <2> QED BY <2>3, <2>4
<1>9. LooksFirst' /\ SavesValue'
  <2>1. ASSUME NEW p \in Requests, request'[p].at \in {"look", "save"}
        PROVE  request'[p].at = request[p].at /\ request'[p].own = request[p].own
    BY <2>1, <1>4, <1>5a, <1>6
  <2> QED BY <2>1, <1>5 DEF SettingsInv, LooksFirst, SavesValue
<1>10. FillsFresh'
  <2> SUFFICES ASSUME NEW p \in Requests, request'[p] # Ended, request'[p].host \in current
               PROVE  /\ request'[p].at \in {"clear", "query"} /\ request'[p].own # NoDictionary
                           => request'[p].own = table
                      /\ request'[p].at = "assign" => request'[p].read = table
    BY <1>5 DEF FillsFresh
  <2>1. CASE p = r
    BY <2>1, <1>1, <1>3, <1>4 DEF SettingsInv, FillsFresh
  <2>2. CASE p # r
    BY <2>2, <1>4 DEF SettingsInv, FillsFresh
  <2> QED BY <2>1, <2>2
<1>11. FailsOnlyBesideFill'
  BY <1>5 DEF SettingsInv, FailsOnlyBesideFill
<1>12. OldIsCleared'
  BY <1>1, <1>2, <1>3, <1>4, <1>5 DEF SettingsInv, SettingsTypeOK, OldIsCleared
<1> QED BY <1>7, <1>8, <1>9, <1>10, <1>11, <1>12 DEF SettingsInv

LEMMA QueryInv ==
  ASSUME SettingsInv, NEW r \in Requests, Query(r)
  PROVE  SettingsInv'
<1>1. request[r] # Ended /\ request[r].at = "query"
  BY DEF Query, Does, Ended
<1>2. request[r] \in Request /\ request[r].host \in Hosts
  BY <1>1, RequestShape
<1> PICK q : q = [request[r] EXCEPT !.at = "assign",
              !.read = IF request[r].own = NoDictionary THEN table ELSE request[r].own]
  OBVIOUS
<1>3. /\ q \in Request /\ q # Ended /\ q.host = request[r].host
      /\ q.at = "assign" /\ q.read # NoDictionary
      /\ q.read = IF request[r].own = NoDictionary THEN table ELSE request[r].own
  BY <1>2, SettingsAssumption DEF Request, Ended, Dictionary, SettingsInv, SettingsTypeOK
<1>4. request' = [request EXCEPT ![r] = q]
  BY DEF Query
<1> QED
  BY <1>1, <1>2, <1>3, <1>4 DEF Query, SettingsInv, SettingsTypeOK, FailsOnlyBesideFill, NullNoticed, LooksFirst,
     SavesValue, FillsFresh, OldIsCleared, Ended, Dictionary

LEMMA AssignInv ==
  ASSUME SettingsInv, NEW r \in Requests, Assign(r)
  PROVE  SettingsInv'
<1>1. request[r] # Ended /\ request[r].at = "assign"
  BY DEF Assign, Does, Ended
<1>2. /\ request[r] \in Request /\ request[r].host \in Hosts
      /\ request[r].read \in Dictionary /\ request[r].read # NoDictionary
  BY <1>1, RequestShape DEF SettingsInv, SettingsTypeOK
<1> PICK q : q = IF request[r].kind = "get" THEN [request[r] EXCEPT !.at = "contains"] ELSE Ended
  OBVIOUS
<1>3. /\ q \in Request \cup {Ended} /\ q.at \in {"contains", "ended"}
      /\ q # Ended => q.host = request[r].host
      /\ q.at = "ended" <=> q = Ended
  BY <1>2 DEF Request, Ended
<1>4. request' = [request EXCEPT ![r] = q]
  BY DEF Assign, Moves
<1> QED
  BY <1>1, <1>2, <1>3, <1>4 DEF Assign, SettingsInv, SettingsTypeOK, FailsOnlyBesideFill, NullNoticed, LooksFirst,
     SavesValue, FillsFresh, OldIsCleared, Ended, Dictionary

LEMMA ContainsInv ==
  ASSUME SettingsInv, NEW r \in Requests, Contains(r)
  PROVE  SettingsInv'
<1>1. request[r] # Ended /\ request[r].at = "contains"
  BY DEF Contains, Does, Ended
<1>2. request[r] \in Request /\ request[r].host \in Hosts
  BY <1>1, RequestShape
<1>3. CASE settingsDic[request[r].host] = NoDictionary
  <2>1. /\ answered' = answered \cup {[value |-> NoDictionary, beside |-> TRUE]}
        /\ request' = [request EXCEPT ![r] = Ended]
    BY <1>1, <1>2, <1>3 DEF Contains, Answers, SettingsInv, NullNoticed, Request
  <2>2. SettingsTypeOK'
    <3>1. [value |-> NoDictionary, beside |-> TRUE] \in Outcome
      BY DEF Outcome, Dictionary
    <3> QED
      BY <3>1, <2>1 DEF Contains, SettingsInv, SettingsTypeOK, Ended
  <2>3. FailsOnlyBesideFill'
    BY <2>1 DEF SettingsInv, FailsOnlyBesideFill
  <2>4. NullNoticed' /\ LooksFirst' /\ SavesValue' /\ FillsFresh'
    BY <2>1 DEF Contains, SettingsInv, SettingsTypeOK, NullNoticed, LooksFirst, SavesValue,
       FillsFresh, Ended
  <2>5. OldIsCleared'
    BY <1>1, <2>1 DEF Contains, SettingsInv, SettingsTypeOK, OldIsCleared
  <2> QED BY <2>2, <2>3, <2>4, <2>5 DEF SettingsInv
<1>4. CASE settingsDic[request[r].host] # NoDictionary
  <2> PICK q : q = [request[r] EXCEPT !.at = "index"]
    OBVIOUS
  <2>1. q \in Request /\ q # Ended /\ q.host = request[r].host /\ q.at = "index"
    BY <1>2 DEF Request, Ended
  <2>2. request' = [request EXCEPT ![r] = q] /\ UNCHANGED answered
    BY <1>4 DEF Contains, Moves
  <2> QED
    BY <1>1, <1>2, <1>4, <2>1, <2>2 DEF Contains, SettingsInv, SettingsTypeOK, FailsOnlyBesideFill, NullNoticed, LooksFirst,
     SavesValue, FillsFresh, OldIsCleared, Ended, Dictionary
<1> QED BY <1>3, <1>4

LEMMA IndexInv ==
  ASSUME SettingsInv, NEW r \in Requests, Index(r)
  PROVE  SettingsInv'
<1>1. request[r] # Ended /\ request[r].at = "index"
  BY DEF Index, Does, Ended
<1>2. request[r] \in Request /\ request[r].host \in Hosts
  BY <1>1, RequestShape
<1> PICK a : a = [value |-> settingsDic[request[r].host], beside |-> request[r].beside]
  OBVIOUS
<1>3. a \in Outcome /\ (a.value = NoDictionary => a.beside)
  BY <1>1, <1>2 DEF SettingsInv, SettingsTypeOK, NullNoticed, Outcome, Request
<1>4. answered' = answered \cup {a} /\ request' = [request EXCEPT ![r] = Ended]
  BY DEF Index, Answers
<1> QED
  BY <1>1, <1>2, <1>3, <1>4 DEF Index, SettingsInv, SettingsTypeOK, FailsOnlyBesideFill, NullNoticed, LooksFirst,
     SavesValue, FillsFresh, OldIsCleared, Ended, Dictionary

LEMMA RestartInv ==
  ASSUME SettingsInv, NEW h \in Hosts, RestartHost(h)
  PROVE  SettingsInv'
<1>1. \A r \in Requests :
        \/ request'[r] = Ended
        \/ request'[r] = request[r] /\ request[r] # Ended /\ request[r].host # h
  BY DEF RestartHost
<1>2. /\ settingsDic' = [settingsDic EXCEPT ![h] = NoDictionary]
      /\ current' = current \cup {h} /\ UNCHANGED <<table, sets, answered>>
  BY DEF RestartHost
<1>3. request' \in [Requests -> Request \cup {Ended}]
  BY DEF RestartHost, SettingsInv, SettingsTypeOK
<1>4. OldIsCleared'
  <2>1. \A g \in current, r \in Requests :
           g # h /\ request[r] # Ended /\ request[r].host = g => request'[r] = request[r]
    BY DEF RestartHost
  <2> QED BY <1>2, <2>1 DEF SettingsInv, SettingsTypeOK, OldIsCleared
<1> QED
  BY <1>1, <1>2, <1>3, <1>4 DEF SettingsInv, SettingsTypeOK, FailsOnlyBesideFill, NullNoticed, LooksFirst,
     SavesValue, FillsFresh, OldIsCleared, Ended, Dictionary

LEMMA SettingsNextInv == SettingsInv /\ [SettingsNext]_settingsVars => SettingsInv'
<1> SUFFICES ASSUME SettingsInv, [SettingsNext]_settingsVars PROVE SettingsInv'
  OBVIOUS
<1>1. CASE UNCHANGED settingsVars
  BY <1>1 DEF settingsVars, Outcome, Filling, Request, SettingsInv, SettingsTypeOK, FailsOnlyBesideFill, NullNoticed, LooksFirst,
     SavesValue, FillsFresh, OldIsCleared, Ended, Dictionary
<1> QED
  BY <1>1, GetInv, SetInv, LookInv, SaveInv, ClearInv, QueryInv, AssignInv, ContainsInv,
     IndexInv, RestartInv DEF SettingsNext

\* SettingHolder.cs: the types of the table, the dictionaries and the requests;
\* what Fill assigns is never null.
THEOREM SettingsTypeCorrect == SettingsSpec => []SettingsTypeOK
<1>1. SettingsInv => SettingsTypeOK
  BY DEF SettingsInv
<1> QED BY <1>1, SettingsInitInv, SettingsNextInv, PTL DEF SettingsSpec

\* However many processes and requests there are: a process whose last Set was its
\* own, with nobody filling at the time, answers what is in the table once its
\* requests are done.
THEOREM SettingsFresh == SettingsSpec => []FreshAfterLoneSet
<1>1. SettingsInv => FreshAfterLoneSet
  BY DEF SettingsInv, OldIsCleared, FreshAfterLoneSet
<1> QED BY <1>1, SettingsInitInv, SettingsNextInv, PTL DEF SettingsSpec

\* However many processes and requests there are: a Get dereferences null only if
\* another request of its process filled the dictionary beside it.
THEOREM SettingsFails == SettingsSpec => []FailsOnlyBesideFill
<1>1. SettingsInv => FailsOnlyBesideFill
  BY DEF SettingsInv
<1> QED BY <1>1, SettingsInitInv, SettingsNextInv, PTL DEF SettingsSpec

-----------------------------------------------------------------------------
(* UptimeChecker                                                           *)

\* A job that runs was made.
RunningMade == \A r \in running : r.job \in 1..made

\* A job that waits, or that Hangfire would run again if its check died.
JobPending(j) == j \in scheduled \/ (j \notin deleted /\ \E r \in running : r.job = j)

\* Only a process that is up is remembered as the maker of a job.
MakersAlive == \A j \in JobId : madeBy[j] # 0 => madeBy[j] \in alive

\* A process whose checks neither overlapped nor failed has one check at a time ...
OneCheck ==
  \A r, s \in running :
    (r.host \in alone /\ r.host = s.host /\ r.at # "over" /\ s.at # "over") => r = s

\* ... knows the only job of its own that is left ...
KnowsItsJob ==
  \A h \in alone \cap alive, j \in JobId : madeBy[j] = h /\ JobPending(j) => j = jobName[h]

\* ... and has none between its Delete and its Schedule.
NoneBetween ==
  \A r \in running : r.host \in alone /\ r.at = "schedule" =>
    \A j \in JobId : madeBy[j] = r.host => ~JobPending(j)

CheckerTypes == CheckerTypeOK /\ RunningMade

Chains == MakersAlive /\ OneCheck /\ KnowsItsJob /\ NoneBetween

-----------------------------------------------------------------------------
(* CheckerTypes                                                                   *)

LEMMA CheckerTypesInit == ASSUME CheckerInit PROVE CheckerTypes
<1>1. /\ 0 \in 0..made /\ made \in 0..MaxChecks
      /\ hostStarts \in 0..MaxHostStarts /\ checkFaults \in 0..MaxCheckFaults
  BY CheckerAssumption DEF CheckerInit
<1>2. jobName \in [ApiHosts -> 0..made] /\ madeBy \in [JobId -> ApiHosts \cup {0}]
  BY <1>1 DEF CheckerInit
<1> QED BY <1>1, <1>2 DEF CheckerInit, CheckerTypes, CheckerTypeOK, RunningMade

LEMMA CheckShape ==
  ASSUME CheckerTypeOK, NEW r \in running
  PROVE  /\ r \in Check /\ r.host \in ApiHosts /\ r.host \in alive
         /\ r.job \in JobId /\ r.job \notin scheduled
         /\ jobName[r.host] \in 0..made
BY DEF CheckerTypeOK, Check

LEMMA MovesType ==
  ASSUME CheckerTypes, NEW r \in running, NEW s \in {"delete", "schedule", "over"},
         CheckMoves(r, s)
  PROVE  /\ running' \subseteq Check
         /\ \A q \in running' : \E p \in running : p.job = q.job /\ p.host = q.host
         /\ \A p, q \in running' : p.job = q.job => p = q
<1>1. /\ [r EXCEPT !.at = s] \in Check
      /\ [r EXCEPT !.at = s].job = r.job /\ [r EXCEPT !.at = s].host = r.host
  BY DEF CheckerTypes, CheckerTypeOK, Check
<1> QED BY <1>1 DEF CheckerTypes, CheckerTypeOK, CheckMoves

LEMMA CreatedType ==
  ASSUME CheckerTypes, NEW h \in ApiHosts, Created(h)
  PROVE  /\ made \in Nat /\ made' = made + 1 /\ made' \in 0..MaxChecks
         /\ made' \in JobId /\ made' \notin 1..made /\ 1..made \subseteq 1..made'
         /\ 0..made \subseteq 0..made' /\ made' \in 0..made' /\ made' \in 1..made'
         /\ scheduled' = scheduled \cup {made'} /\ scheduled' \subseteq 1..made'
         /\ madeBy' = [madeBy EXCEPT ![made'] = h]
         /\ madeBy' \in [JobId -> ApiHosts \cup {0}]
<1>1. made \in 0..MaxChecks /\ made < MaxChecks /\ made' = made + 1
  BY DEF CheckerTypes, CheckerTypeOK, Created
<1>2. made \in Nat /\ made' \in 0..MaxChecks /\ made' \in JobId
  BY <1>1, CheckerAssumption DEF JobId
<1>3. /\ made' \notin 1..made /\ 1..made \subseteq 1..made' /\ 0..made \subseteq 0..made'
      /\ made' \in 0..made' /\ made' \in 1..made'
  BY <1>1, <1>2
<1>4. scheduled' = scheduled \cup {made'} /\ madeBy' = [madeBy EXCEPT ![made'] = h]
  BY <1>1 DEF Created
<1> QED BY <1>1, <1>2, <1>3, <1>4 DEF CheckerTypes, CheckerTypeOK

LEMMA StartTypes == ASSUME CheckerTypes, NEW h \in ApiHosts, StartChecker(h) PROVE CheckerTypes'
<1>1. /\ 1..made \subseteq 1..made' /\ 0..made \subseteq 0..made'
      /\ made' \in 0..MaxChecks /\ made' \notin 1..made /\ made' \in 0..made'
      /\ made' = made + 1
      /\ scheduled' = scheduled \cup {made'} /\ scheduled' \subseteq 1..made'
      /\ madeBy' \in [JobId -> ApiHosts \cup {0}]
  BY CreatedType DEF StartChecker
<1>2. hostStarts' \in 0..MaxHostStarts
  BY CheckerAssumption DEF StartChecker, CheckerTypes, CheckerTypeOK
<1>3. jobName' \in [ApiHosts -> 0..made']
  BY <1>1 DEF StartChecker, CheckerTypes, CheckerTypeOK
<1> QED BY <1>1, <1>2, <1>3 DEF StartChecker, CheckerTypes, CheckerTypeOK, RunningMade

LEMMA BeginTypes ==
  ASSUME CheckerTypes, NEW h \in ApiHosts, NEW j \in scheduled, BeginCheck(h, j)
  PROVE  CheckerTypes'
<1> DEFINE n == [host |-> h, job |-> j, at |-> "delete"]
<1>1. j \in 1..made /\ j \in JobId
  BY CheckerAssumption DEF CheckerTypes, CheckerTypeOK, JobId
<1>2. n \in Check /\ n.job = j /\ n.host = h
  BY <1>1 DEF Check
<1>3. running' = running \cup {n} /\ h \in alive
  BY DEF BeginCheck
<1>4. /\ running' \subseteq Check
      /\ \A r \in running' : r.host \in alive /\ r.job \notin scheduled'
      /\ \A r, s \in running' : r.job = s.job => r = s
  BY <1>2, <1>3 DEF BeginCheck, CheckerTypes, CheckerTypeOK
<1>5. RunningMade'
  BY <1>1, <1>2, <1>3 DEF BeginCheck, CheckerTypes, RunningMade
<1> QED BY <1>4, <1>5 DEF BeginCheck, CheckerTypes, CheckerTypeOK

LEMMA DeleteTypes ==
  ASSUME CheckerTypes, NEW r \in running, DeletePrevious(r)
  PROVE  CheckerTypes'
<1>0. jobName[r.host] \in 0..made /\ made \in Nat
  BY CheckShape, CheckerAssumption DEF CheckerTypes, CheckerTypeOK
<1>1. {jobName[r.host]} \ {0} \subseteq 1..made
  BY <1>0
<1>2. /\ running' \subseteq Check
      /\ \A q \in running' : \E p \in running : p.job = q.job /\ p.host = q.host
      /\ \A p, q \in running' : p.job = q.job => p = q
  BY MovesType DEF DeletePrevious
<1>3. /\ scheduled' \subseteq scheduled /\ deleted' \subseteq 1..made
      /\ scheduled' \cap deleted' = {}
  <2>1. scheduled \subseteq 1..made /\ deleted \subseteq 1..made /\ scheduled \cap deleted = {}
    BY DEF CheckerTypes, CheckerTypeOK
  <2>2. /\ scheduled' = scheduled \ {jobName[r.host]}
        /\ deleted' = deleted \cup ({jobName[r.host]} \ {0})
    BY DEF DeletePrevious
  <2> QED BY <1>1, <2>1, <2>2
<1>4. RunningMade'
  BY <1>2 DEF DeletePrevious, CheckerTypes, RunningMade
<1> QED BY <1>2, <1>3, <1>4 DEF DeletePrevious, CheckerTypes, CheckerTypeOK

LEMMA ScheduleTypes ==
  ASSUME CheckerTypes, NEW r \in running, ScheduleNext(r)
  PROVE  CheckerTypes'
<1>1. r.host \in ApiHosts
  BY CheckShape DEF CheckerTypes
<1>2. /\ 1..made \subseteq 1..made' /\ 0..made \subseteq 0..made'
      /\ made' \in 0..MaxChecks /\ made' \notin 1..made /\ made' \in 0..made'
      /\ made' = made + 1
      /\ scheduled' = scheduled \cup {made'} /\ scheduled' \subseteq 1..made'
      /\ madeBy' \in [JobId -> ApiHosts \cup {0}]
  BY <1>1, CreatedType DEF ScheduleNext
<1>3. /\ running' \subseteq Check
      /\ \A q \in running' : \E p \in running : p.job = q.job /\ p.host = q.host
      /\ \A p, q \in running' : p.job = q.job => p = q
  BY MovesType DEF ScheduleNext
<1>4. jobName' \in [ApiHosts -> 0..made']
  BY <1>1, <1>2 DEF ScheduleNext, CheckerTypes, CheckerTypeOK
<1>5. RunningMade'
  BY <1>2, <1>3 DEF CheckerTypes, RunningMade
<1>6. \A q \in running' : q.host \in alive /\ q.job \notin scheduled'
  BY <1>2, <1>3 DEF CheckerTypes, CheckerTypeOK, RunningMade
<1> QED BY <1>2, <1>3, <1>4, <1>5, <1>6 DEF ScheduleNext, CheckerTypes, CheckerTypeOK

LEMMA EndTypes ==
  ASSUME CheckerTypes, NEW r \in running, EndCheck(r)
  PROVE  CheckerTypes'
BY DEF EndCheck, CheckerTypes, CheckerTypeOK, RunningMade

LEMMA FailsTypes ==
  ASSUME CheckerTypes, NEW r \in running, StorageFails(r)
  PROVE  CheckerTypes'
<1>1. /\ r.host \in ApiHosts /\ r.job \in 1..made /\ r.job \notin scheduled
      /\ jobName[r.host] \in 0..made /\ made \in Nat
  BY CheckShape, CheckerAssumption DEF CheckerTypes, CheckerTypeOK, RunningMade
<1>2. running' = running \ {r} /\ \A q \in running' : q.job # r.job
  BY DEF StorageFails, CheckerTypes, CheckerTypeOK
<1>3. checkFaults' \in 0..MaxCheckFaults /\ alone' \subseteq ApiHosts
      /\ UNCHANGED <<jobName, alive, hostStarts>>
  BY CheckerAssumption DEF StorageFails, CheckerTypes, CheckerTypeOK
<1>4. Rerun({r}) = {r.job} \ deleted
  BY DEF Rerun
<1>5. CASE /\ scheduled' = scheduled \cup Rerun({r}) /\ dead' = (dead \/ Dies({r}))
           /\ UNCHANGED <<deleted, made, madeBy>>
  <2>1. dead' \in BOOLEAN
    BY <1>5 DEF Dies, CheckerTypes, CheckerTypeOK
  <2> QED BY <1>1, <1>2, <1>3, <1>4, <1>5, <2>1 DEF CheckerTypes, CheckerTypeOK, RunningMade
<1>6. CASE /\ deleted' = deleted \cup ({jobName[r.host]} \ {0})
           /\ scheduled' = (scheduled \cup {r.job}) \ deleted'
           /\ dead' = (dead \/ r.job \in deleted')
           /\ UNCHANGED <<made, madeBy>>
  <2>0. {jobName[r.host]} \ {0} \subseteq 1..made
    BY <1>1
  <2>1. deleted' \subseteq 1..made
    BY <1>6, <2>0 DEF CheckerTypes, CheckerTypeOK
  <2> QED BY <1>1, <1>2, <1>3, <1>6, <2>1 DEF CheckerTypes, CheckerTypeOK, RunningMade
<1>7. CASE /\ made < MaxChecks /\ made' = made + 1
           /\ scheduled' = scheduled \cup {made + 1} \cup Rerun({r})
           /\ madeBy' = [madeBy EXCEPT ![made + 1] = r.host]
           /\ UNCHANGED <<deleted, dead>>
  <2>1. made \in Nat /\ made' \in 0..MaxChecks /\ 0..made \subseteq 0..made'
        /\ 1..made \subseteq 1..made' /\ made' \notin 1..made /\ made' \in 1..made'
    BY <1>7, CheckerAssumption DEF CheckerTypes, CheckerTypeOK
  <2>2. madeBy' \in [JobId -> ApiHosts \cup {0}]
    BY <1>1, <1>7 DEF CheckerTypes, CheckerTypeOK
  <2>3. /\ scheduled' \subseteq 1..made' /\ scheduled' \cap deleted = {}
        /\ \A q \in running' : q.job \notin scheduled'
    <3>1. scheduled' = (scheduled \cup {made'}) \cup ({r.job} \ deleted)
      BY <1>4, <1>7
    <3>2. /\ scheduled \subseteq 1..made /\ deleted \subseteq 1..made
          /\ scheduled \cap deleted = {} /\ \A q \in running : q.job \notin scheduled
          /\ \A q \in running : q.job \in 1..made
      BY DEF CheckerTypes, CheckerTypeOK, RunningMade
    <3> QED BY <1>1, <1>2, <2>1, <3>1, <3>2
  <2> QED BY <1>1, <1>2, <1>3, <1>7, <2>1, <2>2, <2>3 DEF CheckerTypes, CheckerTypeOK, RunningMade
<1> QED BY <1>5, <1>6, <1>7 DEF StorageFails

LEMMA StopTypes ==
  ASSUME CheckerTypes, NEW h \in ApiHosts, StopChecker(h)
  PROVE  CheckerTypes'
<1> DEFINE mine == {r \in running : r.host = h}
<1>1. running' = running \ mine /\ Rerun(mine) \subseteq 1..made \ deleted
  BY DEF StopChecker, Rerun, CheckerTypes, RunningMade
<1>2. \A q \in running' : q.job \notin Rerun(mine) /\ q.host \in alive'
  BY <1>1 DEF Rerun, StopChecker, CheckerTypes, CheckerTypeOK
<1>3. dead' \in BOOLEAN
  BY DEF StopChecker, Dies, CheckerTypes, CheckerTypeOK
<1>4. madeBy' \in [JobId -> ApiHosts \cup {0}] /\ jobName' \in [ApiHosts -> 0..made]
  BY CheckerAssumption DEF StopChecker, CheckerTypes, CheckerTypeOK
<1>5. RunningMade'
  BY <1>1 DEF StopChecker, CheckerTypes, RunningMade
<1>6. scheduled' = scheduled \cup Rerun(mine)
  BY DEF StopChecker
<1>7. \A q \in running' : q.job \notin scheduled'
  BY <1>1, <1>2, <1>6 DEF CheckerTypes, CheckerTypeOK
<1>8. scheduled' \subseteq 1..made /\ scheduled' \cap deleted = {}
  BY <1>1, <1>6 DEF CheckerTypes, CheckerTypeOK
<1> HIDE DEF mine
<1> QED BY <1>1, <1>2, <1>3, <1>4, <1>5, <1>7, <1>8 DEF StopChecker, CheckerTypes, CheckerTypeOK

-----------------------------------------------------------------------------
(* Chains of checks                                                        *)

LEMMA StartChains ==
  ASSUME CheckerTypes, Chains, NEW h \in ApiHosts, StartChecker(h)
  PROVE  Chains'
<1>1. /\ made' \in JobId /\ scheduled' = scheduled \cup {made'}
      /\ madeBy' = [madeBy EXCEPT ![made'] = h] /\ made' = made + 1
      /\ made' \notin 1..made
  BY CreatedType DEF StartChecker
<1>2. /\ h \notin alive /\ alive' = alive \cup {h}
      /\ jobName' = [jobName EXCEPT ![h] = made'] /\ UNCHANGED <<deleted, running, alone>>
  BY <1>1 DEF StartChecker
<1>3. \A j \in JobId : JobPending(j)' => JobPending(j) \/ j = made'
  BY <1>1, <1>2 DEF JobPending
<1>4. /\ jobName'[h] = made' /\ \A g \in ApiHosts \ {h} : jobName'[g] = jobName[g]
      /\ madeBy'[made'] = h /\ \A j \in JobId \ {made'} : madeBy'[j] = madeBy[j]
  BY <1>1, <1>2 DEF CheckerTypes, CheckerTypeOK
<1>5. \A j \in JobId : madeBy[j] # h
  BY <1>2, CheckerAssumption DEF Chains, MakersAlive
<1>6. alone \subseteq ApiHosts /\ alive \subseteq ApiHosts
  BY DEF CheckerTypes, CheckerTypeOK
<1>7. MakersAlive'
  BY <1>2, <1>4 DEF Chains, MakersAlive
<1>8. OneCheck'
  BY <1>2 DEF Chains, OneCheck
<1>9. KnowsItsJob'
  <2> SUFFICES ASSUME NEW g \in alone' \cap alive', NEW j \in JobId,
                      madeBy'[j] = g, JobPending(j)'
               PROVE  j = jobName'[g]
    BY DEF KnowsItsJob
  <2>1. CASE j = made'
    BY <2>1, <1>4
  <2>2. CASE j # made'
    <3>1. madeBy[j] = g /\ JobPending(j) /\ g # h
      BY <2>2, <1>3, <1>4, <1>5
    <3>2. g \in alone \cap alive /\ g \in ApiHosts
      BY <3>1, <1>2, <1>6
    <3> QED BY <3>1, <3>2, <1>4 DEF Chains, KnowsItsJob
  <2> QED BY <2>1, <2>2
<1>10. NoneBetween'
  <2> SUFFICES ASSUME NEW r \in running', r.host \in alone', r.at = "schedule",
                      NEW j \in JobId, madeBy'[j] = r.host, JobPending(j)'
               PROVE  FALSE
    BY DEF NoneBetween
  <2>1. r \in running /\ r.host \in alone /\ r.host \in alive /\ r.host # h
    BY <1>2, CheckShape DEF CheckerTypes
  <2>2. j # made' /\ madeBy[j] = r.host
    BY <2>1, <1>4
  <2>3. JobPending(j)
    BY <2>2, <1>3
  <2> QED BY <2>1, <2>2, <2>3 DEF Chains, NoneBetween
<1> QED BY <1>7, <1>8, <1>9, <1>10 DEF Chains

LEMMA BeginChains ==
  ASSUME CheckerTypes, Chains, NEW h \in ApiHosts, NEW j \in scheduled, BeginCheck(h, j)
  PROVE  Chains'
<1> DEFINE n == [host |-> h, job |-> j, at |-> "delete"]
<1>1. /\ scheduled' = scheduled \ {j} /\ running' = running \cup {n} /\ alone' \subseteq alone
      /\ UNCHANGED <<jobName, deleted, madeBy, alive>>
  BY DEF BeginCheck
<1>2. h \in alone' => \A r \in running : r.host = h => r.at = "over"
  BY DEF BeginCheck
<1>3. \A i \in JobId : JobPending(i)' => JobPending(i)
  BY <1>1 DEF JobPending
<1>4. MakersAlive'
  BY <1>1 DEF Chains, MakersAlive
<1>5. OneCheck'
  <2> SUFFICES ASSUME NEW r \in running', NEW s \in running', r.host \in alone',
                      r.host = s.host, r.at # "over", s.at # "over"
               PROVE  r = s
    BY DEF OneCheck
  <2>1. CASE r \in running /\ s \in running
    BY <2>1, <1>1 DEF Chains, OneCheck
  <2>2. CASE r = n \/ s = n
    BY <2>2, <1>1, <1>2
  <2> QED BY <2>1, <2>2, <1>1
<1>6. KnowsItsJob'
  BY <1>1, <1>3 DEF Chains, KnowsItsJob
<1>7. NoneBetween'
  BY <1>1, <1>3 DEF Chains, NoneBetween
<1> QED BY <1>4, <1>5, <1>6, <1>7 DEF Chains

\* A check that moves is a check of the same process for the same job.
LEMMA MovesHost ==
  ASSUME CheckerTypes, NEW r \in running, NEW s, CheckMoves(r, s)
  PROVE  \E n : /\ running' = (running \ {r}) \cup {n}
                /\ n.host = r.host /\ n.job = r.job /\ n.at = s
<1> DEFINE n == [r EXCEPT !.at = s]
<1>1. n.host = r.host /\ n.job = r.job /\ n.at = s
  BY DEF CheckerTypes, CheckerTypeOK, Check
<1>2. running' = (running \ {r}) \cup {n}
  BY DEF CheckMoves
<1> HIDE DEF n
<1> QED BY <1>1, <1>2

LEMMA DeleteChains ==
  ASSUME CheckerTypes, Chains, NEW r \in running, DeletePrevious(r)
  PROVE  Chains'
<1>1. PICK n : /\ running' = (running \ {r}) \cup {n}
               /\ n.host = r.host /\ n.job = r.job /\ n.at = "schedule"
  BY MovesHost DEF DeletePrevious
<1>2. /\ r.at = "delete" /\ scheduled' = scheduled \ {jobName[r.host]}
      /\ deleted' = deleted \cup ({jobName[r.host]} \ {0})
      /\ UNCHANGED <<jobName, madeBy, alive, alone>>
  BY DEF DeletePrevious
<1>3. r.host \in alive
  BY CheckShape DEF CheckerTypes
<1>4. \A j \in JobId : JobPending(j)' => JobPending(j) /\ j # jobName[r.host]
  <2>1. \A j \in JobId : j # 0
    BY DEF JobId
  <2> QED BY <2>1, <1>1, <1>2 DEF JobPending
<1>5. MakersAlive'
  BY <1>2 DEF Chains, MakersAlive
<1>6. OneCheck'
  BY <1>1, <1>2 DEF Chains, OneCheck
<1>7. KnowsItsJob'
  BY <1>2, <1>4 DEF Chains, KnowsItsJob
<1>8. NoneBetween'
  <2> SUFFICES ASSUME NEW q \in running', q.host \in alone', q.at = "schedule",
                      NEW j \in JobId, madeBy'[j] = q.host, JobPending(j)'
               PROVE  FALSE
    BY DEF NoneBetween
  <2>1. CASE q = n
    BY <2>1, <1>1, <1>2, <1>3, <1>4 DEF Chains, KnowsItsJob
  <2>2. CASE q \in running
    BY <2>2, <1>2, <1>4 DEF Chains, NoneBetween
  <2> QED BY <2>1, <2>2, <1>1
<1> QED BY <1>5, <1>6, <1>7, <1>8 DEF Chains

LEMMA ScheduleChains ==
  ASSUME CheckerTypes, Chains, NEW r \in running, ScheduleNext(r)
  PROVE  Chains'
<1>0. r.host \in ApiHosts /\ r.host \in alive
  BY CheckShape DEF CheckerTypes
<1>1. PICK n : /\ running' = (running \ {r}) \cup {n}
               /\ n.host = r.host /\ n.job = r.job /\ n.at = "over"
  BY MovesHost DEF ScheduleNext
<1>2. /\ made' \in JobId /\ scheduled' = scheduled \cup {made'}
      /\ madeBy' = [madeBy EXCEPT ![made'] = r.host] /\ made' = made + 1
      /\ made' \notin 1..made
  BY <1>0, CreatedType DEF ScheduleNext
<1>3. /\ r.at = "schedule" /\ jobName' = [jobName EXCEPT ![r.host] = made']
      /\ UNCHANGED <<deleted, alive, alone>>
  BY <1>2 DEF ScheduleNext
<1>4. \A j \in JobId : JobPending(j)' => JobPending(j) \/ j = made'
  BY <1>1, <1>2, <1>3 DEF JobPending
<1>5. /\ jobName'[r.host] = made'
      /\ \A g \in ApiHosts \ {r.host} : jobName'[g] = jobName[g]
      /\ madeBy'[made'] = r.host /\ \A j \in JobId \ {made'} : madeBy'[j] = madeBy[j]
  BY <1>0, <1>2, <1>3 DEF CheckerTypes, CheckerTypeOK
<1>6. MakersAlive'
  BY <1>0, <1>3, <1>5 DEF Chains, MakersAlive
<1>7. OneCheck'
  BY <1>1, <1>3 DEF Chains, OneCheck
<1>8. KnowsItsJob'
  <2> SUFFICES ASSUME NEW g \in alone' \cap alive', NEW j \in JobId,
                      madeBy'[j] = g, JobPending(j)'
               PROVE  j = jobName'[g]
    BY DEF KnowsItsJob
  <2>1. CASE j = made'
    BY <2>1, <1>5
  <2>2. CASE j # made'
    <3>1. madeBy[j] = g /\ JobPending(j)
      BY <2>2, <1>4, <1>5
    <3>2. g # r.host
      BY <3>1, <1>3 DEF Chains, NoneBetween
    <3>3. g \in ApiHosts
      BY <1>3 DEF CheckerTypes, CheckerTypeOK
    <3> QED BY <3>1, <3>2, <3>3, <1>3, <1>5 DEF Chains, KnowsItsJob
  <2> QED BY <2>1, <2>2
<1>9. NoneBetween'
  <2> SUFFICES ASSUME NEW q \in running', q.host \in alone', q.at = "schedule",
                      NEW j \in JobId, madeBy'[j] = q.host, JobPending(j)'
               PROVE  FALSE
    BY DEF NoneBetween
  <2>1. q \in running /\ q # r
    BY <1>1
  <2>2. q.host # r.host
    BY <2>1, <1>3 DEF Chains, OneCheck
  <2>3. j # made' /\ madeBy[j] = q.host
    BY <2>2, <1>5
  <2> QED BY <2>1, <2>3, <1>3, <1>4 DEF Chains, NoneBetween
<1> QED BY <1>6, <1>7, <1>8, <1>9 DEF Chains

LEMMA EndChains ==
  ASSUME CheckerTypes, Chains, NEW r \in running, EndCheck(r)
  PROVE  Chains'
<1>1. running' = running \ {r} /\ UNCHANGED <<jobName, scheduled, deleted, madeBy, alive, alone>>
  BY DEF EndCheck
<1>2. \A j \in JobId : JobPending(j)' => JobPending(j)
  BY <1>1 DEF JobPending
<1> QED BY <1>1, <1>2 DEF Chains, MakersAlive, OneCheck, KnowsItsJob, NoneBetween

LEMMA FailsChains ==
  ASSUME CheckerTypes, Chains, NEW r \in running, StorageFails(r)
  PROVE  Chains'
<1>0. r.host \in ApiHosts /\ r.host \in alive
  BY CheckShape DEF CheckerTypes
<1>1. /\ running' = running \ {r} /\ alone' = alone \ {r.host} /\ deleted \subseteq deleted'
      /\ UNCHANGED <<jobName, alive>>
  BY DEF StorageFails
<1>2. \/ madeBy' = madeBy /\ scheduled' \subseteq scheduled \cup ({r.job} \ deleted)
      \/ /\ made + 1 \in JobId /\ madeBy' = [madeBy EXCEPT ![made + 1] = r.host]
         /\ scheduled' \subseteq scheduled \cup ({r.job} \ deleted) \cup {made + 1}
  <2>1. made \in Nat
    BY CheckerAssumption DEF CheckerTypes, CheckerTypeOK
  <2>2. made < MaxChecks => made + 1 \in JobId
    BY <2>1, CheckerAssumption DEF JobId
  <2>3. Rerun({r}) = {r.job} \ deleted
    BY DEF Rerun
  <2> QED BY <2>2, <2>3 DEF StorageFails
<1>3. \A j \in JobId, g \in alone' : madeBy'[j] = g /\ JobPending(j)' => madeBy[j] = g /\ JobPending(j)
  <2>1. madeBy \in [JobId -> ApiHosts \cup {0}]
    BY DEF CheckerTypes, CheckerTypeOK
  <2>2. \A j \in JobId : j \in scheduled \cup ({r.job} \ deleted) => JobPending(j)
    BY DEF JobPending
  <2>3. \A j \in JobId : JobPending(j)' => j \in scheduled' \/ JobPending(j)
    BY <1>1 DEF JobPending
  <2> QED BY <1>1, <1>2, <2>1, <2>2, <2>3
<1>4. MakersAlive'
  BY <1>0, <1>1, <1>2 DEF Chains, MakersAlive, CheckerTypes, CheckerTypeOK
<1>5. OneCheck'
  BY <1>1 DEF Chains, OneCheck
<1>6. KnowsItsJob'
  BY <1>1, <1>3 DEF Chains, KnowsItsJob
<1>7. NoneBetween'
  BY <1>1, <1>3 DEF Chains, NoneBetween
<1> QED BY <1>4, <1>5, <1>6, <1>7 DEF Chains

LEMMA StopChains ==
  ASSUME CheckerTypes, Chains, NEW h \in ApiHosts, StopChecker(h)
  PROVE  Chains'
<1> DEFINE mine == {r \in running : r.host = h}
<1>1. /\ running' = running \ mine /\ alone' = alone \cup {h} /\ alive' = alive \ {h}
      /\ scheduled' = scheduled \cup Rerun(mine) /\ deleted' = deleted
      /\ jobName' = [jobName EXCEPT ![h] = 0]
      /\ madeBy' = [j \in JobId |-> IF madeBy[j] = h THEN 0 ELSE madeBy[j]]
  BY DEF StopChecker
<1>2. \A j \in JobId : JobPending(j)' => JobPending(j)
  BY <1>1 DEF JobPending, Rerun
<1>3. \A r \in running' : r \in running /\ r.host # h
  BY <1>1
<1>4. /\ \A j \in JobId, g \in ApiHosts : madeBy'[j] = g => madeBy[j] = g /\ g # h
      /\ \A g \in ApiHosts \ {h} : jobName'[g] = jobName[g]
  BY <1>1, CheckerAssumption DEF CheckerTypes, CheckerTypeOK
<1>5. alone' \subseteq ApiHosts /\ alive' \subseteq ApiHosts
  BY <1>1 DEF CheckerTypes, CheckerTypeOK
<1>6. MakersAlive'
  BY <1>1 DEF Chains, MakersAlive
<1>7. OneCheck'
  BY <1>1, <1>3 DEF Chains, OneCheck
<1>8. KnowsItsJob'
  BY <1>1, <1>2, <1>4, <1>5 DEF Chains, KnowsItsJob
<1>9. NoneBetween'
  BY <1>1, <1>2, <1>3, <1>4, <1>5 DEF Chains, NoneBetween
<1> QED BY <1>6, <1>7, <1>8, <1>9 DEF Chains

-----------------------------------------------------------------------------
(* The theorems                                                            *)

CheckerInv == CheckerTypes /\ Chains

LEMMA CheckerInitOK == ASSUME CheckerInit PROVE CheckerInv
<1>1. Chains
  BY DEF CheckerInit, Chains, MakersAlive, OneCheck, KnowsItsJob, NoneBetween, JobPending
<1> QED BY <1>1, CheckerTypesInit DEF CheckerInv

LEMMA CheckerStutter == ASSUME CheckerInv, UNCHANGED checkerVars PROVE CheckerInv'
<1>1. CheckerTypes'
  BY DEF CheckerInv, checkerVars, CheckerTypes, CheckerTypeOK, RunningMade
<1>2. Chains'
  BY DEF CheckerInv, checkerVars, Chains, MakersAlive, OneCheck, KnowsItsJob,
         NoneBetween, JobPending
<1> QED BY <1>1, <1>2 DEF CheckerInv

LEMMA CheckerNextOK == ASSUME CheckerInv, [CheckerNext]_checkerVars PROVE CheckerInv'
<1>1. ASSUME NEW h \in ApiHosts, StartChecker(h) PROVE CheckerInv'
  BY <1>1, StartTypes, StartChains DEF CheckerInv
<1>2. ASSUME NEW h \in ApiHosts, StopChecker(h) PROVE CheckerInv'
  BY <1>2, StopTypes, StopChains DEF CheckerInv
<1>3. ASSUME NEW h \in ApiHosts, NEW j \in scheduled, BeginCheck(h, j) PROVE CheckerInv'
  BY <1>3, BeginTypes, BeginChains DEF CheckerInv
<1>4. ASSUME NEW r \in running, DeletePrevious(r) PROVE CheckerInv'
  BY <1>4, DeleteTypes, DeleteChains DEF CheckerInv
<1>5. ASSUME NEW r \in running, ScheduleNext(r) PROVE CheckerInv'
  BY <1>5, ScheduleTypes, ScheduleChains DEF CheckerInv
<1>6. ASSUME NEW r \in running, EndCheck(r) PROVE CheckerInv'
  BY <1>6, EndTypes, EndChains DEF CheckerInv
<1>7. ASSUME NEW r \in running, StorageFails(r) PROVE CheckerInv'
  BY <1>7, FailsTypes, FailsChains DEF CheckerInv
<1>8. CASE UNCHANGED checkerVars
  BY <1>8, CheckerStutter
<1> QED BY <1>1, <1>2, <1>3, <1>4, <1>5, <1>6, <1>7, <1>8 DEF CheckerNext

LEMMA CheckerInvariant == CheckerSpec => []CheckerInv
BY CheckerInitOK, CheckerNextOK, PTL DEF CheckerSpec

\* CheckerTypes, and that a check that runs belongs to a process that is up and is the
\* only one for its job.
THEOREM CheckerTypeCorrect == CheckerSpec => []CheckerTypeOK
<1>1. CheckerInv => CheckerTypeOK
  BY DEF CheckerInv, CheckerTypes
<1> QED BY <1>1, CheckerInvariant, PTL

\* The static JobName of NikSmsUptimeChecker is enough to keep a process to one
\* job of its own, whatever jobs of other and of stopped processes it runs, as
\* long as its checks do not overlap and its storage calls succeed.
THEOREM CheckerOneJob == CheckerSpec => []OneJobOfItsOwn
<1>1. ASSUME CheckerInv PROVE OneJobOfItsOwn
  <2>0. made \in 0..MaxChecks /\ scheduled \subseteq 1..made
    BY <1>1 DEF CheckerInv, CheckerTypes, CheckerTypeOK
  <2>1. \A j \in scheduled : j \in JobId /\ JobPending(j)
    BY <2>0, CheckerAssumption DEF JobId, JobPending
  <2> QED BY <1>1, <2>1 DEF CheckerInv, Chains, KnowsItsJob, OneJobOfItsOwn
<1> QED BY <1>1, CheckerInvariant, PTL

\* CheckingGoesOn is kept by every step: either a check is left that will schedule
\* the next, or one died after it had deleted its own job.
LEMMA GoesOnKept ==
  ASSUME CheckerInv, CheckingGoesOn, [CheckerNext]_checkerVars
  PROVE  CheckingGoesOn'
<1>1. ASSUME NEW h \in ApiHosts, StartChecker(h) PROVE CheckingGoesOn'
  BY <1>1 DEF StartChecker, Created, CheckingGoesOn
<1>2. ASSUME NEW h \in ApiHosts, StopChecker(h) PROVE CheckingGoesOn'
  <2> DEFINE mine == {r \in running : r.host = h}
  <2>1. /\ running' = running \ mine /\ scheduled' = scheduled \cup Rerun(mine)
        /\ dead' = (dead \/ Dies(mine)) /\ hostStarts' = hostStarts
    BY <1>2 DEF StopChecker
  <2>2. \A r \in mine : r.at # "over" => Dies(mine) \/ r.job \in Rerun(mine)
    BY DEF Dies, Rerun
  <2>3. dead \in BOOLEAN
    BY DEF CheckerInv, CheckerTypes, CheckerTypeOK
  <2> QED BY <2>1, <2>2, <2>3 DEF CheckingGoesOn
<1>3. ASSUME NEW h \in ApiHosts, NEW j \in scheduled, BeginCheck(h, j) PROVE CheckingGoesOn'
  <2> DEFINE n == [host |-> h, job |-> j, at |-> "delete"]
  <2>1. n \in running' /\ n.at # "over"
    BY <1>3 DEF BeginCheck
  <2> QED BY <2>1 DEF CheckingGoesOn
<1>4. ASSUME NEW r \in running, DeletePrevious(r) PROVE CheckingGoesOn'
  <2>1. PICK n : running' = (running \ {r}) \cup {n} /\ n.at = "schedule"
    BY <1>4, MovesHost DEF DeletePrevious, CheckerInv
  <2> QED BY <2>1 DEF CheckingGoesOn
<1>5. ASSUME NEW r \in running, ScheduleNext(r) PROVE CheckingGoesOn'
  BY <1>5 DEF ScheduleNext, Created, CheckingGoesOn
<1>6. ASSUME NEW r \in running, EndCheck(r) PROVE CheckingGoesOn'
  BY <1>6 DEF EndCheck, CheckingGoesOn
<1>7. ASSUME NEW r \in running, StorageFails(r) PROVE CheckingGoesOn'
  <2>1. r.at # "over"
    BY <1>7 DEF StorageFails
  <2> QED BY <1>7, <2>1 DEF StorageFails, Rerun, Dies, CheckingGoesOn, CheckerInv, CheckerTypes,
                           CheckerTypeOK
<1>8. CASE UNCHANGED checkerVars
  BY <1>8 DEF checkerVars, CheckingGoesOn
<1> QED BY <1>1, <1>2, <1>3, <1>4, <1>5, <1>6, <1>7, <1>8 DEF CheckerNext

\* The chain of checks ends only with a check that died between its Delete and
\* its Schedule: no interleaving of processes, restarts and retries breaks it.
THEOREM CheckerGoesOn == CheckerSpec => []CheckingGoesOn
<1>1. CheckerInit => CheckingGoesOn
  BY DEF CheckerInit, CheckingGoesOn
<1> QED BY <1>1, GoesOnKept, CheckerInvariant, PTL DEF CheckerSpec

-----------------------------------------------------------------------------
(* Verification codes: the invariant                                       *)

CodeAgent == Sending \cup Recording \cup {Idle}

\* Consumers that send code k and have reached one of the steps in S.
AtWork(S, k) == {c \in CodeConsumers : agent[c].at \in S /\ agent[c].code = k}

Unsent == {"check", "call", "fallback"}

TextsOf(k) == {t \in texts : t.code = k}

\* A copy of the command in the queue, a consumer that has yet to send it, or a
\* text: one of them, and one more for each disturbance.
Budget(k) ==
  /\ IsFiniteSet(AtWork(Unsent, k)) /\ IsFiniteSet(TextsOf(k))
  /\ sends[k] + Cardinality(AtWork(Unsent, k)) + Cardinality(TextsOf(k)) <= 1 + disturbed[k]

\* What the attempts that had passed their check can still send after the code has
\* expired: two texts before Mediana's first call, one after it.
LateBudget(k) ==
  LET calls == Cardinality(AtWork({"call"}, k))
      falls == Cardinality(AtWork({"fallback"}, k))
  IN /\ k \notin expired => late[k] = 0
     /\ k \in expired => IF k \in FirstCodes
                         THEN late[k] + 2 * calls + falls <= 2 * inFlight[k]
                         ELSE late[k] + calls + falls <= inFlight[k]

Budgets == \A k \in Codes : Budget(k) /\ LateBudget(k)

\* What RowMeansText says of a row, said of a code and the id it was given.
Means(k, id) ==
  /\ k \notin FirstCodes => id \in texts
  /\ verifyFaults = 0 => \E t \in texts : t.code = k

AgentMeans(a) ==
  /\ a.at = "publish" => Means(a.code, a.id)
  /\ a.at = "insert" => Means(a.event.code, a.event.id)
  /\ a.at = "fallback" => a.code \in FirstCodes /\ verifyFaults > 0

Meanings ==
  /\ \A e \in events : Means(e.code, e.id)
  /\ \A r \in rows : Means(r.code, r.id)
  /\ \A c \in CodeConsumers : AgentMeans(agent[c])

VerifyInv == VerifyTypeOK /\ Budgets /\ Meanings

-----------------------------------------------------------------------------
(* Verification codes: facts about consumers and texts                     *)

LEMMA AgentShape ==
  ASSUME VerifyTypeOK, NEW c \in CodeConsumers
  PROVE  /\ agent[c] \in CodeAgent
         /\ agent[c] \in Sending <=> agent[c].at \in {"check", "call", "fallback", "publish"}
         /\ agent[c] \in Recording <=> agent[c].at = "insert"
         /\ agent[c] = Idle <=> agent[c].at = "idle"
         /\ agent[c].at \in {"check", "call", "fallback", "publish"} =>
              agent[c].code \in Codes /\ agent[c].id \in ProviderId
              /\ agent[c].attempt \in 0..VerifyRetries
         /\ agent[c].at = "insert" =>
              agent[c].event \in Event /\ agent[c].attempt \in 0..VerifyRetries
BY DEF VerifyTypeOK, CodeAgent, Sending, Recording, Idle

LEMMA Numbers ==
  ASSUME VerifyInv, NEW k \in Codes
  PROVE  /\ IsFiniteSet(AtWork({"call"}, k)) /\ IsFiniteSet(AtWork({"fallback"}, k))
         /\ Cardinality(AtWork({"call"}, k)) \in Nat
         /\ Cardinality(AtWork({"fallback"}, k)) \in Nat
         /\ Cardinality(AtWork(Unsent, k)) \in Nat /\ Cardinality(TextsOf(k)) \in Nat
         /\ sends[k] \in Nat /\ disturbed[k] \in Nat /\ late[k] \in Nat /\ inFlight[k] \in Nat
<1>1. /\ AtWork({"call"}, k) \subseteq AtWork(Unsent, k)
      /\ AtWork({"fallback"}, k) \subseteq AtWork(Unsent, k)
  BY DEF AtWork, Unsent
<1>2. IsFiniteSet(AtWork(Unsent, k)) /\ IsFiniteSet(TextsOf(k))
  BY DEF VerifyInv, Budgets, Budget
<1>3. IsFiniteSet(AtWork({"call"}, k)) /\ IsFiniteSet(AtWork({"fallback"}, k))
  BY <1>1, <1>2, FS_Subset
<1> QED BY <1>2, <1>3, FS_CardinalityType DEF VerifyInv, VerifyTypeOK

\* One consumer moves: it comes to a set of steps, leaves it, or does neither.
LEMMA Comes ==
  ASSUME VerifyInv, NEW c \in CodeConsumers, NEW a, Becomes(c, a),
         NEW S, NEW k, IsFiniteSet(AtWork(S, k)),
         a.at \in S, a.code = k, agent[c].at \notin S
  PROVE  /\ IsFiniteSet(AtWork(S, k)')
         /\ Cardinality(AtWork(S, k)') = Cardinality(AtWork(S, k)) + 1
<1>1. AtWork(S, k)' = AtWork(S, k) \cup {c} /\ c \notin AtWork(S, k)
  BY DEF Becomes, AtWork, VerifyInv, VerifyTypeOK
<1> QED BY <1>1, FS_AddElement

LEMMA Leaves ==
  ASSUME VerifyInv, NEW c \in CodeConsumers, NEW a, Becomes(c, a),
         NEW S, NEW k, IsFiniteSet(AtWork(S, k)),
         a.at \notin S, agent[c].at \in S, agent[c].code = k
  PROVE  /\ IsFiniteSet(AtWork(S, k)')
         /\ Cardinality(AtWork(S, k)') = Cardinality(AtWork(S, k)) - 1
<1>1. AtWork(S, k)' = AtWork(S, k) \ {c} /\ c \in AtWork(S, k)
  BY DEF Becomes, AtWork, VerifyInv, VerifyTypeOK
<1> QED BY <1>1, FS_RemoveElement

LEMMA Stays ==
  ASSUME VerifyInv, NEW c \in CodeConsumers, NEW a, Becomes(c, a),
         NEW S, NEW k,
         \/ a.at \notin S /\ agent[c].at \notin S
         \/ a.at \in S /\ agent[c].at \in S /\ a.code = agent[c].code
  PROVE  AtWork(S, k)' = AtWork(S, k)
BY DEF Becomes, AtWork, VerifyInv, VerifyTypeOK

\* A consumer goes on to none of the steps that are counted.
LEMMA Drops ==
  ASSUME VerifyInv, NEW c \in CodeConsumers, NEW a, Becomes(c, a),
         NEW k \in Codes, a = agent[c] \/ a.at \notin Unsent
  PROVE  /\ IsFiniteSet(AtWork(Unsent, k)')
         /\ Cardinality(AtWork(Unsent, k)') \in Nat
         /\ Cardinality(AtWork({"call"}, k)') \in Nat
         /\ Cardinality(AtWork({"fallback"}, k)') \in Nat
         /\ Cardinality(AtWork(Unsent, k)') <= Cardinality(AtWork(Unsent, k))
         /\ Cardinality(AtWork({"call"}, k)') <= Cardinality(AtWork({"call"}, k))
         /\ Cardinality(AtWork({"fallback"}, k)') <= Cardinality(AtWork({"fallback"}, k))
<1>1. /\ AtWork(Unsent, k)' \subseteq AtWork(Unsent, k)
      /\ AtWork({"call"}, k)' \subseteq AtWork({"call"}, k)
      /\ AtWork({"fallback"}, k)' \subseteq AtWork({"fallback"}, k)
  BY DEF Becomes, AtWork, Unsent, VerifyInv, VerifyTypeOK
<1>2. /\ IsFiniteSet(AtWork(Unsent, k))
      /\ IsFiniteSet(AtWork({"call"}, k)) /\ IsFiniteSet(AtWork({"fallback"}, k))
  BY Numbers DEF VerifyInv, Budgets, Budget
<1> QED BY <1>1, <1>2, FS_Subset, FS_CardinalityType

\* A gateway accepts a text of code k, or not.
LEMMA TextsGrow ==
  ASSUME VerifyInv, NEW k \in Codes, AcceptedOrNot(k)
  PROVE  /\ texts \subseteq texts' /\ texts' \subseteq Text
         /\ \A j \in Codes : j # k => TextsOf(j)' = TextsOf(j)
         /\ IsFiniteSet(TextsOf(k)') /\ Cardinality(TextsOf(k)') \in Nat
         /\ Cardinality(TextsOf(k)') <= Cardinality(TextsOf(k)) + 1
         /\ late' \in [Codes -> Nat]
         /\ \A j \in Codes : j # k => late'[j] = late[j]
         /\ k \notin expired => late'[k] = late[k]
         /\ late'[k] \in {late[k], late[k] + 1}
<1>1. /\ TextOf(k) \in Text /\ TextOf(k).code = k
      /\ IsFiniteSet(TextsOf(k)) /\ Cardinality(TextsOf(k)) \in Nat
  <2>1. IsFiniteSet(TextsOf(k)) /\ Cardinality(TextsOf(k)) \in Nat
    BY Numbers DEF VerifyInv, Budgets, Budget
  <2> QED BY <2>1 DEF TextOf, TextsOf, Text
<1>2. CASE UNCHANGED <<texts, late>>
  BY <1>1, <1>2 DEF TextsOf, VerifyInv, VerifyTypeOK
<1>3. CASE Accepted(k)
  <2>1. texts' = texts \cup {TextOf(k)}
    BY <1>3 DEF Accepted
  <2>2. \A j \in Codes : j # k => TextsOf(j)' = TextsOf(j)
    BY <2>1, <1>1 DEF TextsOf
  <2>3. TextsOf(k)' = TextsOf(k) \cup {TextOf(k)}
    BY <2>1, <1>1 DEF TextsOf
  <2>4. /\ IsFiniteSet(TextsOf(k)') /\ Cardinality(TextsOf(k)') \in Nat
        /\ Cardinality(TextsOf(k)') <= Cardinality(TextsOf(k)) + 1
    <3>1. CASE TextOf(k) \in TextsOf(k)
      <4>1. TextsOf(k)' = TextsOf(k)
        BY <2>3, <3>1
      <4> QED BY <4>1, <1>1
    <3>2. CASE TextOf(k) \notin TextsOf(k)
      BY <2>3, <3>2, <1>1, FS_AddElement
    <3> QED BY <3>1, <3>2
  <2>5. late' = IF k \in expired THEN [late EXCEPT ![k] = late[k] + 1] ELSE late
    BY <1>3 DEF Accepted
  <2>6. late \in [Codes -> Nat] /\ texts \subseteq Text
    BY DEF VerifyInv, VerifyTypeOK
  <2> QED BY <2>1, <2>2, <2>4, <2>5, <2>6, <1>1
<1> QED BY <1>2, <1>3 DEF AcceptedOrNot

\* The codes a step is not about keep their budgets.
LEMMA OtherCodes ==
  ASSUME VerifyInv, NEW c \in CodeConsumers, NEW a, Becomes(c, a),
         NEW k \in Codes,
         agent[c].at \in Unsent => agent[c].code = k,
         a.at \in Unsent => a.code = k,
         NEW j \in Codes, j # k,
         sends'[j] = sends[j], disturbed'[j] = disturbed[j], late'[j] = late[j],
         TextsOf(j)' = TextsOf(j), UNCHANGED <<inFlight, expired>>
  PROVE  Budget(j)' /\ LateBudget(j)'
<1>1. \A S \in SUBSET Unsent : AtWork(S, j)' = AtWork(S, j)
  BY DEF Becomes, AtWork, VerifyInv, VerifyTypeOK
<1>2. /\ AtWork(Unsent, j)' = AtWork(Unsent, j)
      /\ AtWork({"call"}, j)' = AtWork({"call"}, j)
      /\ AtWork({"fallback"}, j)' = AtWork({"fallback"}, j)
  BY <1>1 DEF Unsent
<1> QED BY <1>2 DEF VerifyInv, Budgets, Budget, LateBudget

\* A consumer that has nothing to send moves.
LEMMA QuietStep ==
  ASSUME VerifyInv, NEW c \in CodeConsumers, NEW a, Becomes(c, a),
         agent[c].at \notin Unsent, a.at \notin Unsent,
         UNCHANGED <<sends, disturbed, texts, late, inFlight, expired>>
  PROVE  Budgets'
<1> SUFFICES ASSUME NEW k \in Codes PROVE Budget(k)' /\ LateBudget(k)'
  BY DEF Budgets
<1>1. /\ AtWork(Unsent, k)' = AtWork(Unsent, k)
      /\ AtWork({"call"}, k)' = AtWork({"call"}, k)
      /\ AtWork({"fallback"}, k)' = AtWork({"fallback"}, k)
  BY DEF Becomes, AtWork, Unsent, VerifyInv, VerifyTypeOK
<1> QED BY <1>1 DEF VerifyInv, Budgets, Budget, LateBudget, TextsOf

LEMMA MeansGrow ==
  ASSUME NEW k, NEW id, Means(k, id), texts \subseteq texts',
         verifyFaults \in Nat, verifyFaults' \in Nat, verifyFaults' >= verifyFaults
  PROVE  Means(k, id)'
BY DEF Means

LEMMA MeaningsStep ==
  ASSUME VerifyInv, NEW c \in CodeConsumers, NEW a, Becomes(c, a),
         AgentMeans(a)', texts \subseteq texts',
         verifyFaults' \in Nat, verifyFaults' >= verifyFaults,
         \A e \in events' : e \in events \/ Means(e.code, e.id)',
         \A r \in rows' : r \in rows \/ Means(r.code, r.id)'
  PROVE  Meanings'
<1>1. verifyFaults \in Nat
  BY VerifyAssumption DEF VerifyInv, VerifyTypeOK
<1>2. ASSUME NEW e \in events' PROVE Means(e.code, e.id)'
  BY <1>1, MeansGrow DEF VerifyInv, Meanings
<1>3. ASSUME NEW r \in rows' PROVE Means(r.code, r.id)'
  BY <1>1, MeansGrow DEF VerifyInv, Meanings
<1>4. ASSUME NEW d \in CodeConsumers PROVE AgentMeans(agent[d])'
  <2>1. CASE d = c
    <3>1. agent'[d] = a
      BY <2>1 DEF Becomes, VerifyInv, VerifyTypeOK
    <3> QED BY <3>1 DEF AgentMeans
  <2>2. CASE d # c
    <3>1. agent'[d] = agent[d]
      BY <2>2 DEF Becomes, VerifyInv, VerifyTypeOK
    <3> PICK b : b = agent[d]
      OBVIOUS
    <3>2. AgentMeans(b)
      BY DEF VerifyInv, Meanings
    <3>3. /\ b.at = "publish" => Means(b.code, b.id)'
          /\ b.at = "insert" => Means(b.event.code, b.event.id)'
      BY <3>2, <1>1, MeansGrow DEF AgentMeans
    <3>4. b.at = "fallback" => b.code \in FirstCodes /\ verifyFaults' > 0
      BY <3>2, <1>1 DEF AgentMeans
    <3> QED BY <3>1, <3>3, <3>4 DEF AgentMeans
  <2> QED BY <2>1, <2>2
<1> QED BY <1>2, <1>3, <1>4 DEF Meanings

LEMMA VerifyFaultType ==
  ASSUME VerifyTypeOK, VerifyFault
  PROVE  verifyFaults' \in 0..MaxVerifyFaults /\ verifyFaults' \in Nat /\ verifyFaults \in Nat
         /\ verifyFaults' >= verifyFaults /\ verifyFaults' > 0
BY VerifyAssumption DEF VerifyTypeOK, VerifyFault

\* A failed attempt starts again from its first step, or ends.
LEMMA RetriedShape ==
  ASSUME VerifyTypeOK, NEW c \in CodeConsumers, agent[c] # Idle, RetriedVerify(c)
  PROVE  \E a \in CodeAgent :
           /\ Becomes(c, a)
           /\ agent[c].at = "insert" => a.at \in {"insert", "idle"}
           /\ agent[c].at # "insert" => a.at \in {"check", "idle"}
           /\ a.at = "insert" => a.event = agent[c].event
           /\ a.at = "check" => a.code = agent[c].code
<1>1. CASE agent[c].attempt = VerifyRetries
  <2>1. Becomes(c, Idle)
    BY <1>1 DEF RetriedVerify, Ends
  <2>2. Idle \in CodeAgent /\ Idle.at = "idle"
    BY DEF CodeAgent, Idle
  <2> QED BY <2>1, <2>2
<1>2. CASE agent[c].attempt # VerifyRetries
  <2> PICK a : a = [agent[c] EXCEPT !.attempt = agent[c].attempt + 1,
                      !.at = IF agent[c].at = "insert" THEN "insert" ELSE "check"]
    OBVIOUS
  <2>1. Becomes(c, a)
    BY <1>2 DEF RetriedVerify
  <2>2. CASE agent[c].at = "insert"
    <3>1. agent[c] \in Recording
      BY <2>2, AgentShape
    <3>2. agent[c].attempt + 1 \in 0..VerifyRetries
      BY <3>1, <1>2, VerifyAssumption DEF Recording
    <3>3. a \in Recording /\ a.at = "insert" /\ a.event = agent[c].event
      BY <3>1, <3>2, <2>2 DEF Recording
    <3> QED BY <2>1, <2>2, <3>3 DEF CodeAgent
  <2>3. CASE agent[c].at # "insert"
    <3>1. agent[c] \in Sending
      BY <2>3, AgentShape DEF VerifyTypeOK
    <3>2. agent[c].attempt + 1 \in 0..VerifyRetries
      BY <3>1, <1>2, VerifyAssumption DEF Sending
    <3>3. a \in Sending /\ a.at = "check" /\ a.code = agent[c].code
      BY <3>1, <3>2, <2>3 DEF Sending
    <3> QED BY <2>1, <2>3, <3>3 DEF CodeAgent
  <2> QED BY <2>2, <2>3
<1> QED BY <1>1, <1>2

-----------------------------------------------------------------------------
(* Verification codes: every step                                          *)

LEMMA VerifyInitInv == ASSUME VerifyInit PROVE VerifyInv
<1>1. Idle \in CodeAgent /\ Idle.at = "idle"
  BY DEF CodeAgent, Idle
<1>2. VerifyTypeOK
  <2>1. verifyFaults \in 0..MaxVerifyFaults
    BY VerifyAssumption DEF VerifyInit
  <2> QED BY <1>1, <2>1 DEF VerifyInit, VerifyTypeOK, CodeAgent
<1>3. Budgets
  <2> SUFFICES ASSUME NEW k \in Codes PROVE Budget(k) /\ LateBudget(k)
    BY DEF Budgets
  <2>1. AtWork(Unsent, k) = {} /\ TextsOf(k) = {}
    BY <1>1 DEF VerifyInit, AtWork, Unsent, TextsOf
  <2> QED BY <2>1, FS_EmptySet DEF VerifyInit, Budget, LateBudget
<1>4. Meanings
  BY <1>1 DEF VerifyInit, Meanings, AgentMeans
<1> QED BY <1>2, <1>3, <1>4 DEF VerifyInv

LEMMA TakeSendInv ==
  ASSUME VerifyInv, NEW c \in CodeConsumers, NEW k \in Codes, TakeSend(c, k)
  PROVE  VerifyInv'
<1> PICK a : a = [at |-> "check", code |-> k, attempt |-> 0, id |-> EmptyId]
  OBVIOUS
<1>1. a \in CodeAgent /\ a.at = "check" /\ a.code = k
  BY VerifyAssumption DEF CodeAgent, Sending, ProviderId
<1>2. Becomes(c, a) /\ agent[c].at = "idle" /\ sends[k] > 0
  BY DEF TakeSend, Idle
<1>3. VerifyTypeOK'
  BY <1>1, <1>2 DEF TakeSend, Becomes, VerifyInv, VerifyTypeOK, CodeAgent
<1>4. Budgets'
  <2>1. ASSUME NEW j \in Codes, j # k PROVE Budget(j)' /\ LateBudget(j)'
    BY <2>1, <1>1, <1>2, OtherCodes DEF TakeSend, Unsent, TextsOf, VerifyInv, VerifyTypeOK
  <2>2. /\ IsFiniteSet(AtWork(Unsent, k)')
        /\ Cardinality(AtWork(Unsent, k)') = Cardinality(AtWork(Unsent, k)) + 1
        /\ Cardinality(AtWork({"call"}, k)') = Cardinality(AtWork({"call"}, k))
        /\ Cardinality(AtWork({"fallback"}, k)') = Cardinality(AtWork({"fallback"}, k))
    <3>1. /\ a.at \in Unsent /\ agent[c].at \notin Unsent
          /\ a.at \notin {"call"} /\ agent[c].at \notin {"call"}
          /\ a.at \notin {"fallback"} /\ agent[c].at \notin {"fallback"}
      BY <1>1, <1>2 DEF Unsent
    <3>2. IsFiniteSet(AtWork(Unsent, k))
      BY DEF VerifyInv, Budgets, Budget
    <3>3. /\ IsFiniteSet(AtWork(Unsent, k)')
          /\ Cardinality(AtWork(Unsent, k)') = Cardinality(AtWork(Unsent, k)) + 1
      BY <3>1, <3>2, <1>1, <1>2, Comes
    <3>4. /\ AtWork({"call"}, k)' = AtWork({"call"}, k)
          /\ AtWork({"fallback"}, k)' = AtWork({"fallback"}, k)
      BY <3>1, <1>2, Stays
    <3> QED BY <3>3, <3>4
  <2>3. sends'[k] = sends[k] - 1 /\ TextsOf(k)' = TextsOf(k)
    BY DEF TakeSend, TextsOf, VerifyInv, VerifyTypeOK
  <2>4. Budget(k)'
    BY <2>2, <2>3, Numbers DEF Budget, Budgets, VerifyInv, TakeSend
  <2>5. LateBudget(k)'
    BY <2>2 DEF LateBudget, Budgets, VerifyInv, TakeSend
  <2> QED BY <2>1, <2>4, <2>5 DEF Budgets
<1>5. Meanings'
  <2>1. AgentMeans(a)'
    BY <1>1 DEF AgentMeans
  <2>2. /\ UNCHANGED <<texts, events, rows>>
        /\ verifyFaults' \in Nat /\ verifyFaults' >= verifyFaults
    BY VerifyAssumption DEF TakeSend, VerifyInv, VerifyTypeOK
  <2> QED BY <2>1, <2>2, <1>2, MeaningsStep
<1> QED BY <1>3, <1>4, <1>5 DEF VerifyInv

LEMMA SendReturnsInv ==
  ASSUME VerifyInv, NEW c \in CodeConsumers, SendReturns(c)
  PROVE  VerifyInv'
<1> PICK k : k = agent[c].code
  OBVIOUS
<1>1. /\ k \in Codes /\ agent[c].at \in {"check", "call", "fallback", "publish"}
      /\ sends' = [sends EXCEPT ![k] = sends[k] + 1]
      /\ disturbed' = [disturbed EXCEPT ![k] = disturbed[k] + 1]
      /\ UNCHANGED <<expired, texts, events, guids, rows, reports, reported, inFlight, late>>
  BY AgentShape DEF SendReturns, Disturbs, VerifyInv
<1>2. /\ verifyFaults' \in 0..MaxVerifyFaults /\ verifyFaults' \in Nat
      /\ verifyFaults' >= verifyFaults
  BY VerifyFaultType DEF SendReturns, Disturbs, VerifyInv
<1>3. PICK a \in CodeAgent : /\ Becomes(c, a)
                             /\ a = agent[c] \/ a.at = "idle"
  <2>1. CASE Ends(c)
    <3>1. Idle \in CodeAgent /\ Idle.at = "idle"
      BY DEF Idle, CodeAgent
    <3> QED BY <3>1, <2>1 DEF Ends
  <2>2. CASE UNCHANGED agent
    <3>1. Becomes(c, agent[c]) /\ agent[c] \in CodeAgent
      BY <2>2 DEF Becomes, VerifyInv, VerifyTypeOK, CodeAgent
    <3> QED BY <3>1
  <2> QED BY <2>1, <2>2 DEF SendReturns
<1>4. VerifyTypeOK'
  BY <1>1, <1>2, <1>3 DEF Becomes, VerifyInv, VerifyTypeOK, CodeAgent
<1>5. Budgets'
  <2>1. ASSUME NEW j \in Codes, j # k PROVE Budget(j)' /\ LateBudget(j)'
    BY <2>1, <1>1, <1>3, OtherCodes DEF Unsent, TextsOf, VerifyInv, VerifyTypeOK
  <2>2. /\ IsFiniteSet(AtWork(Unsent, k)')
        /\ Cardinality(AtWork(Unsent, k)') <= Cardinality(AtWork(Unsent, k))
        /\ Cardinality(AtWork({"call"}, k)') <= Cardinality(AtWork({"call"}, k))
        /\ Cardinality(AtWork({"fallback"}, k)') <= Cardinality(AtWork({"fallback"}, k))
        /\ Cardinality(AtWork(Unsent, k)') \in Nat
        /\ Cardinality(AtWork({"call"}, k)') \in Nat
        /\ Cardinality(AtWork({"fallback"}, k)') \in Nat
    <3>1. a = agent[c] \/ a.at \notin Unsent
      BY <1>3 DEF Unsent
    <3> QED BY <3>1, <1>1, <1>3, Drops
  <2>3. /\ sends'[k] = sends[k] + 1 /\ disturbed'[k] = disturbed[k] + 1
        /\ TextsOf(k)' = TextsOf(k)
    BY <1>1 DEF TextsOf, VerifyInv, VerifyTypeOK
  <2>4. Budget(k)'
    BY <2>2, <2>3, Numbers, <1>1 DEF Budget, Budgets, VerifyInv
  <2>5. LateBudget(k)'
    BY <2>2, Numbers, <1>1 DEF LateBudget, Budgets, VerifyInv
  <2> QED BY <2>1, <2>4, <2>5 DEF Budgets
<1>6. Meanings'
  <2>1. AgentMeans(a)'
    <3>1. CASE a = agent[c]
      <4>1. AgentMeans(a)
        BY <3>1 DEF VerifyInv, Meanings
      <4>2. verifyFaults \in Nat
        BY VerifyAssumption DEF VerifyInv, VerifyTypeOK
      <4> QED BY <4>1, <4>2, <1>1, <1>2, MeansGrow DEF AgentMeans
    <3>2. CASE a.at = "idle"
      BY <3>2 DEF AgentMeans
    <3> QED BY <3>1, <3>2, <1>3
  <2> QED BY <2>1, <1>1, <1>2, <1>3, MeaningsStep
<1> QED BY <1>4, <1>5, <1>6 DEF VerifyInv

\* A gateway is called, whatever comes of it: the code's budgets bear it.
LEMMA CallStep ==
  ASSUME VerifyInv, NEW c \in CodeConsumers, NEW a, Becomes(c, a), NEW k \in Codes,
         agent[c].code = k, agent[c].at \in {"call", "fallback"}, AcceptedOrNot(k),
         a.at \in {"publish", "idle", "check", "fallback"},
         a.at \in {"check", "fallback"} => a.code = k,
         a.at = "fallback" => agent[c].at = "call" /\ k \in FirstCodes,
         \A j \in Codes : j # k => disturbed'[j] = disturbed[j],
         \/ a.at = "publish" /\ disturbed'[k] = disturbed[k]
         \/ disturbed'[k] = disturbed[k] + 1,
         UNCHANGED <<sends, expired, inFlight>>
  PROVE  Budgets'
<1> DEFINE w == Cardinality(AtWork(Unsent, k))
           p == Cardinality(AtWork({"call"}, k))
           f == Cardinality(AtWork({"fallback"}, k))
           t == Cardinality(TextsOf(k))
<1>1. /\ agent[c].at \in Unsent /\ a.at \notin {"call"}
      /\ a.at \in Unsent => a.at \in {"check", "fallback"}
  BY DEF Unsent
<1>2. /\ IsFiniteSet(AtWork(Unsent, k)) /\ IsFiniteSet(TextsOf(k))
      /\ IsFiniteSet(AtWork({"call"}, k)) /\ IsFiniteSet(AtWork({"fallback"}, k))
      /\ w \in Nat /\ p \in Nat /\ f \in Nat /\ t \in Nat
  BY Numbers DEF VerifyInv, Budgets, Budget
<1>3. ASSUME NEW j \in Codes, j # k PROVE Budget(j)' /\ LateBudget(j)'
  <2>1. TextsOf(j)' = TextsOf(j) /\ late'[j] = late[j]
    BY <1>3, TextsGrow
  <2>2. agent[c].at \in Unsent => agent[c].code = k
    OBVIOUS
  <2>3. a.at \in Unsent => a.code = k
    BY <1>1
  <2>4. sends'[j] = sends[j] /\ disturbed'[j] = disturbed[j]
    BY <1>3
  <2> QED BY <2>1, <2>2, <2>3, <2>4, <1>3, OtherCodes
<1>4. /\ IsFiniteSet(TextsOf(k)') /\ Cardinality(TextsOf(k)') \in Nat
      /\ Cardinality(TextsOf(k)') <= t + 1
      /\ late'[k] \in {late[k], late[k] + 1}
      /\ k \notin expired => late'[k] = late[k]
  BY TextsGrow
<1>5. /\ IsFiniteSet(AtWork(Unsent, k)')
      /\ \/ a.at \notin Unsent /\ Cardinality(AtWork(Unsent, k)') = w - 1
         \/ a.at \in Unsent /\ Cardinality(AtWork(Unsent, k)') = w
  <2>1. CASE a.at \notin Unsent
    BY <2>1, <1>1, <1>2, Leaves
  <2>2. CASE a.at \in Unsent
    <3>1. AtWork(Unsent, k)' = AtWork(Unsent, k)
      BY <2>2, <1>1, Stays
    <3> QED BY <3>1, <2>2, <1>2
  <2> QED BY <2>1, <2>2
<1>6. Budget(k)'
  <2>1. a.at \in Unsent => disturbed'[k] = disturbed[k] + 1
    BY DEF Unsent
  <2>2. /\ sends[k] + w + t <= 1 + disturbed[k] /\ sends[k] \in Nat /\ disturbed[k] \in Nat
        /\ disturbed'[k] \in {disturbed[k], disturbed[k] + 1}
    BY Numbers DEF VerifyInv, Budgets, Budget
  <2> HIDE DEF w, t
  <2>3. sends'[k] + Cardinality(AtWork(Unsent, k)') + Cardinality(TextsOf(k)') <= 1 + disturbed'[k]
    BY <2>1, <2>2, <1>2, <1>4, <1>5
  <2> QED BY <2>3, <1>4, <1>5 DEF Budget
<1>7. CASE agent[c].at = "call"
  <2>1. Cardinality(AtWork({"call"}, k)') = p - 1
    BY <1>1, <1>2, <1>7, Leaves
  <2>2. \/ Cardinality(AtWork({"fallback"}, k)') = f
        \/ k \in FirstCodes /\ Cardinality(AtWork({"fallback"}, k)') = f + 1
    <3>1. agent[c].at \notin {"fallback"}
      BY <1>7
    <3>2. CASE a.at \in {"fallback"}
      BY <3>1, <3>2, <1>2, Comes
    <3>3. CASE a.at \notin {"fallback"}
      <4>1. AtWork({"fallback"}, k)' = AtWork({"fallback"}, k)
        BY <3>1, <3>3, Stays
      <4> QED BY <4>1
    <3> QED BY <3>2, <3>3
  <2>3. /\ k \notin expired => late[k] = 0
        /\ k \in expired => IF k \in FirstCodes THEN late[k] + 2 * p + f <= 2 * inFlight[k]
                            ELSE late[k] + p + f <= inFlight[k]
        /\ late[k] \in Nat /\ inFlight[k] \in Nat
    BY Numbers DEF VerifyInv, Budgets, LateBudget
  <2> HIDE DEF p, f
  <2>4. LateBudget(k)'
    BY <2>1, <2>2, <2>3, <1>2, <1>4 DEF LateBudget
  <2> QED BY <2>4, <1>3, <1>6 DEF Budgets
<1>8. CASE agent[c].at = "fallback"
  <2>1. a.at \notin {"fallback"} /\ agent[c].at \in {"fallback"} /\ agent[c].at \notin {"call"}
    BY <1>8
  <2>2. Cardinality(AtWork({"fallback"}, k)') = f - 1
    BY <2>1, <1>2, Leaves
  <2>3. AtWork({"call"}, k)' = AtWork({"call"}, k)
    BY <2>1, <1>1, Stays
  <2>4. /\ k \notin expired => late[k] = 0
        /\ k \in expired => IF k \in FirstCodes THEN late[k] + 2 * p + f <= 2 * inFlight[k]
                            ELSE late[k] + p + f <= inFlight[k]
        /\ late[k] \in Nat /\ inFlight[k] \in Nat
    BY Numbers DEF VerifyInv, Budgets, LateBudget
  <2>5. Cardinality(AtWork({"call"}, k)') = p
    BY <2>3
  <2> HIDE DEF p, f
  <2>6. LateBudget(k)'
    BY <2>2, <2>4, <2>5, <1>2, <1>4 DEF LateBudget
  <2> QED BY <2>6, <1>3, <1>6 DEF Budgets
<1> QED BY <1>7, <1>8

LEMMA CheckCodeInv ==
  ASSUME VerifyInv, NEW c \in CodeConsumers, CheckCode(c)
  PROVE  VerifyInv'
<1> PICK k : k = agent[c].code
  OBVIOUS
<1>1. /\ agent[c].at = "check" /\ agent[c] \in Sending /\ k \in Codes
      /\ UNCHANGED <<sends, expired, texts, events, guids, rows, reports, reported,
                     verifyFaults, disturbed, inFlight, late>>
  BY AgentShape DEF CheckCode, VerifyInv
<1>2. PICK a \in CodeAgent : /\ Becomes(c, a)
                             /\ \/ a.at = "idle"
                                \/ a.at = "call" /\ a.code = k /\ k \notin expired
  <2>1. CASE k \in expired
    <3>1. Idle \in CodeAgent /\ Idle.at = "idle"
      BY DEF Idle, CodeAgent
    <3> QED BY <3>1, <2>1 DEF CheckCode, Ends
  <2>2. CASE k \notin expired
    <3> PICK a : a = [agent[c] EXCEPT !.at = "call"]
      OBVIOUS
    <3>1. a \in CodeAgent /\ a.at = "call" /\ a.code = k
      BY <1>1 DEF Sending, CodeAgent
    <3> QED BY <3>1, <2>2 DEF CheckCode
  <2> QED BY <2>1, <2>2
<1>3. VerifyTypeOK'
  BY <1>1, <1>2 DEF Becomes, VerifyInv, VerifyTypeOK, CodeAgent
<1>4. Budgets'
  <2>0. /\ agent[c].at \in Unsent /\ agent[c].at \notin {"call"} /\ agent[c].at \notin {"fallback"}
        /\ a.at \in Unsent => a.code = k /\ a.code = agent[c].code
    BY <1>1, <1>2 DEF Unsent
  <2>1. ASSUME NEW j \in Codes, j # k PROVE Budget(j)' /\ LateBudget(j)'
    <3>1. TextsOf(j)' = TextsOf(j)
      BY <1>1 DEF TextsOf
    <3> QED BY <2>0, <2>1, <3>1, <1>1, <1>2, OtherCodes
  <2>2. IsFiniteSet(AtWork(Unsent, k)) /\ IsFiniteSet(AtWork({"call"}, k))
    BY <1>1, Numbers DEF VerifyInv, Budgets, Budget
  <2>3. /\ IsFiniteSet(AtWork(Unsent, k)') /\ Cardinality(AtWork(Unsent, k)') \in Nat
        /\ Cardinality(AtWork(Unsent, k)') <= Cardinality(AtWork(Unsent, k))
    <3>1. CASE a.at \in Unsent
      <4>1. AtWork(Unsent, k)' = AtWork(Unsent, k)
        BY <2>0, <3>1, <1>2, Stays
      <4> QED BY <4>1, <2>2, FS_CardinalityType
    <3>2. CASE a.at \notin Unsent
      BY <3>2, <1>1, <1>2, Drops
    <3> QED BY <3>1, <3>2
  <2>4. Budget(k)'
    <3>1. TextsOf(k)' = TextsOf(k)
      BY <1>1 DEF TextsOf
    <3> QED BY <2>3, <3>1, <1>1, Numbers DEF Budget, Budgets, VerifyInv
  <2>5. LateBudget(k)'
    <3>1. CASE k \in expired
      <4>1. a.at \notin {"call"} /\ a.at \notin {"fallback"}
        BY <3>1, <1>2
      <4>2. AtWork({"call"}, k)' = AtWork({"call"}, k) /\ AtWork({"fallback"}, k)' = AtWork({"fallback"}, k)
        BY <4>1, <2>0, <1>2, Stays
      <4> QED BY <4>2, <1>1 DEF LateBudget, Budgets, VerifyInv
    <3>2. CASE k \notin expired
      BY <3>2, <1>1 DEF LateBudget, Budgets, VerifyInv
    <3> QED BY <3>1, <3>2
  <2> QED BY <2>1, <2>4, <2>5 DEF Budgets
<1>5. Meanings'
  <2>1. AgentMeans(a)'
    BY <1>2 DEF AgentMeans
  <2>2. verifyFaults' \in Nat /\ verifyFaults' >= verifyFaults
    BY <1>1, VerifyAssumption DEF VerifyInv, VerifyTypeOK
  <2> QED BY <2>1, <2>2, <1>1, <1>2, MeaningsStep
<1> QED BY <1>3, <1>4, <1>5 DEF VerifyInv

\* The gateway has answered and the consumer goes on to publish.
LEMMA AnsweredShape ==
  ASSUME NEW c \in CodeConsumers, agent[c] \in Sending, NEW id \in ProviderId, Answered(c, id)
  PROVE  \E a \in CodeAgent : /\ Becomes(c, a) /\ a.at = "publish"
                              /\ a.code = agent[c].code /\ a.id = id
<1> PICK a : a = [agent[c] EXCEPT !.at = "publish", !.id = id]
  OBVIOUS
<1>1. a \in CodeAgent /\ a.at = "publish" /\ a.code = agent[c].code /\ a.id = id
  BY DEF CodeAgent, Sending
<1> QED BY <1>1 DEF Answered

LEMMA TextOfCode ==
  ASSUME VerifyInv, NEW k \in Codes
  PROVE  TextOf(k) \in Text /\ TextOf(k) \in ProviderId /\ TextOf(k).code = k
<1>1. Cardinality(TextsOf(k)) \in Nat
  BY Numbers
<1> QED BY <1>1 DEF TextOf, TextsOf, Text, ProviderId

\* The rest of a call: types, and what the consumer is left with.
LEMMA CalledInv ==
  ASSUME VerifyInv, NEW c \in CodeConsumers, NEW a \in CodeAgent, Becomes(c, a), NEW k \in Codes,
         agent[c].code = k, agent[c].at \in {"call", "fallback"}, AcceptedOrNot(k),
         \/ a.at = "publish"
         \/ a.at = "idle"
         \/ a.at = "check" /\ a.code = k
         \/ a.at = "fallback" /\ a.code = k /\ agent[c].at = "call" /\ k \in FirstCodes,
         AgentMeans(a)',
         \/ a.at = "publish" /\ UNCHANGED <<verifyFaults, disturbed>>
         \/ Disturbs(k),
         UNCHANGED <<sends, expired, events, guids, rows, reports, reported, inFlight>>
  PROVE  VerifyInv'
<1>1. /\ disturbed' \in [Codes -> Nat]
      /\ \A j \in Codes : j # k => disturbed'[j] = disturbed[j]
      /\ \/ a.at = "publish" /\ disturbed'[k] = disturbed[k]
         \/ disturbed'[k] = disturbed[k] + 1
  BY DEF Disturbs, VerifyInv, VerifyTypeOK
<1>2. /\ verifyFaults' \in 0..MaxVerifyFaults /\ verifyFaults' \in Nat
      /\ verifyFaults' >= verifyFaults
  <2>1. CASE UNCHANGED verifyFaults
    BY <2>1, VerifyAssumption DEF VerifyInv, VerifyTypeOK
  <2>2. CASE Disturbs(k)
    BY <2>2, VerifyFaultType DEF VerifyInv, Disturbs
  <2> QED BY <2>1, <2>2
<1>3. texts \subseteq texts' /\ texts' \subseteq Text /\ late' \in [Codes -> Nat]
  BY TextsGrow
<1>4. VerifyTypeOK'
  BY <1>1, <1>2, <1>3 DEF Becomes, VerifyInv, VerifyTypeOK, CodeAgent
<1>5. Budgets'
  BY <1>1, CallStep
<1>6. Meanings'
  BY <1>2, <1>3, MeaningsStep
<1> QED BY <1>4, <1>5, <1>6 DEF VerifyInv

LEMMA KavenegarInv ==
  ASSUME VerifyInv, NEW c \in CodeConsumers, CallKavenegar(c)
  PROVE  VerifyInv'
<1> PICK k : k = agent[c].code
  OBVIOUS
<1>1. /\ agent[c].at = "call" /\ agent[c] \in Sending /\ k \in Codes /\ k \notin FirstCodes
      /\ UNCHANGED <<sends, expired, events, guids, rows, reports, reported, inFlight>>
  BY AgentShape DEF CallKavenegar, VerifyInv
<1>2. CASE Accepted(k) /\ Answered(c, TextOf(k)) /\ UNCHANGED <<verifyFaults, disturbed>>
  <2>1. PICK a \in CodeAgent : /\ Becomes(c, a) /\ a.at = "publish"
                               /\ a.code = k /\ a.id = TextOf(k)
    BY <1>1, <1>2, TextOfCode, AnsweredShape
  <2>2. TextOf(k) \in texts' /\ TextOf(k).code = k
    BY <1>1, <1>2, TextOfCode DEF Accepted
  <2>3. AgentMeans(a)'
    BY <2>1, <2>2 DEF AgentMeans, Means
  <2> QED BY <1>1, <1>2, <2>1, <2>3, CalledInv DEF AcceptedOrNot
<1>3. CASE Disturbs(k) /\ AcceptedOrNot(k) /\ (RetriedVerify(c) \/ Ends(c))
  <2>1. PICK a \in CodeAgent : /\ Becomes(c, a)
                               /\ a.at = "idle" \/ (a.at = "check" /\ a.code = k)
    <3>1. CASE RetriedVerify(c)
      BY <3>1, <1>1, RetriedShape DEF Idle, VerifyInv
    <3>2. CASE Ends(c)
      <4>1. Idle \in CodeAgent /\ Idle.at = "idle"
        BY DEF Idle, CodeAgent
      <4> QED BY <4>1, <3>2 DEF Ends
    <3> QED BY <3>1, <3>2, <1>3
  <2>2. AgentMeans(a)'
    BY <2>1 DEF AgentMeans
  <2> QED BY <1>1, <1>3, <2>1, <2>2, CalledInv
<1> QED BY <1>2, <1>3 DEF CallKavenegar

LEMMA MedianaInv ==
  ASSUME VerifyInv, NEW c \in CodeConsumers, CallMediana(c)
  PROVE  VerifyInv'
<1> PICK k : k = agent[c].code
  OBVIOUS
<1>1. /\ agent[c].at = "call" /\ agent[c] \in Sending /\ k \in Codes /\ k \in FirstCodes
      /\ EmptyId \in ProviderId
      /\ UNCHANGED <<sends, expired, events, guids, rows, reports, reported, inFlight>>
  BY AgentShape DEF CallMediana, VerifyInv, ProviderId
<1>2. CASE Accepted(k) /\ Answered(c, EmptyId) /\ UNCHANGED <<verifyFaults, disturbed>>
  <2>1. PICK a \in CodeAgent : /\ Becomes(c, a) /\ a.at = "publish" /\ a.code = k
    BY <1>1, <1>2, AnsweredShape
  <2>2. TextOf(k) \in texts' /\ TextOf(k).code = k
    BY <1>1, <1>2, TextOfCode DEF Accepted
  <2>3. AgentMeans(a)'
    BY <1>1, <2>1, <2>2 DEF AgentMeans, Means
  <2> QED BY <1>1, <1>2, <2>1, <2>3, CalledInv DEF AcceptedOrNot
<1>3. CASE /\ Disturbs(k) /\ AcceptedOrNot(k)
           /\ Becomes(c, [agent[c] EXCEPT !.at = "fallback"]) \/ Answered(c, EmptyId)
  <2>1. PICK a \in CodeAgent : /\ Becomes(c, a) /\ a.at \in {"fallback", "publish"}
                               /\ a.code = k
    <3>1. CASE Answered(c, EmptyId)
      BY <3>1, <1>1, AnsweredShape
    <3>2. CASE Becomes(c, [agent[c] EXCEPT !.at = "fallback"])
      <4> PICK a : a = [agent[c] EXCEPT !.at = "fallback"]
        OBVIOUS
      <4>1. a \in CodeAgent /\ a.at = "fallback" /\ a.code = k
        BY <1>1 DEF CodeAgent, Sending
      <4> QED BY <4>1, <3>2
    <3> QED BY <3>1, <3>2, <1>3
  <2>2. verifyFaults' > 0 /\ verifyFaults' # 0
    <3>1. verifyFaults' > 0 /\ verifyFaults' \in Nat
      BY <1>3, VerifyFaultType DEF Disturbs, VerifyInv
    <3> QED BY <3>1
  <2>3. AgentMeans(a)'
    BY <1>1, <2>1, <2>2 DEF AgentMeans, Means
  <2> QED BY <1>1, <1>3, <2>1, <2>3, CalledInv
<1> QED BY <1>2, <1>3 DEF CallMediana

LEMMA FallBackInv ==
  ASSUME VerifyInv, NEW c \in CodeConsumers, FallBack(c)
  PROVE  VerifyInv'
<1> PICK k : k = agent[c].code
  OBVIOUS
<1>1. /\ agent[c].at = "fallback" /\ agent[c] \in Sending /\ k \in Codes /\ k \in FirstCodes
      /\ EmptyId \in ProviderId /\ verifyFaults > 0
      /\ UNCHANGED <<sends, expired, events, guids, rows, reports, reported, inFlight>>
  BY AgentShape DEF FallBack, VerifyInv, Meanings, AgentMeans, ProviderId
<1>2. PICK id \in ProviderId : AcceptedOrNot(k) /\ Answered(c, id)
  BY <1>1, TextOfCode DEF FallBack, AcceptedOrNot
<1>3. PICK a \in CodeAgent : Becomes(c, a) /\ a.at = "publish" /\ a.code = k
  BY <1>1, <1>2, AnsweredShape
<1>4. UNCHANGED <<verifyFaults, disturbed>> \/ Disturbs(k)
  BY DEF FallBack
<1>5. verifyFaults' # 0
  <2>1. verifyFaults \in Nat
    BY VerifyAssumption DEF VerifyInv, VerifyTypeOK
  <2>2. CASE Disturbs(k)
    <3>1. verifyFaults' > 0 /\ verifyFaults' \in Nat
      BY <2>2, VerifyFaultType DEF Disturbs, VerifyInv
    <3> QED BY <3>1
  <2> QED BY <2>1, <2>2, <1>1, <1>4
<1>6. AgentMeans(a)'
  BY <1>1, <1>3, <1>5 DEF AgentMeans, Means
<1> QED BY <1>1, <1>2, <1>3, <1>4, <1>6, CalledInv

LEMMA PublishSentInv ==
  ASSUME VerifyInv, NEW c \in CodeConsumers, PublishSent(c)
  PROVE  VerifyInv'
<1>1. /\ agent[c].at = "publish" /\ agent[c].code \in Codes /\ agent[c].id \in ProviderId
      /\ UNCHANGED <<sends, expired, texts, rows, reports, reported, disturbed, inFlight, late>>
  BY AgentShape DEF PublishSent, VerifyInv
<1> PICK e : e = [guid |-> guids + 1, code |-> agent[c].code, id |-> agent[c].id]
  OBVIOUS
<1>2. e \in Event /\ Means(e.code, e.id)
  <2>1. Means(agent[c].code, agent[c].id)
    BY <1>1 DEF VerifyInv, Meanings, AgentMeans
  <2>2. guids + 1 \in Nat
    BY DEF VerifyInv, VerifyTypeOK
  <2> QED BY <2>1, <2>2, <1>1 DEF Event
<1>3. /\ Becomes(c, Idle) /\ Idle.at = "idle" /\ Idle \in CodeAgent
  BY DEF PublishSent, Ends, Idle, CodeAgent
<1>4. /\ events' \subseteq events \cup {e} /\ guids' \in Nat
      /\ verifyFaults' \in 0..MaxVerifyFaults /\ verifyFaults' \in Nat
      /\ verifyFaults' >= verifyFaults
  <2>1. CASE guids' = guids + 1 /\ UNCHANGED verifyFaults /\ events' = events \cup {e}
    BY <2>1, VerifyAssumption DEF VerifyInv, VerifyTypeOK
  <2>2. CASE VerifyFault /\ UNCHANGED <<events, guids>>
    BY <2>2, VerifyFaultType DEF VerifyInv, VerifyTypeOK
  <2> QED BY <2>1, <2>2 DEF PublishSent
<1>5. VerifyTypeOK'
  BY <1>1, <1>2, <1>3, <1>4 DEF Becomes, VerifyInv, VerifyTypeOK, CodeAgent
<1>6. Budgets'
  <2>1. agent[c].at \notin Unsent /\ Idle.at \notin Unsent
    BY <1>1, <1>3 DEF Unsent
  <2> QED BY <2>1, <1>1, <1>3, QuietStep
<1>7. Meanings'
  <2>1. AgentMeans(Idle)'
    BY <1>3 DEF AgentMeans
  <2>2. verifyFaults \in Nat
    BY VerifyAssumption DEF VerifyInv, VerifyTypeOK
  <2>3. Means(e.code, e.id)'
    BY <2>2, <1>1, <1>2, <1>4, MeansGrow
  <2>4. \A d \in events' : d \in events \/ Means(d.code, d.id)'
    BY <2>3, <1>4
  <2> QED BY <2>1, <2>4, <1>1, <1>3, <1>4, MeaningsStep
<1> QED BY <1>5, <1>6, <1>7 DEF VerifyInv

LEMMA TakeEventInv ==
  ASSUME VerifyInv, NEW c \in CodeConsumers, NEW e \in events, TakeEvent(c, e)
  PROVE  VerifyInv'
<1> PICK a : a = [at |-> "insert", event |-> e, attempt |-> 0]
  OBVIOUS
<1>1. a \in CodeAgent /\ a.at = "insert" /\ a.event = e
  BY VerifyAssumption DEF CodeAgent, Recording, VerifyInv, VerifyTypeOK
<1>2. /\ Becomes(c, a) /\ agent[c].at = "idle" /\ events' = events \ {e}
      /\ UNCHANGED <<sends, expired, texts, guids, rows, reports, reported, verifyFaults,
                     disturbed, inFlight, late>>
  BY DEF TakeEvent, Idle
<1>3. VerifyTypeOK'
  BY <1>1, <1>2 DEF Becomes, VerifyInv, VerifyTypeOK, CodeAgent
<1>4. Budgets'
  <2>1. agent[c].at \notin Unsent /\ a.at \notin Unsent
    BY <1>1, <1>2 DEF Unsent
  <2> QED BY <2>1, <1>2, QuietStep
<1>5. Meanings'
  <2>1. verifyFaults' \in Nat /\ verifyFaults' >= verifyFaults /\ verifyFaults \in Nat
    BY <1>2, VerifyAssumption DEF VerifyInv, VerifyTypeOK
  <2>2. Means(e.code, e.id)'
    BY <2>1, <1>2, MeansGrow DEF VerifyInv, Meanings
  <2>3. AgentMeans(a)'
    BY <2>2, <1>1 DEF AgentMeans
  <2> QED BY <2>1, <2>3, <1>2, MeaningsStep
<1> QED BY <1>3, <1>4, <1>5 DEF VerifyInv

\* The row of an event, if there is none with its key, or no row.
LEMMA InsertedRows ==
  ASSUME VerifyTypeOK, NEW e \in Event,
         UNCHANGED rows \/ (~HasRow(e) /\ Inserted(e))
  PROVE  /\ rows' \subseteq VerifyRow
         /\ \A r, s \in rows' : r.guid = s.guid => r = s
         /\ \A r \in rows' : r \in rows \/ (r.code = e.code /\ r.id = e.id)
<1> PICK row : row = RowOf(e)
  OBVIOUS
<1>1. row \in VerifyRow /\ row.guid = e.guid /\ row.code = e.code /\ row.id = e.id
  BY DEF RowOf, VerifyRow, Event
<1>2. rows' = rows \/ (rows' = rows \cup {row} /\ \A r \in rows : r.guid # e.guid)
  BY DEF Inserted, HasRow
<1> QED BY <1>1, <1>2 DEF VerifyTypeOK

LEMMA InsertRowInv ==
  ASSUME VerifyInv, NEW c \in CodeConsumers, InsertRow(c)
  PROVE  VerifyInv'
<1> PICK e : e = agent[c].event
  OBVIOUS
<1>1. /\ agent[c].at = "insert" /\ e \in Event /\ agent[c] # Idle
      /\ UNCHANGED <<sends, expired, texts, guids, reports, reported, disturbed,
                     inFlight, late>>
  BY AgentShape DEF InsertRow, VerifyInv, Idle
<1>2. PICK a \in CodeAgent : /\ Becomes(c, a) /\ a.at \in {"insert", "idle"}
                             /\ a.at = "insert" => a.event = e
  <2>1. CASE RetriedVerify(c)
    BY <2>1, <1>1, RetriedShape DEF VerifyInv
  <2>2. CASE Ends(c)
    <3>1. Idle \in CodeAgent /\ Idle.at = "idle"
      BY DEF Idle, CodeAgent
    <3> QED BY <3>1, <2>2 DEF Ends
  <2> QED BY <2>1, <2>2 DEF InsertRow
<1>3. /\ UNCHANGED rows \/ (~HasRow(e) /\ Inserted(e))
      /\ events' \subseteq events \cup {e}
  BY DEF InsertRow
<1>4. /\ verifyFaults' \in 0..MaxVerifyFaults /\ verifyFaults' \in Nat /\ verifyFaults \in Nat
      /\ verifyFaults' >= verifyFaults
  <2>1. CASE UNCHANGED verifyFaults
    BY <2>1, VerifyAssumption DEF VerifyInv, VerifyTypeOK
  <2>2. CASE VerifyFault
    BY <2>2, VerifyFaultType DEF VerifyInv
  <2> QED BY <2>1, <2>2 DEF InsertRow
<1>5. /\ rows' \subseteq VerifyRow
      /\ \A r, s \in rows' : r.guid = s.guid => r = s
      /\ \A r \in rows' : r \in rows \/ (r.code = e.code /\ r.id = e.id)
  BY <1>1, <1>3, InsertedRows DEF VerifyInv
<1>6. VerifyTypeOK'
  BY <1>1, <1>2, <1>3, <1>4, <1>5 DEF Becomes, VerifyInv, VerifyTypeOK, CodeAgent
<1>7. Budgets'
  <2>1. agent[c].at \notin Unsent /\ a.at \notin Unsent
    BY <1>1, <1>2 DEF Unsent
  <2> QED BY <2>1, <1>1, <1>2, QuietStep
<1>8. Meanings'
  <2>1. Means(e.code, e.id)
    BY <1>1 DEF VerifyInv, Meanings, AgentMeans
  <2>2. Means(e.code, e.id)'
    BY <2>1, <1>1, <1>4, MeansGrow
  <2>3. AgentMeans(a)'
    BY <2>2, <1>2 DEF AgentMeans
  <2>4. \A d \in events' : d \in events \/ Means(d.code, d.id)'
    BY <2>2, <1>3
  <2>5. \A r \in rows' : r \in rows \/ Means(r.code, r.id)'
    BY <2>2, <1>5
  <2> QED BY <2>3, <2>4, <2>5, <1>1, <1>2, <1>4, MeaningsStep
<1> QED BY <1>6, <1>7, <1>8 DEF VerifyInv

\* Nobody has been late before a code expires.
LEMMA ExpireInv ==
  ASSUME VerifyInv, NEW k \in Codes, Expire(k)
  PROVE  VerifyInv'
<1> DEFINE calls == AtWork({"call"}, k)
           falls == AtWork({"fallback"}, k)
<1>1. UNCHANGED <<sends, texts, events, guids, rows, reports, reported, agent, verifyFaults,
                  disturbed, late>>
  BY DEF Expire
<1>2. inFlight' = [inFlight EXCEPT ![k] = Cardinality(calls) + Cardinality(falls)]
  <2>1. {c \in CodeConsumers : /\ agent[c] \in Sending /\ agent[c].code = k
                               /\ agent[c].at \in {"call", "fallback"}} = calls \cup falls
    <3>1. \A c \in CodeConsumers : agent[c].at \in {"call", "fallback"} => agent[c] \in Sending
      BY AgentShape DEF VerifyInv
    <3> QED BY <3>1 DEF AtWork
  <2>2. IsFiniteSet(calls) /\ IsFiniteSet(falls) /\ calls \cap falls = {}
    BY Numbers DEF AtWork
  <2>3. Cardinality(calls \cup falls) = Cardinality(calls) + Cardinality(falls)
    <3>1. Cardinality(calls \cup falls)
            = Cardinality(calls) + Cardinality(falls) - Cardinality(calls \cap falls)
      <4> HIDE DEF calls, falls
      <4> QED BY <2>2, FS_Union
    <3>2. Cardinality(calls \cap falls) = 0
      BY <2>2, FS_EmptySet
    <3>3. Cardinality(calls) \in Nat /\ Cardinality(falls) \in Nat
      BY Numbers
    <3> HIDE DEF calls, falls
    <3> QED BY <3>1, <3>2, <3>3
  <2> QED BY <2>1, <2>3 DEF Expire
<1>3. Cardinality(calls) \in Nat /\ Cardinality(falls) \in Nat
  BY Numbers
<1>4. VerifyTypeOK'
  BY <1>1, <1>2, <1>3 DEF Expire, VerifyInv, VerifyTypeOK
<1>5. Budgets'
  <2> SUFFICES ASSUME NEW j \in Codes PROVE Budget(j)' /\ LateBudget(j)'
    BY DEF Budgets
  <2>1. \A S : AtWork(S, j)' = AtWork(S, j)
    BY <1>1 DEF AtWork
  <2>2. Budget(j)'
    BY <2>1, <1>1 DEF VerifyInv, Budgets, Budget, TextsOf
  <2>3. CASE j # k
    <3>1. (j \in expired' <=> j \in expired) /\ inFlight'[j] = inFlight[j]
      BY <2>3, <1>2 DEF Expire, VerifyInv, VerifyTypeOK
    <3>2. LateBudget(j)'
      BY <3>1, <2>1, <1>1 DEF VerifyInv, Budgets, LateBudget
    <3> QED BY <2>2, <3>2
  <2>4. CASE j = k
    <3>1. /\ late'[k] = 0 /\ k \in expired'
          /\ inFlight'[k] = Cardinality(calls) + Cardinality(falls)
      BY <1>1, <1>2 DEF Expire, VerifyInv, VerifyTypeOK, Budgets, LateBudget
    <3>2. Cardinality(calls') = Cardinality(calls) /\ Cardinality(falls') = Cardinality(falls)
      BY <2>1, <2>4
    <3> PICK p \in Nat, f \in Nat : p = Cardinality(calls) /\ f = Cardinality(falls)
      BY <1>3
    <3>3. IF k \in FirstCodes THEN 0 + 2 * p + f <= 2 * (p + f) ELSE 0 + p + f <= p + f
      OBVIOUS
    <3> QED BY <2>2, <2>4, <3>1, <3>2, <3>3 DEF LateBudget
  <2> QED BY <2>3, <2>4
<1>6. Meanings'
  BY <1>1 DEF VerifyInv, Meanings, AgentMeans, Means
<1> QED BY <1>4, <1>5, <1>6 DEF VerifyInv

LEMMA ReportTextInv ==
  ASSUME VerifyInv, NEW t \in texts, NEW delivered \in BOOLEAN, ReportText(t, delivered)
  PROVE  VerifyInv'
<1>1. UNCHANGED <<sends, expired, texts, events, guids, rows, agent, verifyFaults, disturbed,
                  inFlight, late>>
  BY DEF ReportText
<1>2. VerifyTypeOK'
  BY <1>1 DEF ReportText, VerifyInv, VerifyTypeOK
<1>3. Budgets'
  BY <1>1 DEF VerifyInv, Budgets, Budget, LateBudget, AtWork, TextsOf
<1>4. Meanings'
  BY <1>1 DEF VerifyInv, Meanings, AgentMeans, Means
<1> QED BY <1>2, <1>3, <1>4 DEF VerifyInv

\* A delivery report changes nothing of a row but its status.
LEMMA CheckVerifyMessageInv ==
  ASSUME VerifyInv, NEW r \in reports, CheckVerifyMessage(r)
  PROVE  VerifyInv'
<1>1. /\ UNCHANGED <<sends, expired, texts, events, guids, reported, agent, verifyFaults,
                     disturbed, inFlight, late>>
      /\ reports' = reports \ {r}
  BY DEF CheckVerifyMessage
<1>2. /\ rows' \subseteq VerifyRow
      /\ \A p, q \in rows' : p.guid = q.guid => p = q
      /\ \A q \in rows' : \E p \in rows : q.code = p.code /\ q.id = p.id
  <2>1. CASE UNCHANGED rows
    BY <2>1 DEF VerifyInv, VerifyTypeOK
  <2>2. CASE \E v \in rows :
              rows' = (rows \ {v}) \cup
                {[v EXCEPT !.status = IF r[2] THEN "Delivered" ELSE "UnDelivered"]}
    <3>1. PICK v \in rows :
              rows' = (rows \ {v}) \cup
                {[v EXCEPT !.status = IF r[2] THEN "Delivered" ELSE "UnDelivered"]}
      BY <2>2
    <3> PICK w : w = [v EXCEPT !.status = IF r[2] THEN "Delivered" ELSE "UnDelivered"]
      OBVIOUS
    <3>2. w \in VerifyRow /\ w.guid = v.guid /\ w.code = v.code /\ w.id = v.id
      BY DEF VerifyInv, VerifyTypeOK, VerifyRow
    <3>3. /\ rows \subseteq VerifyRow
          /\ \A p, q \in rows : p.guid = q.guid => p = q
      BY DEF VerifyInv, VerifyTypeOK
    <3>4. rows' = (rows \ {v}) \cup {w}
      BY <3>1
    <3>5. rows' \subseteq VerifyRow
      BY <3>2, <3>3, <3>4
    <3>6. ASSUME NEW p \in rows', NEW q \in rows', p.guid = q.guid
          PROVE  p = q
      <4>1. CASE p = w /\ q = w
        BY <4>1
      <4>2. CASE p = w /\ q # w
        BY <4>2, <3>2, <3>3, <3>4, <3>6
      <4>3. CASE p # w /\ q = w
        BY <4>3, <3>2, <3>3, <3>4, <3>6
      <4>4. CASE p # w /\ q # w
        BY <4>4, <3>3, <3>4, <3>6
      <4> QED BY <4>1, <4>2, <4>3, <4>4
    <3>7. \A q \in rows' : \E p \in rows : q.code = p.code /\ q.id = p.id
      BY <3>2, <3>4
    <3> QED BY <3>5, <3>6, <3>7
  <2> QED BY <2>1, <2>2 DEF CheckVerifyMessage
<1>3. VerifyTypeOK'
  BY <1>1, <1>2 DEF VerifyInv, VerifyTypeOK
<1>4. Budgets'
  BY <1>1 DEF VerifyInv, Budgets, Budget, LateBudget, AtWork, TextsOf
<1>5. Meanings'
  BY <1>1, <1>2 DEF VerifyInv, Meanings, AgentMeans, Means
<1> QED BY <1>3, <1>4, <1>5 DEF VerifyInv

LEMMA VerifyNextInv == ASSUME VerifyInv, [VerifyNext]_verifyVars PROVE VerifyInv'
<1>1. CASE UNCHANGED verifyVars
  <2>1. VerifyTypeOK'
    BY <1>1 DEF verifyVars, VerifyInv, VerifyTypeOK
  <2>2. Budgets'
    BY <1>1 DEF verifyVars, VerifyInv, Budgets, Budget, LateBudget, AtWork, TextsOf
  <2>3. Meanings'
    BY <1>1 DEF verifyVars, VerifyInv, Meanings, AgentMeans, Means
  <2> QED BY <2>1, <2>2, <2>3 DEF VerifyInv
<1>2. CASE VerifyNext
  BY <1>2, TakeSendInv, TakeEventInv, CheckCodeInv, KavenegarInv, MedianaInv, FallBackInv,
     PublishSentInv, InsertRowInv, SendReturnsInv, ExpireInv, ReportTextInv,
     CheckVerifyMessageInv DEF VerifyNext
<1> QED BY <1>1, <1>2

LEMMA VerifyInvariant == VerifySpec => []VerifyInv
BY VerifyInitInv, VerifyNextInv, PTL DEF VerifySpec

\* SendVerifySmsConsumer and its gateways: the row of a Kavenegar code names an
\* accepted text, and without failures every row means a text, whatever the broker
\* delivers again and however many consumers there are.
THEOREM VerifyRowMeansText == VerifySpec => []RowMeansText
<1>1. VerifyInv => RowMeansText
  BY DEF VerifyInv, Meanings, Means, RowMeansText
<1> QED BY <1>1, VerifyInvariant, PTL

\* The retries of SendVerifySmsConsumer: a code is texted at most once more for each
\* failed call and each second delivery.
THEOREM VerifyTextsBounded == VerifySpec => []TextsAreDisturbances
<1>1. VerifyInv => TextsAreDisturbances
  <2> SUFFICES ASSUME VerifyInv, NEW k \in Codes
               PROVE  Cardinality({t \in texts : t.code = k}) <= 1 + disturbed[k]
    BY DEF TextsAreDisturbances
  <2>1. sends[k] + Cardinality(AtWork(Unsent, k)) + Cardinality(TextsOf(k)) <= 1 + disturbed[k]
    BY DEF VerifyInv, Budgets, Budget
  <2>2. Cardinality(TextsOf(k)) <= 1 + disturbed[k]
    BY <2>1, Numbers
  <2> QED BY <2>2 DEF TextsOf
<1> QED BY <1>1, VerifyInvariant, PTL

\* The ExpireTime check at the start of every attempt: after it has passed, only the
\* attempts that were past their check can text, once each, or twice with Mediana.
THEOREM VerifyLateBounded == VerifySpec => []FewLateTexts
<1>1. VerifyInv => FewLateTexts
  <2> SUFFICES ASSUME VerifyInv, NEW k \in Codes
               PROVE  late[k] <= inFlight[k] * (IF k \in FirstCodes THEN 2 ELSE 1)
    BY DEF FewLateTexts
  <2> PICK p \in Nat, f \in Nat, l \in Nat, n \in Nat :
        /\ p = Cardinality(AtWork({"call"}, k)) /\ f = Cardinality(AtWork({"fallback"}, k))
        /\ l = late[k] /\ n = inFlight[k]
    BY Numbers
  <2>1. \/ l = 0
        \/ IF k \in FirstCodes THEN l + 2 * p + f <= 2 * n ELSE l + p + f <= n
    BY DEF VerifyInv, Budgets, LateBudget
  <2>2. CASE k \in FirstCodes
    <3>1. l <= 2 * n
      BY <2>1, <2>2
    <3> QED BY <3>1, <2>2
  <2>3. CASE k \notin FirstCodes
    <3>1. l <= n
      BY <2>1, <2>3
    <3> QED BY <3>1, <2>3
  <2> QED BY <2>2, <2>3
<1> QED BY <1>1, VerifyInvariant, PTL
-----------------------------------------------------------------------------
(* Messages to contacts: the invariant                                     *)

\* What a failing attempt can leave behind, and what it cannot.
Stages ==
  /\ stage # "steps" => steps = <<>>
  /\ stage = "idle" => plan = NoPlan
  /\ stage = "steps" => ask \in Ask
  /\ stage \in {"idle", "steps"} => todo = <<>> /\ card = Null
  /\ stage = "exist" => attempt > 0

\* A due time that counts is at most the loop's.
Reached(c) ==
  (plan[c] # Null /\ c \notin ask.own \cup {"Email"}) => FromNow(plan[c].due) <= FromNow(dueTime)

Planned ==
  stage = "steps" =>
    /\ \A c \in AllChannels : Reached(c)
    /\ \A j \in DOMAIN steps :
         plan[steps[j].channel] # Null <=> steps[j].channel \in ask.available

\* Every attempt but the first follows a failure or the one delete, which makes the
\* handler fail if it comes while the row is being saved.
Interrupted == stage = "undo" \/ (stage \in {"jobs", "save"} /\ card = Null)

Attempts ==
  attempt + (IF Interrupted THEN 1 ELSE 0) <= contactFaults + (IF removed = "no" THEN 0 ELSE 1)

\* The channels the current attempt has yet to order: a part waits either for its job
\* or for its command, and is in the list once.
OnList == {todo[i] : i \in DOMAIN todo}

Owed(c) ==
  \/ stage \in {"idle", "steps", "exist", "row"}
  \/ stage \in {"jobs", "publish"} /\ c \in OnList
  \/ stage \in {"jobs", "save"} /\ Immediate(c)

Listed ==
  /\ \A i, j \in DOMAIN todo : todo[i] = todo[j] => i = j
  /\ stage = "jobs" => \A c \in OnList : Delayable(c)
  /\ stage = "publish" => \A c \in OnList : Immediate(c)

OwedOne(c) == IF Owed(c) THEN 1 ELSE 0

\* The first attempt, while its row is there: what was ordered has found it.
Undisturbed == attempt = 0 /\ card # Null /\ stage \in {"jobs", "save", "publish", "done"}

Bounded(c) == Ordered(c) + OwedOne(c) <= attempt + 1 + jobReruns[c]

\* What the first attempt has yet to order has no job that could have run, or run again.
NotBegun(c) == (attempt = 0 /\ Owed(c)) => Ordered(c) = 0 /\ jobReruns[c] = 0

Balanced(c) ==
  (Undisturbed /\ plan[c] # Null)
    => Ordered(c) + OwedOne(c) = 1 + jobReruns[c] \/ (c = "Sms" /\ Delayable(c))

Orders ==
  /\ IsFiniteSet(jobs)
  /\ \A c \in AllChannels : Bounded(c) /\ NotBegun(c) /\ Balanced(c)
  /\ (Undisturbed /\ stage \in {"publish", "done"}) => card.saved

Gone == removed = "late" => card = Null /\ stage = "done"

ContactInv ==
  /\ ContactTypeOK
  /\ Stages /\ Planned /\ StepsInOrder /\ ConditionsComplete
  /\ Attempts /\ Listed /\ Orders /\ Gone

-----------------------------------------------------------------------------
(* Messages to contacts: lists of channels                                 *)

Elements(s) == {s[i] : i \in DOMAIN s}

Distinct(s) == \A i, j \in DOMAIN s : s[i] = s[j] => i = j

LEMMA Extended ==
  ASSUME NEW s \in Seq(AllChannels), Distinct(s), NEW c \in AllChannels, c \notin Elements(s)
  PROVE  /\ s \o <<c>> \in Seq(AllChannels) /\ Distinct(s \o <<c>>)
         /\ Elements(s \o <<c>>) = Elements(s) \cup {c}
<1> DEFINE t == s \o <<c>>
<1>1. /\ t \in Seq(AllChannels) /\ Len(t) = Len(s) + 1 /\ Len(s) \in Nat
      /\ DOMAIN s = 1..Len(s) /\ DOMAIN t = 1..(Len(s) + 1)
      /\ \A i \in 1..Len(s) : t[i] = s[i]
      /\ t[Len(s) + 1] = c
  OBVIOUS
<1> HIDE DEF t
<1>2. Distinct(t)
  BY <1>1 DEF Distinct, Elements
<1>3. Elements(t) = Elements(s) \cup {c}
  <2>1. \A i \in DOMAIN t : t[i] \in Elements(s) \cup {c}
    BY <1>1 DEF Elements
  <2>2. \A i \in DOMAIN s : i \in DOMAIN t /\ t[i] = s[i]
    BY <1>1
  <2>3. Len(s) + 1 \in DOMAIN t /\ t[Len(s) + 1] = c
    BY <1>1
  <2> QED BY <2>1, <2>2, <2>3 DEF Elements
<1> QED BY <1>1, <1>2, <1>3 DEF t

LEMMA NothingListed ==
  <<>> \in Seq(AllChannels) /\ Distinct(<<>>) /\ Elements(<<>>) = {}
BY DEF Distinct, Elements

LEMMA ExtendedByJob ==
  ASSUME NEW s \in Seq(AllChannels), Distinct(s), NEW c \in AllChannels, c \notin Elements(s)
  PROVE  /\ s \o JobFor(c) \in Seq(AllChannels) /\ Distinct(s \o JobFor(c))
         /\ Elements(s \o JobFor(c)) = Elements(s) \cup {d \in {c} : Delayable(d)}
<1>1. CASE Delayable(c)
  BY <1>1, Extended DEF JobFor
<1>2. CASE ~Delayable(c)
  BY <1>2 DEF JobFor
<1> QED BY <1>1, <1>2

LEMMA ExtendedByCommand ==
  ASSUME NEW s \in Seq(AllChannels), Distinct(s), NEW c \in AllChannels, c \notin Elements(s)
  PROVE  /\ s \o CommandFor(c) \in Seq(AllChannels) /\ Distinct(s \o CommandFor(c))
         /\ Elements(s \o CommandFor(c)) = Elements(s) \cup {d \in {c} : Immediate(d)}
<1>1. CASE Immediate(c)
  BY <1>1, Extended DEF CommandFor
<1>2. CASE ~Immediate(c)
  BY <1>2 DEF CommandFor
<1> QED BY <1>1, <1>2

\* AddJobAndSetToDomainSeparate schedules each part that waits, once.
LEMMA ScheduleOrderLists ==
  /\ ScheduleOrder \in Seq(AllChannels) /\ Distinct(ScheduleOrder)
  /\ Elements(ScheduleOrder) = {c \in AllChannels : Delayable(c)}
<1>1. /\ "Push" \in AllChannels /\ "Notification" \in AllChannels /\ "Sms" \in AllChannels
      /\ "Email" \in AllChannels /\ "Telegram" \in AllChannels
  BY DEF AllChannels
<1> DEFINE a == <<>> \o JobFor("Push")
           b == a \o JobFor("Notification")
           c == b \o JobFor("Sms")
           d == c \o JobFor("Email")
           e == d \o JobFor("Telegram")
<1>2. /\ a \in Seq(AllChannels) /\ Distinct(a)
      /\ Elements(a) = {k \in {"Push"} : Delayable(k)}
  BY <1>1, NothingListed, ExtendedByJob
<1>3. a = JobFor("Push")
  <2>1. JobFor("Push") \in Seq(AllChannels)
    BY <1>1 DEF JobFor
  <2> QED BY <2>1
<1> HIDE DEF a
<1>4. /\ b \in Seq(AllChannels) /\ Distinct(b)
      /\ Elements(b) = {k \in {"Push", "Notification"} : Delayable(k)}
  BY <1>1, <1>2, ExtendedByJob
<1> HIDE DEF b
<1>5. /\ c \in Seq(AllChannels) /\ Distinct(c)
      /\ Elements(c) = {k \in {"Push", "Notification", "Sms"} : Delayable(k)}
  BY <1>1, <1>4, ExtendedByJob
<1> HIDE DEF c
<1>6. /\ d \in Seq(AllChannels) /\ Distinct(d)
      /\ Elements(d) = {k \in {"Push", "Notification", "Sms", "Email"} : Delayable(k)}
  BY <1>1, <1>5, ExtendedByJob
<1> HIDE DEF d
<1>7. /\ e \in Seq(AllChannels) /\ Distinct(e)
      /\ Elements(e) = {k \in AllChannels : Delayable(k)}
  BY <1>1, <1>6, ExtendedByJob DEF AllChannels
<1>8. e = ScheduleOrder
  BY <1>3 DEF b, c, d, e, ScheduleOrder
<1> QED BY <1>7, <1>8

\* It publishes each of the others, once.
LEMMA PublishOrderLists ==
  /\ PublishOrder \in Seq(AllChannels) /\ Distinct(PublishOrder)
  /\ Elements(PublishOrder) = {c \in AllChannels : Immediate(c)}
<1>1. /\ "Push" \in AllChannels /\ "Notification" \in AllChannels /\ "Sms" \in AllChannels
      /\ "Email" \in AllChannels /\ "Telegram" \in AllChannels
  BY DEF AllChannels
<1> DEFINE a == <<>> \o CommandFor("Push")
           b == a \o CommandFor("Sms")
           c == b \o CommandFor("Notification")
           d == c \o CommandFor("Email")
           e == d \o CommandFor("Telegram")
<1>2. /\ a \in Seq(AllChannels) /\ Distinct(a)
      /\ Elements(a) = {k \in {"Push"} : Immediate(k)}
  BY <1>1, NothingListed, ExtendedByCommand
<1>3. a = CommandFor("Push")
  <2>1. CommandFor("Push") \in Seq(AllChannels)
    BY <1>1 DEF CommandFor
  <2> QED BY <2>1
<1> HIDE DEF a
<1>4. /\ b \in Seq(AllChannels) /\ Distinct(b)
      /\ Elements(b) = {k \in {"Push", "Sms"} : Immediate(k)}
  BY <1>1, <1>2, ExtendedByCommand
<1> HIDE DEF b
<1>5. /\ c \in Seq(AllChannels) /\ Distinct(c)
      /\ Elements(c) = {k \in {"Push", "Sms", "Notification"} : Immediate(k)}
  BY <1>1, <1>4, ExtendedByCommand
<1> HIDE DEF c
<1>6. /\ d \in Seq(AllChannels) /\ Distinct(d)
      /\ Elements(d) = {k \in {"Push", "Sms", "Notification", "Email"} : Immediate(k)}
  BY <1>1, <1>5, ExtendedByCommand
<1> HIDE DEF d
<1>7. /\ e \in Seq(AllChannels) /\ Distinct(e)
      /\ Elements(e) = {k \in AllChannels : Immediate(k)}
  BY <1>1, <1>6, ExtendedByCommand DEF AllChannels
<1>8. e = PublishOrder
  BY <1>3 DEF b, c, d, e, PublishOrder
<1> QED BY <1>7, <1>8

LEMMA FirstOfList ==
  ASSUME ContactInv, todo # <<>>
  PROVE  /\ Head(todo) \in AllChannels /\ Head(todo) \in OnList
         /\ Tail(todo) \in Seq(AllChannels) /\ Distinct(Tail(todo))
         /\ Elements(Tail(todo)) = OnList \ {Head(todo)}
<1>1. todo \in Seq(AllChannels) /\ \A i, j \in DOMAIN todo : todo[i] = todo[j] => i = j
  BY DEF ContactInv, ContactTypeOK, Listed
<1>2. /\ Tail(todo) \in Seq(AllChannels) /\ Len(todo) \in Nat \ {0}
      /\ DOMAIN todo = 1..Len(todo) /\ DOMAIN Tail(todo) = 1..(Len(todo) - 1)
      /\ \A i \in 1..(Len(todo) - 1) : Tail(todo)[i] = todo[i + 1]
      /\ Head(todo) = todo[1]
  BY <1>1
<1> DEFINE t == Tail(todo)
<1> HIDE DEF t
<1>3. /\ Head(todo) \in AllChannels /\ Head(todo) \in OnList
  BY <1>1, <1>2 DEF OnList
<1>4. Distinct(t)
  BY <1>1, <1>2 DEF Distinct, t
<1>5. Elements(t) = OnList \ {Head(todo)}
  <2>1. \A i \in DOMAIN t : t[i] \in OnList \ {Head(todo)}
    BY <1>1, <1>2 DEF t, OnList
  <2>2. ASSUME NEW i \in DOMAIN todo, i # 1 PROVE \E j \in DOMAIN t : t[j] = todo[i]
    <3>1. i - 1 \in DOMAIN t /\ t[i - 1] = todo[i]
      BY <1>2, <2>2 DEF t
    <3> QED BY <3>1
  <2> QED BY <2>1, <2>2, <1>2 DEF Elements, OnList
<1> QED BY <1>2, <1>3, <1>4, <1>5 DEF t

-----------------------------------------------------------------------------
(* Messages to contacts: what was ordered                                  *)

JobsFor(c) == {j \in jobs : j.channel = c}

LEMMA Counts ==
  ASSUME ContactInv, NEW c \in AllChannels
  PROVE  /\ IsFiniteSet(JobsFor(c)) /\ Cardinality(JobsFor(c)) \in Nat
         /\ queued[c] \in Nat /\ handled[c] \in Nat /\ attempt \in Nat
         /\ Ordered(c) = Cardinality(JobsFor(c)) + queued[c] + handled[c]
         /\ Ordered(c) \in Nat /\ OwedOne(c) \in {0, 1} /\ jobReruns[c] \in Nat
         /\ Ordered(c) + OwedOne(c) <= attempt + 1 + jobReruns[c]
<1>1. JobsFor(c) \subseteq jobs /\ IsFiniteSet(jobs)
  BY DEF JobsFor, ContactInv, Orders
<1>2. IsFiniteSet(JobsFor(c)) /\ Cardinality(JobsFor(c)) \in Nat
  BY <1>1, FS_Subset, FS_CardinalityType
<1>3. queued[c] \in Nat /\ handled[c] \in Nat /\ attempt \in Nat /\ jobReruns[c] \in Nat
  BY ContactAssumption DEF ContactInv, ContactTypeOK
<1>4. Ordered(c) = Cardinality(JobsFor(c)) + queued[c] + handled[c]
  BY DEF Ordered, JobsFor
<1> QED BY <1>2, <1>3, <1>4 DEF OwedOne, ContactInv, Orders, Bounded

\* A later attempt may order everything once more.
LEMMA OrdersAgain ==
  ASSUME ContactInv, UNCHANGED <<jobs, queued, handled, jobReruns>>, attempt' = attempt + 1
  PROVE  Orders'
<1>1. ~Undisturbed' /\ attempt' # 0
  BY ContactAssumption DEF Undisturbed, ContactInv, ContactTypeOK
<1>2. ASSUME NEW c \in AllChannels PROVE Bounded(c)'
  <2>1. Ordered(c)' = Ordered(c)
    BY DEF Ordered
  <2>2. OwedOne(c)' \in {0, 1}
    BY DEF OwedOne
  <2> QED BY <2>1, <2>2, Counts DEF Bounded
<1> QED BY <1>1, <1>2 DEF ContactInv, Orders, NotBegun, Balanced, Undisturbed

\* Neither orders nor what is owed changes, and the first attempt is no less disturbed.
LEMMA OrdersKept ==
  ASSUME ContactInv, UNCHANGED <<jobs, queued, handled, jobReruns, attempt, plan>>,
         \A c \in AllChannels : Owed(c)' => Owed(c),
         Undisturbed' => Undisturbed,
         Undisturbed' => \A c \in AllChannels : Owed(c) => Owed(c)',
         (Undisturbed' /\ stage' \in {"publish", "done"}) => card'.saved
  PROVE  Orders'
<1> SUFFICES ASSUME NEW c \in AllChannels
             PROVE  Bounded(c)' /\ NotBegun(c)' /\ Balanced(c)'
  BY DEF ContactInv, Orders
<1>1. Ordered(c)' = Ordered(c) /\ (Delayable(c)' <=> Delayable(c))
  BY DEF Ordered, Delayable
<1>2. OwedOne(c)' <= OwedOne(c) /\ OwedOne(c)' \in {0, 1} /\ OwedOne(c) \in {0, 1}
  BY DEF OwedOne
<1>3. Undisturbed' => OwedOne(c)' = OwedOne(c)
  BY DEF OwedOne
<1>4. Bounded(c)'
  BY <1>1, <1>2, Counts DEF Bounded
<1>5. Balanced(c)'
  <2> SUFFICES ASSUME Undisturbed', plan'[c] # Null
               PROVE  \/ Ordered(c)' + OwedOne(c)' = 1 + jobReruns'[c]
                      \/ c = "Sms" /\ Delayable(c)'
    BY DEF Balanced
  <2> QED BY <1>1, <1>3 DEF ContactInv, Orders, Balanced
<1>6. NotBegun(c)'
  BY <1>1 DEF ContactInv, Orders, NotBegun
<1> QED BY <1>4, <1>5, <1>6

\* The loop over the steps orders nothing.
LEMMA OrdersOfSteps ==
  ASSUME ContactInv, UNCHANGED <<jobs, queued, handled, jobReruns, attempt>>,
         \A c \in AllChannels : Owed(c), ~Undisturbed'
  PROVE  Orders'
<1> SUFFICES ASSUME NEW c \in AllChannels
             PROVE  Bounded(c)' /\ NotBegun(c)' /\ Balanced(c)'
  BY DEF ContactInv, Orders, Undisturbed
<1>1. Ordered(c)' = Ordered(c)
  BY DEF Ordered
<1>2. OwedOne(c) = 1 /\ OwedOne(c)' \in {0, 1}
  BY DEF OwedOne
<1>3. Bounded(c)'
  BY <1>1, <1>2, Counts DEF Bounded
<1>4. NotBegun(c)'
  BY <1>1 DEF ContactInv, Orders, NotBegun
<1> QED BY <1>3, <1>4 DEF Balanced

LEMMA JobAdded ==
  ASSUME ContactInv, NEW k \in AllChannels, UNCHANGED <<queued, handled>>,
         jobs' = jobs \cup {[attempt |-> attempt, channel |-> k]}
  PROVE  /\ IsFiniteSet(jobs')
         /\ \A c \in AllChannels : c # k => Ordered(c)' = Ordered(c)
         /\ Ordered(k)' \in Nat /\ Ordered(k)' <= Ordered(k) + 1
         /\ Ordered(k) = 0 => Ordered(k)' = 1
<1> PICK j : j = [attempt |-> attempt, channel |-> k]
  OBVIOUS
<1>1. jobs' = jobs \cup {j} /\ j.channel = k
  OBVIOUS
<1>2. IsFiniteSet(jobs')
  <2>1. IsFiniteSet(jobs)
    BY DEF ContactInv, Orders
  <2> QED BY <2>1, <1>1, FS_AddElement
<1>3. \A c \in AllChannels : c # k => JobsFor(c)' = JobsFor(c)
  BY <1>1 DEF JobsFor
<1>4. JobsFor(k)' = JobsFor(k) \cup {j}
  BY <1>1 DEF JobsFor
<1>5. \A c \in AllChannels : Ordered(c)' = Cardinality(JobsFor(c)') + queued[c] + handled[c]
  BY DEF Ordered, JobsFor
<1>6. \A c \in AllChannels : c # k => Ordered(c)' = Ordered(c)
  BY <1>3, <1>5, Counts
<1>7. /\ Cardinality(JobsFor(k)') \in Nat
      /\ Cardinality(JobsFor(k)') <= Cardinality(JobsFor(k)) + 1
  <2>1. \/ Cardinality(JobsFor(k)') = Cardinality(JobsFor(k))
        \/ Cardinality(JobsFor(k)') = Cardinality(JobsFor(k)) + 1
    <3>1. IsFiniteSet(JobsFor(k))
      BY Counts
    <3>2. CASE j \in JobsFor(k)
      <4>1. JobsFor(k)' = JobsFor(k)
        BY <3>2, <1>4
      <4> QED BY <4>1
    <3>3. CASE j \notin JobsFor(k)
      <4>1. Cardinality(JobsFor(k) \cup {j}) = Cardinality(JobsFor(k)) + 1
        BY <3>1, <3>3, FS_AddElement
      <4> QED BY <4>1, <1>4
    <3> QED BY <3>2, <3>3
  <2> QED BY <2>1, Counts
<1>8. Ordered(k) = 0 => Ordered(k)' = 1
  <2> SUFFICES ASSUME Ordered(k) = 0 PROVE Ordered(k)' = 1
    OBVIOUS
  <2>1. Cardinality(JobsFor(k)) = 0 /\ queued[k] = 0 /\ handled[k] = 0
    BY Counts
  <2>2. JobsFor(k)' = {j}
    BY <2>1, <1>4, Counts, FS_EmptySet
  <2>3. Cardinality(JobsFor(k)') = 1
    BY <2>2, FS_Singleton
  <2> QED BY <2>1, <2>3, <1>5
<1> QED BY <1>2, <1>5, <1>6, <1>7, <1>8, Counts

\* A job that runs becomes a command.
LEMMA JobBecomesCommand ==
  ASSUME ContactInv, NEW j \in jobs, RunContactJob(j)
  PROVE  /\ IsFiniteSet(jobs') /\ jobs' \subseteq JobOf /\ queued' \in [AllChannels -> Nat]
         /\ \A c \in AllChannels : Ordered(c)' = Ordered(c)
<1> PICK k \in AllChannels : k = j.channel
  BY DEF ContactInv, ContactTypeOK, JobOf
<1>1. /\ jobs' = jobs \ {j} /\ handled' = handled
      /\ queued' = [queued EXCEPT ![k] = queued[k] + 1]
  BY DEF RunContactJob
<1>2. /\ IsFiniteSet(jobs) /\ jobs \subseteq JobOf /\ queued \in [AllChannels -> Nat]
  BY DEF ContactInv, ContactTypeOK, Orders
<1>3. IsFiniteSet(jobs')
  BY <1>1, <1>2, FS_RemoveElement
<1>4. queued' \in [AllChannels -> Nat] /\ queued'[k] = queued[k] + 1
      /\ \A c \in AllChannels : c # k => queued'[c] = queued[c]
  BY <1>1, <1>2
<1>5. \A c \in AllChannels : c # k => JobsFor(c)' = JobsFor(c)
  BY <1>1 DEF JobsFor
<1>6. JobsFor(k)' = JobsFor(k) \ {j} /\ j \in JobsFor(k)
  BY <1>1 DEF JobsFor
<1>7. Cardinality(JobsFor(k)') = Cardinality(JobsFor(k)) - 1
  BY <1>6, Counts, FS_RemoveElement
<1>8. \A c \in AllChannels : Ordered(c)' = Cardinality(JobsFor(c)') + queued'[c] + handled[c]
  BY <1>1 DEF Ordered, JobsFor
<1>9. Ordered(k)' = Ordered(k)
  BY <1>4, <1>7, <1>8, Counts
<1>10. \A c \in AllChannels : c # k => Ordered(c)' = Ordered(c)
  BY <1>4, <1>5, <1>8, Counts
<1> QED BY <1>1, <1>2, <1>3, <1>4, <1>9, <1>10

-----------------------------------------------------------------------------
(* Messages to contacts: the loop over the steps                           *)

LEMMA NoSteps ==
  ASSUME steps = <<>>
  PROVE  StepsInOrder /\ ConditionsComplete
BY DEF StepsInOrder, ConditionsComplete

\* Nothing but the loop and its end touches steps and parts.
LEMMA PlanKept ==
  ASSUME ContactInv, UNCHANGED <<ask, steps, plan, dueTime>>, stage' = "steps" => stage = "steps"
  PROVE  Planned' /\ StepsInOrder' /\ ConditionsComplete'
<1>1. Planned'
  BY DEF ContactInv, Planned, Reached
<1>2. StepsInOrder'
  BY DEF ContactInv, StepsInOrder, Made
<1>3. ConditionsComplete'
  BY DEF ContactInv, ConditionsComplete, Made
<1> QED BY <1>1, <1>2, <1>3

\* A later step never goes out before an earlier one: the loop's due time grows.
LEMMA DueTimeGrows ==
  ASSUME ContactInv, NEW step \in Step
  PROVE  /\ Delayed(step) \in Times
         /\ FromNow(dueTime) \in Nat /\ FromNow(Delayed(step)) \in Nat
         /\ FromNow(Delayed(step)) >= FromNow(dueTime)
         /\ (steps # <<>> /\ ~step.skip /\ step.delay # Null)
              => FromNow(Delayed(step)) >= FromNow(dueTime) + step.delay
<1>1. dueTime \in Times /\ step.delay \in Nat \cup {Null} /\ Null \notin Nat
  BY ContactAssumption, NullAssumption DEF ContactInv, ContactTypeOK, Step
<1>2. FromNow(dueTime) \in Nat /\ FromNow(dueTime) = IF dueTime = Null THEN 0 ELSE dueTime
  BY <1>1 DEF FromNow, Times
<1>3. CASE steps = <<>> \/ step.delay = Null \/ (step.skip /\ Dependencies(step) = {})
  BY <1>1, <1>2, <1>3 DEF Delayed
<1>4. CASE ~(steps = <<>> \/ step.delay = Null \/ (step.skip /\ Dependencies(step) = {}))
  <2>1. Delayed(step) = FromNow(dueTime) + step.delay
    BY <1>4, <1>2 DEF Delayed
  <2>2. step.delay \in Nat
    BY <1>1, <1>4
  <2>3. Delayed(step) \in Nat /\ FromNow(Delayed(step)) = FromNow(dueTime) + step.delay
    BY <2>1, <2>2, <1>1, <1>2 DEF FromNow
  <2> QED BY <2>2, <2>3, <1>2 DEF Times
<1> QED BY <1>3, <1>4

LEMMA PartOfStep ==
  ASSUME NEW c \in AllChannels, NEW due \in Times, NEW deps \in SUBSET StepChannels
  PROVE  /\ Handel(c, due, deps) \in Segment \cup {Null}
         /\ Handel(c, due, deps) # Null <=> c \in ask.available
         /\ (Handel(c, due, deps) # Null /\ c # "Email") => Handel(c, due, deps).deps = deps
         /\ (Handel(c, due, deps) # Null /\ c \notin ask.own \cup {"Email"})
              => Handel(c, due, deps).due = due
<1>1. Null \notin Segment /\ OwnTime \in Times /\ Null \in Times
  BY ContactAssumption, NullAssumption DEF Times
<1>2. CASE c \notin ask.available
  BY <1>2 DEF Handel
<1>3. CASE c \in ask.available /\ c = "Email"
  <2>1. Handel(c, due, deps) = [due |-> Null, deps |-> {}]
    BY <1>3 DEF Handel
  <2>2. [due |-> Null, deps |-> {}] \in Segment
    BY <1>1 DEF Segment
  <2> QED BY <2>1, <2>2, <1>1, <1>3
<1>4. CASE c \in ask.available /\ c # "Email"
  <2> DEFINE d == IF c \in ask.own /\ (deps = {} \/ due = Null) THEN OwnTime ELSE due
  <2>1. Handel(c, due, deps) = [due |-> d, deps |-> deps]
    BY <1>4 DEF Handel
  <2>2. d \in Times /\ (c \notin ask.own => d = due)
    BY <1>1
  <2> HIDE DEF d
  <2>3. [due |-> d, deps |-> deps] \in Segment
    BY <2>2 DEF Segment
  <2> QED BY <2>1, <2>2, <2>3, <1>1, <1>4
<1> QED BY <1>2, <1>3, <1>4

\* The channels of the steps taken.
Taken == {steps[i].channel : i \in DOMAIN steps}

\* Content and recipient decide which of the earlier steps a step depends on.
LEMMA DependsOnAvailable ==
  ASSUME ContactInv, stage = "steps", NEW step \in Step
  PROVE  /\ Dependencies(step) \in SUBSET StepChannels
         /\ (step.skip /\ "Notification" \notin Taken) => Dependencies(step) = Taken \cap ask.available
<1>1. steps \in Seq(Step)
  BY DEF ContactInv, ContactTypeOK
<1>2. \A i \in DOMAIN steps : steps[i].channel \in StepChannels
  <2>1. \A i \in DOMAIN steps : steps[i] \in Step
    BY <1>1
  <2> QED BY <2>1 DEF Step
<1>3. Taken \subseteq StepChannels
  BY <1>2 DEF Taken
<1>4. \A c \in Taken : plan[c] # Null <=> c \in ask.available
  BY DEF ContactInv, Planned, Taken
<1>5. steps = <<>> => Taken = {}
  BY DEF Taken
<1>6. Dependencies(step) =
        IF steps # <<>> /\ step.skip THEN {c \in Taken : plan[Tested(c)] # Null} ELSE {}
  BY DEF Dependencies, Taken
<1>7. "Notification" \notin Taken => \A c \in Taken : Tested(c) = c
  BY DEF Tested
<1>8. (step.skip /\ "Notification" \notin Taken) => Dependencies(step) = Taken \cap ask.available
  BY <1>4, <1>5, <1>6, <1>7
<1> QED BY <1>3, <1>6, <1>8

LEMMA TakeStepInv ==
  ASSUME ContactInv, NEW step \in Step, TakeStep(step)
  PROVE  ContactInv'
<1>1. /\ stage = "steps" /\ Len(steps) < MaxSteps
      /\ dueTime' = Delayed(step)
      /\ plan' = [plan EXCEPT ![step.channel] =
                    Handel(step.channel, Delayed(step), Dependencies(step))]
      /\ steps' = Append(steps, step)
      /\ UNCHANGED <<ask, stage, todo, card, jobs, attempt, queued, handled, jobReruns,
                     contactFaults, removed>>
  BY DEF TakeStep
<1>2. /\ steps \in Seq(Step) /\ plan \in Plan /\ ask \in Ask /\ MaxSteps \in Nat
      /\ step.channel \in StepChannels /\ step.channel \in AllChannels /\ todo = <<>>
  BY <1>1, ContactAssumption DEF ContactInv, ContactTypeOK, Stages, Step
<1> PICK c \in AllChannels : c = step.channel
  BY <1>2
<1> PICK n \in Nat : n = Len(steps)
  BY <1>2
<1> DEFINE part == Handel(c, Delayed(step), Dependencies(step))
<1>3. /\ part \in Segment \cup {Null}
      /\ part # Null <=> c \in ask.available
      /\ (part # Null /\ c # "Email") => part.deps = Dependencies(step)
      /\ (part # Null /\ c \notin ask.own \cup {"Email"}) => part.due = dueTime'
  BY <1>1, DueTimeGrows, DependsOnAvailable, PartOfStep
<1>4. plan' = [plan EXCEPT ![c] = part]
  BY <1>1
<1> HIDE DEF part
<1>5. /\ plan'[c] = part /\ plan' \in Plan
      /\ \A k \in AllChannels : k # c => plan'[k] = plan[k]
  BY <1>2, <1>3, <1>4 DEF Plan
<1>6. /\ steps' \in Seq(Step) /\ Len(steps') = n + 1 /\ steps'[n + 1] = step
      /\ DOMAIN steps = 1..n /\ DOMAIN steps' = 1..(n + 1)
      /\ \A i \in 1..n : steps'[i] = steps[i] /\ steps[i] \in Step
      /\ \A i \in 1..n : steps[i].channel \in AllChannels
  <2>1. /\ steps' \in Seq(Step) /\ Len(steps') = n + 1 /\ steps'[n + 1] = step
        /\ DOMAIN steps = 1..n /\ DOMAIN steps' = 1..(n + 1)
        /\ \A i \in 1..n : steps'[i] = steps[i] /\ steps[i] \in Step
    BY <1>1, <1>2
  <2>2. \A x \in Step : x.channel \in AllChannels
    BY ContactAssumption DEF Step
  <2> QED BY <2>1, <2>2
<1>7. ContactTypeOK'
  <2>1. Len(steps') <= MaxSteps
    BY <1>1, <1>2, <1>6
  <2>2. dueTime' \in Times
    BY <1>1, DueTimeGrows
  <2> QED BY <2>1, <2>2, <1>1, <1>2, <1>5, <1>6 DEF ContactInv, ContactTypeOK
<1>8. Stages'
  BY <1>1 DEF ContactInv, Stages
<1>9. Planned'
  <2>1. ASSUME NEW k \in AllChannels PROVE Reached(k)'
    <3>1. CASE k = c
      <4>1. (plan'[c] # Null /\ c \notin ask.own \cup {"Email"}) => plan'[c].due = dueTime'
        BY <1>3, <1>5
      <4>2. FromNow(dueTime)' \in Nat
        BY <1>1, DueTimeGrows DEF FromNow
      <4>3. (plan'[c] # Null /\ c \notin ask'.own \cup {"Email"})
              => FromNow(plan[c].due)' = FromNow(dueTime)'
        BY <4>1, <1>1 DEF FromNow
      <4> QED BY <3>1, <4>2, <4>3 DEF Reached
    <3>2. CASE k # c
      <4>1. (plan[k] # Null /\ k \notin ask.own \cup {"Email"})
              => FromNow(plan[k].due) <= FromNow(dueTime)
        BY <1>1 DEF ContactInv, Planned, Reached
      <4>2. FromNow(dueTime)' = FromNow(Delayed(step))
        BY <1>1 DEF FromNow
      <4>3. plan[k] # Null => plan[k].due \in Times
        BY <1>2 DEF Plan, Segment
      <4>4. plan[k] # Null => FromNow(plan[k].due) \in Nat
        BY <4>3 DEF FromNow, Times
      <4>5. (plan[k] # Null /\ k \notin ask.own \cup {"Email"})
              => FromNow(plan[k].due) <= FromNow(Delayed(step))
        BY <4>1, <4>4, DueTimeGrows
      <4>6. plan'[k] = plan[k] /\ FromNow(plan[k].due)' = FromNow(plan[k].due)
        BY <3>2, <1>5 DEF FromNow
      <4> QED BY <4>2, <4>5, <4>6, <1>1 DEF Reached
    <3> QED BY <3>1, <3>2
  <2>2. ASSUME NEW j \in 1..(n + 1)
        PROVE  plan'[steps'[j].channel] # Null <=> steps'[j].channel \in ask'.available
    <3>1. CASE steps'[j].channel = c
      BY <3>1, <1>1, <1>3, <1>5
    <3>2. CASE steps'[j].channel # c
      <4>1. j \in 1..n
        BY <3>2, <1>6
      <4> QED BY <4>1, <3>2, <1>1, <1>5, <1>6 DEF ContactInv, Planned
    <3> QED BY <3>1, <3>2
  <2> QED BY <2>1, <2>2, <1>6 DEF Planned
\* An earlier step's part stays as it was unless this step replaces it.
<1>10. ASSUME NEW j \in 1..n, Made(j)'
       PROVE  /\ Made(j) /\ steps'[j] = steps[j] /\ steps[j].channel # c
              /\ plan'[steps[j].channel] = plan[steps[j].channel]
  <2>1. n + 1 \in DOMAIN steps' /\ n + 1 > j /\ j \in DOMAIN steps'
    BY <1>6
  <2>2. steps'[n + 1].channel # steps'[j].channel
    BY <2>1, <1>10 DEF Made
  <2>3. steps'[j] = steps[j] /\ steps[j].channel # c
    BY <2>2, <1>6
  <2>4. plan'[steps[j].channel] = plan[steps[j].channel]
    BY <2>3, <1>5, <1>6
  <2>5. Made(j)
    <3>1. plan[steps[j].channel] # Null
      BY <1>10, <2>3, <2>4 DEF Made
    <3>2. ASSUME NEW k \in 1..n, k > j PROVE steps[k].channel # steps[j].channel
      BY <1>10, <1>6, <2>3, <3>2 DEF Made
    <3> QED BY <3>1, <3>2, <1>6 DEF Made
  <2> QED BY <2>3, <2>4, <2>5
<1>11. StepsInOrder'
  <2> SUFFICES ASSUME NEW j \in 1..(n + 1), NEW i \in 1..(j - 1), Made(i)', Made(j)',
                      {steps'[i].channel, steps'[j].channel} \cap (ask'.own \cup {"Email"}) = {}
               PROVE  FromNow(plan[steps[j].channel].due)' >= FromNow(plan[steps[i].channel].due)'
                        + (IF steps'[j].skip \/ steps'[j].delay = Null THEN 0 ELSE steps'[j].delay)
    BY <1>6 DEF StepsInOrder
  <2>1. i \in 1..n
    OBVIOUS
  <2>2. CASE j \in 1..n
    <3>1. /\ Made(i) /\ steps'[i] = steps[i] /\ plan'[steps[i].channel] = plan[steps[i].channel]
          /\ Made(j) /\ steps'[j] = steps[j] /\ plan'[steps[j].channel] = plan[steps[j].channel]
      BY <2>1, <2>2, <1>10
    <3>2. FromNow(plan[steps[j].channel].due) >= FromNow(plan[steps[i].channel].due)
                        + (IF steps[j].skip \/ steps[j].delay = Null THEN 0 ELSE steps[j].delay)
      BY <2>2, <3>1, <1>1, <1>6 DEF ContactInv, StepsInOrder
    <3> QED BY <3>1, <3>2 DEF FromNow
  <2>3. CASE j = n + 1
    <3>1. /\ Made(i) /\ steps'[i] = steps[i] /\ steps[i].channel # c
          /\ plan'[steps[i].channel] = plan[steps[i].channel]
      BY <2>1, <1>10
    <3> PICK k \in AllChannels : k = steps[i].channel
      BY <2>1, <1>6
    <3>2. plan[k] # Null /\ k \notin ask.own \cup {"Email"}
      BY <3>1, <1>1 DEF Made
    <3>3. FromNow(plan[k].due) <= FromNow(dueTime) /\ FromNow(plan[k].due) \in Nat
      <4>1. plan[k].due \in Times
        BY <3>2, <1>2 DEF Plan, Segment
      <4>2. FromNow(plan[k].due) \in Nat
        BY <4>1 DEF FromNow, Times
      <4> QED BY <4>2, <3>2, <1>1 DEF ContactInv, Planned, Reached
    <3>4. plan'[c] # Null /\ c \notin ask.own \cup {"Email"} /\ steps'[j] = step
      BY <2>3, <1>1, <1>6 DEF Made
    <3>5. FromNow(plan[steps[j].channel].due)' = FromNow(Delayed(step))
      <4>1. plan'[steps'[j].channel].due = Delayed(step)
        BY <3>4, <1>1, <1>3, <1>5
      <4> QED BY <4>1 DEF FromNow
    <3>6. FromNow(plan[steps[i].channel].due)' = FromNow(plan[k].due)
      BY <3>1 DEF FromNow
    <3>7. steps # <<>>
      BY <2>1, <1>6
    <3>8. step.delay = Null \/ step.delay \in Nat
      BY ContactAssumption DEF Step
    <3>9. FromNow(Delayed(step)) >= FromNow(plan[k].due)
                        + (IF step.skip \/ step.delay = Null THEN 0 ELSE step.delay)
      <4>1. CASE step.skip \/ step.delay = Null
        BY <4>1, <3>3, DueTimeGrows
      <4>2. CASE ~(step.skip \/ step.delay = Null)
        BY <4>2, <3>3, <3>7, <3>8, DueTimeGrows
      <4> QED BY <4>1, <4>2
    <3> QED BY <3>4, <3>5, <3>6, <3>9
  <2> QED BY <2>2, <2>3
<1>12. ConditionsComplete'
  <2> SUFFICES ASSUME NEW j \in 1..(n + 1), Made(j)', steps'[j].skip,
                      "Notification" \notin {steps'[i].channel : i \in 1..(j - 1)},
                      steps'[j].channel # "Email"
               PROVE  plan'[steps'[j].channel].deps
                        = {steps'[i].channel : i \in 1..(j - 1)} \cap ask'.available
    BY <1>6 DEF ConditionsComplete
  <2>1. {steps'[i].channel : i \in 1..(j - 1)} = {steps[i].channel : i \in 1..(j - 1)}
    BY <1>6
  <2>2. CASE j \in 1..n
    <3>1. Made(j) /\ steps'[j] = steps[j] /\ plan'[steps[j].channel] = plan[steps[j].channel]
      BY <2>2, <1>10
    <3>2. plan[steps[j].channel].deps = {steps[i].channel : i \in 1..(j - 1)} \cap ask.available
      BY <2>1, <2>2, <3>1, <1>6 DEF ContactInv, ConditionsComplete
    <3> QED BY <2>1, <3>1, <3>2, <1>1
  <2>3. CASE j = n + 1
    <3>1. {steps[i].channel : i \in 1..(j - 1)} = Taken
      BY <2>3, <1>6 DEF Taken
    <3>2. Dependencies(step) = Taken \cap ask.available
      BY <2>1, <2>3, <3>1, <1>1, <1>6, DependsOnAvailable
    <3>3. plan'[c] # Null /\ c # "Email" /\ steps'[j].channel = c
      BY <2>3, <1>6 DEF Made
    <3> QED BY <2>1, <3>1, <3>2, <3>3, <1>1, <1>3, <1>5
  <2> QED BY <2>2, <2>3
<1>13. Attempts' /\ Gone'
  BY <1>1 DEF ContactInv, Attempts, Interrupted, Gone
<1>14. Listed'
  BY <1>1, <1>2 DEF Listed
<1>15. Orders'
  <2>1. stage' # "jobs" /\ stage' # "save" /\ stage' # "publish" /\ stage' # "done"
    BY <1>1
  <2>2. (\A d \in AllChannels : Owed(d)' /\ Owed(d)) /\ ~Undisturbed'
    BY <1>1, <2>1 DEF Owed, Undisturbed
  <2>3. UNCHANGED <<jobs, queued, handled, jobReruns, attempt>>
    BY <1>1
  <2> QED BY <2>2, <2>3, OrdersOfSteps
<1> QED BY <1>7, <1>8, <1>9, <1>11, <1>12, <1>13, <1>14, <1>15 DEF ContactInv

-----------------------------------------------------------------------------
(* Messages to contacts: every step                                        *)

LEMMA ContactInitInv == ContactInit => ContactInv
<1> SUFFICES ASSUME ContactInit PROVE ContactInv
  OBVIOUS
<1>1. ContactTypeOK
  BY ContactAssumption DEF ContactInit, ContactTypeOK, NoPlan, Plan, Times
<1>2. Stages /\ Planned /\ StepsInOrder /\ ConditionsComplete
  BY NoSteps DEF ContactInit, Stages, Planned
<1>3. Attempts /\ Listed /\ Gone
  BY DEF ContactInit, Attempts, Interrupted, Listed, Gone
<1>4. Orders
  <2>1. IsFiniteSet(jobs) /\ ~Undisturbed
    BY FS_EmptySet DEF ContactInit, Undisturbed
  <2>2. ASSUME NEW c \in AllChannels PROVE Bounded(c) /\ NotBegun(c) /\ Balanced(c)
    <3>1. {j \in jobs : j.channel = c} = {}
      BY DEF ContactInit
    <3>2. Ordered(c) = 0
      BY <3>1, FS_EmptySet DEF ContactInit, Ordered
    <3>3. Bounded(c)
      BY <3>2 DEF ContactInit, OwedOne, Bounded
    <3> QED BY <2>1, <3>2, <3>3 DEF ContactInit, NotBegun, Balanced
  <2> QED BY <2>1, <2>2 DEF Orders, Undisturbed, ContactInit
<1> QED BY <1>1, <1>2, <1>3, <1>4 DEF ContactInv

LEMMA ReceiveContactInv ==
  ASSUME ContactInv, NEW r \in Ask, ReceiveContact(r)
  PROVE  ContactInv'
<1>1. /\ stage = "idle" /\ ask' = r /\ dueTime' = r.due /\ stage' = "steps"
      /\ UNCHANGED <<steps, plan, todo, card, jobs, attempt, queued, handled, jobReruns,
                     contactFaults, removed>>
      /\ steps = <<>> /\ plan = NoPlan /\ todo = <<>> /\ card = Null
  BY DEF ReceiveContact, ContactInv, Stages
<1>2. ContactTypeOK'
  <2>1. dueTime' \in Times
    BY <1>1, ContactAssumption DEF Ask, Times
  <2> QED BY <2>1, <1>1 DEF ContactInv, ContactTypeOK
<1>3. Stages'
  BY <1>1 DEF ContactInv, Stages
<1>4. Planned'
  BY <1>1 DEF Planned, Reached, NoPlan
<1>5. StepsInOrder' /\ ConditionsComplete'
  BY <1>1 DEF StepsInOrder, ConditionsComplete
<1>6. Attempts' /\ Gone' /\ Listed'
  BY <1>1 DEF ContactInv, Attempts, Interrupted, Gone, Listed
<1>7. Orders'
  BY <1>1, OrdersKept DEF Owed, Undisturbed
<1> QED BY <1>2, <1>3, <1>4, <1>5, <1>6, <1>7 DEF ContactInv

LEMMA EndStepsInv ==
  ASSUME ContactInv, EndSteps
  PROVE  ContactInv'
<1> DEFINE parts == IF steps = <<>> THEN [c \in AllChannels |-> Handel(c, dueTime, {})] ELSE plan
<1>1. /\ stage = "steps" /\ stage' \in {"row", "done"} /\ steps' = <<>> /\ dueTime' = Null
      /\ plan' = [c \in AllChannels |->
                      IF parts[c] = Null THEN Null
                      ELSE [due |-> IF parts[c].due = Null THEN Null ELSE 0, deps |-> {}]]
      /\ ask' = [ask EXCEPT !.available = {}, !.own = {}]
      /\ UNCHANGED <<todo, card, jobs, attempt, queued, handled, jobReruns, contactFaults,
                     removed>>
      /\ todo = <<>> /\ card = Null /\ ask \in Ask
  BY DEF EndSteps, ContactInv, Stages
<1> HIDE DEF parts
<1>2. ContactTypeOK'
  <2>1. ask' \in Ask
    BY <1>1 DEF Ask
  <2>2. \A c \in AllChannels :
          [due |-> IF parts[c].due = Null THEN Null ELSE 0, deps |-> {}] \in Segment
    BY DEF Segment, Times
  <2>3. plan' \in Plan
    BY <1>1, <2>2 DEF Plan
  <2> QED BY <2>1, <2>3, <1>1, ContactAssumption DEF ContactInv, ContactTypeOK, Times
<1>3. Stages' /\ Planned' /\ StepsInOrder' /\ ConditionsComplete'
  BY <1>1 DEF Stages, Planned, StepsInOrder, ConditionsComplete
<1>4. Attempts' /\ Gone' /\ Listed'
  BY <1>1 DEF ContactInv, Attempts, Interrupted, Gone, Listed
<1>5. Orders'
  <2>1. \A c \in AllChannels : Owed(c)
    BY <1>1 DEF Owed
  <2>2. ~Undisturbed'
    BY <1>1 DEF Undisturbed
  <2> QED BY <2>1, <2>2, <1>1, OrdersOfSteps
<1> QED BY <1>2, <1>3, <1>4, <1>5 DEF ContactInv

LEMMA IsExistContactInv ==
  ASSUME ContactInv, IsExistContact
  PROVE  ContactInv'
<1>1. /\ stage = "exist" /\ stage' \in {"row", "done"} /\ attempt > 0
      /\ UNCHANGED <<ask, steps, dueTime, plan, todo, card, jobs, attempt, queued, handled,
                     jobReruns, contactFaults, removed>>
  BY DEF IsExistContact, ContactInv, Stages
<1>2. ContactTypeOK'
  BY <1>1 DEF ContactInv, ContactTypeOK
<1>3. Stages'
  BY <1>1 DEF ContactInv, Stages
<1>4. Planned' /\ StepsInOrder' /\ ConditionsComplete'
  BY <1>1, PlanKept
<1>5. Attempts' /\ Gone' /\ Listed'
  BY <1>1 DEF ContactInv, Attempts, Interrupted, Gone, Listed
<1>6. Orders'
  BY <1>1, OrdersKept, ContactAssumption DEF Owed, Undisturbed, ContactInv, ContactTypeOK
<1> QED BY <1>2, <1>3, <1>4, <1>5, <1>6 DEF ContactInv

\* The first row: every part is owed once, and nothing has been ordered.
LEMMA AddContactRowInv ==
  ASSUME ContactInv, AddContactRow
  PROVE  ContactInv'
<1>1. /\ stage = "row" /\ stage' = "jobs" /\ card' = [saved |-> FALSE, job |-> Null]
      /\ todo' = ScheduleOrder
      /\ UNCHANGED <<ask, steps, dueTime, plan, jobs, attempt, queued, handled, jobReruns,
                     contactFaults, removed>>
  BY DEF AddContactRow
<1>2. card' \in Card /\ card' # Null
  <2>1. [saved |-> FALSE, job |-> Null] \in Card
    BY DEF Card
  <2> QED BY <2>1, <1>1, NullAssumption
<1>3. /\ todo' \in Seq(AllChannels) /\ Listed'
      /\ OnList' = {c \in AllChannels : Delayable(c)}
  <2>1. OnList' = {c \in AllChannels : Delayable(c)}
    BY <1>1, ScheduleOrderLists DEF OnList, Elements
  <2>2. \A c \in OnList' : Delayable(c)'
    BY <2>1, <1>1 DEF Delayable
  <2> QED BY <2>1, <2>2, <1>1, ScheduleOrderLists DEF Listed, Distinct
<1>4. ContactTypeOK'
  <2>1. \A i \in DOMAIN todo' : todo'[i] \in OnList'
    BY DEF OnList
  <2>2. \A i \in DOMAIN todo' : plan'[todo'[i]] # Null
    BY <2>1, <1>1, <1>3 DEF Delayable
  <2> QED BY <2>2, <1>1, <1>2, <1>3 DEF ContactInv, ContactTypeOK
<1>5. Stages'
  BY <1>1 DEF ContactInv, Stages
<1>6. Planned' /\ StepsInOrder' /\ ConditionsComplete'
  BY <1>1, PlanKept
<1>7. Attempts' /\ Gone'
  BY <1>1, <1>2 DEF ContactInv, Attempts, Interrupted, Gone
<1>8. Orders'
  <2>1. ASSUME NEW c \in AllChannels
        PROVE  Bounded(c)' /\ NotBegun(c)' /\ Balanced(c)'
    <3>1. Ordered(c)' = Ordered(c) /\ attempt' = attempt /\ jobReruns' = jobReruns
      BY <1>1 DEF Ordered
    <3>2. OwedOne(c) = 1 /\ OwedOne(c)' \in {0, 1}
      BY <1>1 DEF OwedOne, Owed
    <3>3. plan'[c] # Null => OwedOne(c)' = 1
      BY <1>1, <1>3 DEF OwedOne, Owed, Delayable, Immediate
    <3>4. attempt = 0 => Ordered(c) = 0 /\ jobReruns[c] = 0
      BY <1>1 DEF Owed, ContactInv, Orders, NotBegun
    <3>5. Bounded(c)'
      BY <3>1, <3>2, Counts DEF Bounded
    <3>6. NotBegun(c)' /\ (Undisturbed' => Ordered(c)' = 0 /\ jobReruns'[c] = 0)
      BY <3>1, <3>4 DEF NotBegun, Undisturbed
    <3> QED BY <3>3, <3>5, <3>6 DEF Balanced
  <2>2. IsFiniteSet(jobs')
    BY <1>1 DEF ContactInv, Orders
  <2>3. stage' \notin {"publish", "done"}
    BY <1>1
  <2> QED BY <2>1, <2>2, <2>3 DEF Orders
<1> QED BY <1>3, <1>4, <1>5, <1>6, <1>7, <1>8 DEF ContactInv

LEMMA ScheduleOneInv ==
  ASSUME ContactInv, ScheduleOne
  PROVE  ContactInv'
<1>1. /\ stage = "jobs"
      /\ UNCHANGED <<ask, steps, dueTime, plan, card, attempt, queued, handled, jobReruns,
                     contactFaults, removed>>
  BY DEF ScheduleOne
<1>2. CASE todo = <<>>
  <2>1. stage' = "save" /\ UNCHANGED <<todo, jobs>>
    BY <1>2 DEF ScheduleOne
  <2>2. ContactTypeOK'
    BY <1>1, <2>1 DEF ContactInv, ContactTypeOK
  <2>3. Stages' /\ Listed'
    BY <1>1, <2>1 DEF ContactInv, Stages, Listed
  <2>4. Planned' /\ StepsInOrder' /\ ConditionsComplete'
    BY <1>1, <2>1, PlanKept
  <2>5. Attempts' /\ Gone'
    BY <1>1, <2>1 DEF ContactInv, Attempts, Interrupted, Gone
  <2>6. Orders'
    <3>1. OnList = {}
      BY <1>2 DEF OnList
    <3>2. \A c \in AllChannels : Owed(c)' <=> Owed(c)
      BY <1>1, <2>1, <3>1 DEF Owed, Immediate
    <3>3. Undisturbed' => Undisturbed
      BY <1>1 DEF Undisturbed
    <3> QED BY <1>1, <2>1, <3>2, <3>3, OrdersKept
  <2> QED BY <2>2, <2>3, <2>4, <2>5, <2>6 DEF ContactInv
<1>3. CASE todo # <<>>
  <2> PICK k \in AllChannels : k = Head(todo)
    BY <1>3, FirstOfList
  <2>1. /\ jobs' = jobs \cup {[attempt |-> attempt, channel |-> k]}
        /\ todo' = Tail(todo) /\ stage' = stage
    BY <1>3 DEF ScheduleOne
  <2>2. /\ k \in OnList /\ todo' \in Seq(AllChannels) /\ Distinct(todo')
        /\ OnList' = OnList \ {k}
    <3>1. OnList' = Elements(todo')
      BY DEF OnList, Elements
    <3> QED BY <1>3, <2>1, <3>1, FirstOfList
  <2>3. \A c \in OnList : Delayable(c) /\ plan[c] # Null
    BY <1>1 DEF ContactInv, Listed, Delayable
  <2>4. ContactTypeOK'
    <3>1. jobs' \subseteq JobOf
      BY <2>1, ContactAssumption DEF ContactInv, ContactTypeOK, JobOf
    <3>2. \A i \in DOMAIN todo' : todo'[i] \in OnList'
      BY DEF OnList
    <3>3. \A i \in DOMAIN todo' : plan'[todo'[i]] # Null
      BY <3>2, <2>2, <2>3, <1>1
    <3> QED BY <3>1, <3>3, <2>1, <2>2, <1>1 DEF ContactInv, ContactTypeOK
  <2>5. Stages'
    BY <1>1, <2>1 DEF ContactInv, Stages
  <2>6. Planned' /\ StepsInOrder' /\ ConditionsComplete'
    BY <1>1, <2>1, PlanKept
  <2>7. Attempts' /\ Gone'
    BY <1>1, <2>1 DEF ContactInv, Attempts, Interrupted, Gone
  <2>8. Listed'
    <3>1. \A c \in OnList' : Delayable(c)'
      BY <2>2, <2>3, <1>1 DEF Delayable
    <3> QED BY <3>1, <1>1, <2>1, <2>2 DEF Listed, Distinct
  <2>9. Orders'
    <3>1. \A c \in AllChannels : (Delayable(c)' <=> Delayable(c)) /\ (Immediate(c)' <=> Immediate(c))
      BY <1>1 DEF Delayable, Immediate
    <3>2. ASSUME NEW c \in AllChannels
          PROVE  Bounded(c)' /\ NotBegun(c)' /\ Balanced(c)'
      <4>1. CASE c = k
        <5>1. OwedOne(k) = 1
          BY <1>1, <2>2 DEF OwedOne, Owed
        <5>2. OwedOne(k)' = 0 /\ ~Owed(k)'
          <6>1. ~Immediate(k)'
            BY <2>2, <2>3, <3>1 DEF Immediate, Delayable
          <6> QED BY <6>1, <1>1, <2>1, <2>2 DEF OwedOne, Owed
        <5>3. Bounded(k)'
          <6>1. Ordered(k)' \in Nat /\ Ordered(k)' <= Ordered(k) + 1
            BY <1>1, <2>1, JobAdded
          <6>2. /\ Ordered(k) \in Nat /\ attempt \in Nat /\ jobReruns[k] \in Nat
                /\ Ordered(k) + 1 <= attempt + 1 + jobReruns[k]
            BY <5>1, Counts
          <6>3. Ordered(k)' + 0 <= attempt + 1 + jobReruns[k]
            BY <6>1, <6>2
          <6> QED BY <5>2, <6>3, <1>1 DEF Bounded
        <5>4. attempt = 0 => Ordered(k) = 0 /\ jobReruns[k] = 0
          BY <2>2, <1>1 DEF Owed, ContactInv, Orders, NotBegun
        <5>5. Undisturbed' => Ordered(k)' = 1 /\ jobReruns'[k] = 0
          BY <5>4, <2>1, <1>1, JobAdded DEF Undisturbed
        <5>6. NotBegun(k)' /\ Balanced(k)'
          BY <5>2, <5>5 DEF NotBegun, Balanced
        <5> QED BY <4>1, <5>3, <5>6
      <4>2. CASE c # k
        <5>1. Ordered(c)' = Ordered(c)
          BY <4>2, <1>1, <2>1, JobAdded
        <5>2. (Owed(c)' <=> Owed(c)) /\ OwedOne(c)' = OwedOne(c)
          BY <4>2, <1>1, <2>1, <2>2, <3>1 DEF OwedOne, Owed
        <5>3. Undisturbed' => Undisturbed
          BY <1>1, <2>1 DEF Undisturbed
        <5>4. Bounded(c) /\ NotBegun(c) /\ Balanced(c)
          BY DEF ContactInv, Orders
        <5>5. Bounded(c)'
          BY <5>1, <5>2, <5>4, <1>1 DEF Bounded
        <5>6. NotBegun(c)'
          BY <5>1, <5>2, <5>4, <1>1 DEF NotBegun
        <5>7. Balanced(c)'
          BY <5>1, <5>2, <5>3, <5>4, <3>1, <1>1 DEF Balanced
        <5> QED BY <5>5, <5>6, <5>7
      <4> QED BY <4>1, <4>2
    <3>3. IsFiniteSet(jobs')
      BY <1>1, <2>1, JobAdded
    <3> QED BY <3>2, <3>3, <1>1, <2>1 DEF Orders, Undisturbed
  <2> QED BY <2>4, <2>5, <2>6, <2>7, <2>8, <2>9 DEF ContactInv
<1> QED BY <1>2, <1>3

LEMMA SaveContactRowInv ==
  ASSUME ContactInv, SaveContactRow
  PROVE  ContactInv'
<1>1. /\ stage = "save"
      /\ UNCHANGED <<ask, steps, dueTime, plan, jobs, attempt, queued, handled, jobReruns,
                     contactFaults, removed>>
  BY DEF SaveContactRow
<1>2. Planned' /\ StepsInOrder' /\ ConditionsComplete'
  <2>1. stage' # "steps"
    BY DEF SaveContactRow
  <2> QED BY <2>1, <1>1, PlanKept
<1>3. CASE card = Null
  <2>1. stage' = "undo" /\ UNCHANGED <<card, todo>>
    BY <1>3 DEF SaveContactRow
  <2>2. ContactTypeOK'
    BY <1>1, <2>1 DEF ContactInv, ContactTypeOK
  <2>3. Stages' /\ Listed'
    BY <1>1, <2>1 DEF ContactInv, Stages, Listed
  <2>4. Attempts' /\ Gone'
    BY <1>1, <1>3, <2>1 DEF ContactInv, Attempts, Interrupted, Gone
  <2>5. Orders'
    <3>1. \A c \in AllChannels : ~Owed(c)'
      BY <2>1 DEF Owed
    <3>2. ~Undisturbed'
      BY <2>1 DEF Undisturbed
    <3> QED BY <1>1, <2>1, <3>1, <3>2, OrdersKept
  <2> QED BY <1>2, <2>2, <2>3, <2>4, <2>5 DEF ContactInv
<1>4. CASE card # Null
  <2> PICK s \in Seq(AllChannels) : s = ScheduleOrder
    BY ScheduleOrderLists
  <2>1. /\ card' = [saved |-> TRUE,
                    job |-> IF s = <<>> THEN Null ELSE [attempt |-> attempt, channel |-> s[Len(s)]]]
        /\ stage' = "publish" /\ todo' = PublishOrder
    BY <1>4 DEF SaveContactRow
  <2>2. card' \in Card /\ card' # Null /\ card'.saved
    <3>1. s # <<>> => s[Len(s)] \in AllChannels
      OBVIOUS
    <3>2. s # <<>> => [attempt |-> attempt, channel |-> s[Len(s)]] \in JobOf
      BY <3>1, ContactAssumption DEF ContactInv, ContactTypeOK, JobOf
    <3>3. card' \in Card
      BY <2>1, <3>2 DEF Card
    <3> QED BY <2>1, <3>3, NullAssumption
  <2>3. /\ todo' \in Seq(AllChannels) /\ Listed'
        /\ OnList' = {c \in AllChannels : Immediate(c)}
    <3>1. OnList' = {c \in AllChannels : Immediate(c)}
      BY <2>1, PublishOrderLists DEF OnList, Elements
    <3>2. \A c \in OnList' : Immediate(c)'
      BY <3>1, <1>1 DEF Immediate
    <3> QED BY <3>1, <3>2, <2>1, PublishOrderLists DEF Listed, Distinct
  <2>4. ContactTypeOK'
    <3>1. \A i \in DOMAIN todo' : todo'[i] \in OnList'
      BY DEF OnList
    <3>2. \A i \in DOMAIN todo' : plan'[todo'[i]] # Null
      BY <3>1, <2>3, <1>1 DEF Immediate
    <3> QED BY <3>2, <1>1, <2>1, <2>2, <2>3 DEF ContactInv, ContactTypeOK
  <2>5. Stages'
    BY <1>1, <2>1 DEF ContactInv, Stages
  <2>6. Attempts' /\ Gone'
    BY <1>1, <1>4, <2>1 DEF ContactInv, Attempts, Interrupted, Gone
  <2>7. Orders'
    <3>1. \A c \in AllChannels : Owed(c)' <=> Owed(c)
      BY <1>1, <2>1, <2>3 DEF Owed
    <3>2. Undisturbed' => Undisturbed
      BY <1>1, <1>4 DEF Undisturbed
    <3> QED BY <1>1, <2>2, <3>1, <3>2, OrdersKept
  <2> QED BY <1>2, <2>3, <2>4, <2>5, <2>6, <2>7 DEF ContactInv
<1> QED BY <1>3, <1>4

LEMMA PublishOneInv ==
  ASSUME ContactInv, PublishOne
  PROVE  ContactInv'
<1>1. /\ stage = "publish"
      /\ UNCHANGED <<ask, steps, dueTime, plan, card, jobs, attempt, handled, jobReruns,
                     contactFaults, removed>>
  BY DEF PublishOne
<1>2. CASE todo = <<>>
  <2>1. stage' = "done" /\ UNCHANGED <<todo, queued>>
    BY <1>2 DEF PublishOne
  <2>2. ContactTypeOK'
    BY <1>1, <2>1 DEF ContactInv, ContactTypeOK
  <2>3. Stages' /\ Listed'
    BY <1>1, <2>1 DEF ContactInv, Stages, Listed
  <2>4. Planned' /\ StepsInOrder' /\ ConditionsComplete'
    BY <1>1, <2>1, PlanKept
  <2>5. Attempts' /\ Gone'
    BY <1>1, <2>1 DEF ContactInv, Attempts, Interrupted, Gone
  <2>6. Orders'
    <3>1. OnList = {}
      BY <1>2 DEF OnList
    <3>2. \A c \in AllChannels : ~Owed(c) /\ ~Owed(c)'
      BY <1>1, <2>1, <3>1 DEF Owed
    <3>3. (Undisturbed' => Undisturbed) /\ (Undisturbed' => card'.saved)
      BY <1>1 DEF Undisturbed, ContactInv, Orders
    <3> QED BY <1>1, <2>1, <3>2, <3>3, OrdersKept
  <2> QED BY <2>2, <2>3, <2>4, <2>5, <2>6 DEF ContactInv
<1>3. CASE todo # <<>>
  <2> PICK k \in AllChannels : k = Head(todo)
    BY <1>3, FirstOfList
  <2>1. /\ queued' = [queued EXCEPT ![k] = queued[k] + 1]
        /\ todo' = Tail(todo) /\ stage' = stage
    BY <1>3 DEF PublishOne
  <2>2. /\ k \in OnList /\ todo' \in Seq(AllChannels) /\ Distinct(todo')
        /\ OnList' = OnList \ {k}
    <3>1. OnList' = Elements(todo')
      BY DEF OnList, Elements
    <3> QED BY <1>3, <2>1, <3>1, FirstOfList
  <2>3. \A c \in OnList : Immediate(c) /\ plan[c] # Null
    BY <1>1 DEF ContactInv, Listed, Immediate
  <2>4. /\ queued' \in [AllChannels -> Nat] /\ queued'[k] = queued[k] + 1
        /\ \A c \in AllChannels : c # k => queued'[c] = queued[c]
    BY <2>1 DEF ContactInv, ContactTypeOK
  <2>5. ContactTypeOK'
    <3>1. \A i \in DOMAIN todo' : todo'[i] \in OnList'
      BY DEF OnList
    <3>2. \A i \in DOMAIN todo' : plan'[todo'[i]] # Null
      BY <3>1, <2>2, <2>3, <1>1
    <3> QED BY <3>2, <2>1, <2>2, <2>4, <1>1 DEF ContactInv, ContactTypeOK
  <2>6. Stages'
    BY <1>1, <2>1 DEF ContactInv, Stages
  <2>7. Planned' /\ StepsInOrder' /\ ConditionsComplete'
    BY <1>1, <2>1, PlanKept
  <2>8. Attempts' /\ Gone'
    BY <1>1, <2>1 DEF ContactInv, Attempts, Interrupted, Gone
  <2>9. Listed'
    <3>1. \A c \in OnList' : Immediate(c)'
      BY <2>2, <2>3, <1>1 DEF Immediate
    <3> QED BY <3>1, <1>1, <2>1, <2>2 DEF Listed, Distinct
  <2>10. Orders'
    <3>1. ASSUME NEW c \in AllChannels
          PROVE  /\ Ordered(c)' + OwedOne(c)' = Ordered(c) + OwedOne(c)
                 /\ Owed(c)' => Owed(c) /\ Ordered(c)' = Ordered(c)
                 /\ Delayable(c)' <=> Delayable(c)
      <4>1. Ordered(c)' = Cardinality(JobsFor(c)) + queued'[c] + handled[c]
        BY <1>1 DEF Ordered, JobsFor
      <4>2. CASE c = k
        <5>1. OwedOne(k) = 1 /\ OwedOne(k)' = 0 /\ ~Owed(k)'
          BY <1>1, <2>1, <2>2 DEF OwedOne, Owed
        <5>2. Ordered(k)' = Ordered(k) + 1
          BY <4>1, <4>2, <2>4, Counts
        <5> QED BY <4>2, <5>1, <5>2, Counts, <1>1 DEF Delayable
      <4>3. CASE c # k
        <5>1. OwedOne(c)' = OwedOne(c) /\ (Owed(c)' <=> Owed(c))
          BY <4>3, <1>1, <2>1, <2>2 DEF OwedOne, Owed
        <5>2. Ordered(c)' = Ordered(c)
          BY <4>1, <4>3, <2>4, Counts
        <5> QED BY <5>1, <5>2, <1>1 DEF Delayable
      <4> QED BY <4>2, <4>3
    <3>2. (Undisturbed' => Undisturbed) /\ IsFiniteSet(jobs')
      BY <1>1, <2>1 DEF Undisturbed, ContactInv, Orders
    <3>3. (Undisturbed' /\ stage' \in {"publish", "done"}) => card'.saved
      BY <3>2, <1>1, <2>1 DEF ContactInv, Orders
    <3>4. ASSUME NEW c \in AllChannels PROVE Bounded(c)' /\ NotBegun(c)' /\ Balanced(c)'
      <4>1. Bounded(c) /\ NotBegun(c) /\ Balanced(c)
        BY DEF ContactInv, Orders
      <4>2. Bounded(c)'
        BY <3>1, <4>1, <1>1 DEF Bounded
      <4>3. NotBegun(c)'
        BY <3>1, <4>1, <1>1 DEF NotBegun
      <4>4. Balanced(c)'
        BY <3>1, <3>2, <4>1, <1>1 DEF Balanced
      <4> QED BY <4>2, <4>3, <4>4
    <3> QED BY <3>2, <3>3, <3>4 DEF Orders
  <2> QED BY <2>5, <2>6, <2>7, <2>8, <2>9, <2>10 DEF ContactInv
<1> QED BY <1>2, <1>3

LEMMA ContactCallFailsInv ==
  ASSUME ContactInv, ContactCallFails
  PROVE  ContactInv'
<1>1. /\ contactFaults < MaxContactFaults /\ contactFaults' = contactFaults + 1
      /\ contactFaults \in 0..MaxContactFaults /\ MaxContactFaults \in Nat /\ attempt \in Nat
      /\ UNCHANGED <<ask, steps, dueTime, plan, todo, card, jobs, queued, handled,
                     jobReruns, removed>>
  BY ContactAssumption DEF ContactCallFails, ContactFault, ContactInv, ContactTypeOK
<1>2. \/ stage \in {"exist", "row"} /\ stage' = "exist" /\ attempt' = attempt + 1
      \/ stage \in {"jobs", "save", "publish"} /\ stage' = "undo" /\ attempt' = attempt
  BY DEF ContactCallFails, Again
<1>3. Attempts'
  BY <1>1, <1>2 DEF ContactInv, Attempts, Interrupted
<1>4. ContactTypeOK'
  <2>1. attempt' \in 0..(MaxContactFaults + 1)
    BY <1>1, <1>2, <1>3 DEF Attempts
  <2> QED BY <2>1, <1>1, <1>2 DEF ContactInv, ContactTypeOK
<1>5. Stages' /\ Listed' /\ Gone'
  BY <1>1, <1>2 DEF ContactInv, Stages, Listed, Gone
<1>6. Planned' /\ StepsInOrder' /\ ConditionsComplete'
  BY <1>1, <1>2, PlanKept
<1>7. Orders'
  <2>1. CASE attempt' = attempt + 1
    BY <2>1, <1>1, OrdersAgain
  <2>2. CASE stage' = "undo" /\ attempt' = attempt
    <3>1. (\A c \in AllChannels : ~Owed(c)') /\ ~Undisturbed'
      BY <2>2 DEF Owed, Undisturbed
    <3> QED BY <1>1, <2>2, <3>1, OrdersKept
  <2> QED BY <1>2, <2>1, <2>2
<1> QED BY <1>3, <1>4, <1>5, <1>6, <1>7 DEF ContactInv

LEMMA OneAttemptMore ==
  ASSUME NEW n \in Nat, NEW f \in Nat, NEW g \in Nat, NEW r \in Nat, NEW m \in Nat,
         n + 1 <= f + r, f <= g, g <= m, r <= 1
  PROVE  n + 1 + 0 <= g + r /\ n + 1 \in 0..(m + 1)
OBVIOUS

LEMMA UndoContactInv ==
  ASSUME ContactInv, UndoContact
  PROVE  ContactInv'
<1>1. /\ stage = "undo" /\ stage' = "exist" /\ attempt' = attempt + 1
      /\ \/ card' = Null /\ contactFaults' = contactFaults
         \/ /\ contactFaults < MaxContactFaults /\ contactFaults' = contactFaults + 1
            /\ card' = card
      /\ UNCHANGED <<ask, steps, dueTime, plan, todo, jobs, queued, handled, jobReruns,
                     removed>>
  BY DEF UndoContact, ContactFault, Again
<1>2. /\ contactFaults \in 0..MaxContactFaults /\ MaxContactFaults \in Nat /\ attempt \in Nat
      /\ contactFaults' \in 0..MaxContactFaults
  BY <1>1, ContactAssumption DEF ContactInv, ContactTypeOK
<1>3. Attempts' /\ attempt' \in 0..(MaxContactFaults + 1)
  <2> PICK n \in Nat, f \in Nat, g \in Nat, r \in Nat, m \in Nat :
        /\ r <= 1
        /\ n = attempt /\ f = contactFaults /\ g = contactFaults' /\ m = MaxContactFaults
        /\ r = IF removed = "no" THEN 0 ELSE 1
    BY <1>2
  <2>1. n + 1 <= f + r
    BY <1>1 DEF ContactInv, Attempts, Interrupted
  <2>2. g <= m
    BY <1>2
  <2>3. f <= g
    <3>1. CASE contactFaults' = contactFaults
      BY <3>1
    <3>2. CASE contactFaults' = contactFaults + 1
      <4>1. g = f + 1
        BY <3>2
      <4> QED BY <4>1
    <3> QED BY <3>1, <3>2, <1>1
  <2>4. r <= 1
    OBVIOUS
  <2>5. n + 1 + 0 <= g + r /\ n + 1 \in 0..(m + 1)
    BY <2>1, <2>2, <2>3, <2>4, OneAttemptMore
  <2>6. ~Interrupted' /\ (IF removed' = "no" THEN 0 ELSE 1) = r
    BY <1>1 DEF Interrupted
  <2>7. attempt' = n + 1
    BY <1>1
  <2>8. Attempts'
    BY <2>5, <2>6, <2>7 DEF Attempts
  <2>9. attempt' \in 0..(MaxContactFaults + 1)
    BY <2>5, <2>7
  <2> QED BY <2>8, <2>9
<1>4. ContactTypeOK'
  <2>1. attempt' \in 0..(MaxContactFaults + 1)
    BY <1>3
  <2> QED BY <2>1, <1>1, <1>2 DEF ContactInv, ContactTypeOK
<1>5. Stages' /\ Listed' /\ Gone'
  BY <1>1, <1>2 DEF ContactInv, Stages, Listed, Gone
<1>6. Planned' /\ StepsInOrder' /\ ConditionsComplete'
  BY <1>1, PlanKept
<1>7. Orders'
  BY <1>1, OrdersAgain
<1> QED BY <1>3, <1>4, <1>5, <1>6, <1>7 DEF ContactInv

LEMMA ContactCrashInv ==
  ASSUME ContactInv, ContactCrash
  PROVE  ContactInv'
<1>1. /\ contactFaults < MaxContactFaults /\ contactFaults' = contactFaults + 1
      /\ contactFaults \in 0..MaxContactFaults /\ MaxContactFaults \in Nat /\ attempt \in Nat
      /\ stage \in {"row", "jobs", "save", "publish", "undo"}
      /\ stage' = "exist" /\ attempt' = attempt + 1
      /\ UNCHANGED <<ask, steps, dueTime, plan, todo, card, jobs, queued, handled,
                     jobReruns, removed>>
  BY ContactAssumption DEF ContactCrash, ContactFault, Again, ContactInv, ContactTypeOK
<1>2. Attempts'
  BY <1>1 DEF ContactInv, Attempts, Interrupted
<1>3. ContactTypeOK'
  <2>1. attempt' \in 0..(MaxContactFaults + 1)
    BY <1>1, <1>2 DEF Attempts
  <2> QED BY <2>1, <1>1 DEF ContactInv, ContactTypeOK
<1>4. Stages' /\ Listed' /\ Gone'
  BY <1>1 DEF ContactInv, Stages, Listed, Gone
<1>5. Planned' /\ StepsInOrder' /\ ConditionsComplete'
  BY <1>1, PlanKept
<1>6. Orders'
  BY <1>1, OrdersAgain
<1> QED BY <1>2, <1>3, <1>4, <1>5, <1>6 DEF ContactInv

\* Deletes, jobs and consumers leave the handler alone.
LEMMA DeleteContactInv ==
  ASSUME ContactInv, DeleteContact
  PROVE  ContactInv'
<1>1. /\ removed = "no" /\ card # Null /\ card' = Null /\ jobs' \subseteq jobs
      /\ removed' = IF stage = "done" THEN "late" ELSE "early"
      /\ UNCHANGED <<ask, steps, dueTime, plan, stage, todo, attempt, queued, handled,
                     jobReruns, contactFaults>>
  BY DEF DeleteContact
<1>2. ContactTypeOK'
  BY <1>1 DEF ContactInv, ContactTypeOK
<1>3. Stages' /\ Listed' /\ Gone'
  BY <1>1 DEF ContactInv, Stages, Listed, Gone, OnList, Delayable, Immediate
<1>4. Planned' /\ StepsInOrder' /\ ConditionsComplete'
  BY <1>1, PlanKept
<1>5. Attempts'
  <2>1. attempt \in Nat /\ contactFaults \in Nat
    BY ContactAssumption DEF ContactInv, ContactTypeOK
  <2>2. attempt + (IF Interrupted THEN 1 ELSE 0) <= contactFaults + 0
    BY <1>1 DEF ContactInv, Attempts
  <2>3. attempt <= contactFaults
    BY <2>1, <2>2
  <2>4. attempt + 1 <= contactFaults + 1 /\ attempt + 0 <= contactFaults + 1
    BY <2>1, <2>3
  <2>5. attempt + (IF Interrupted' THEN 1 ELSE 0) <= contactFaults + 1
    BY <2>4
  <2>6. (IF removed' = "no" THEN 0 ELSE 1) = 1
    BY <1>1
  <2> QED BY <2>5, <2>6, <1>1 DEF Attempts
<1>6. Orders'
  <2>1. IsFiniteSet(jobs')
    BY <1>1, FS_Subset DEF ContactInv, Orders
  <2>2. ~Undisturbed'
    BY <1>1 DEF Undisturbed
  <2>3. ASSUME NEW c \in AllChannels PROVE Bounded(c)' /\ NotBegun(c)' /\ Balanced(c)'
    <3>1. Ordered(c)' = Cardinality(JobsFor(c)') + queued[c] + handled[c]
      BY <1>1 DEF Ordered, JobsFor
    <3>2. JobsFor(c)' \subseteq JobsFor(c)
      BY <1>1 DEF JobsFor
    <3>3. /\ Cardinality(JobsFor(c)') \in Nat
          /\ Cardinality(JobsFor(c)') <= Cardinality(JobsFor(c))
      BY <3>2, Counts, FS_Subset, FS_CardinalityType
    <3>4. OwedOne(c)' = OwedOne(c) /\ (Owed(c)' <=> Owed(c))
      BY <1>1 DEF OwedOne, Owed, OnList, Immediate
    <3>5. Ordered(c)' <= Ordered(c) /\ Ordered(c)' \in Nat
      BY <3>1, <3>3, Counts
    <3>6. Bounded(c)'
      BY <3>4, <3>5, <1>1, Counts DEF Bounded
    <3>7. NotBegun(c)'
      <4>1. NotBegun(c)
        BY DEF ContactInv, Orders
      <4>2. Ordered(c) = 0 => Ordered(c)' = 0
        BY <3>5
      <4> QED BY <4>1, <4>2, <3>4, <1>1 DEF NotBegun
    <3> QED BY <2>2, <3>6, <3>7 DEF Balanced
  <2> QED BY <2>1, <2>2, <2>3 DEF Orders, Undisturbed
<1> QED BY <1>2, <1>3, <1>4, <1>5, <1>6 DEF ContactInv

LEMMA RunContactJobInv ==
  ASSUME ContactInv, NEW j \in jobs, RunContactJob(j)
  PROVE  ContactInv'
<1>1. UNCHANGED <<ask, steps, dueTime, plan, stage, todo, card, attempt, handled,
                  jobReruns, contactFaults, removed>>
  BY DEF RunContactJob
<1>2. ContactTypeOK'
  BY <1>1, JobBecomesCommand DEF ContactInv, ContactTypeOK
<1>3. Stages' /\ Listed' /\ Gone' /\ Attempts'
  BY <1>1 DEF ContactInv, Stages, Listed, Gone, OnList, Delayable, Immediate, Attempts, Interrupted
<1>4. Planned' /\ StepsInOrder' /\ ConditionsComplete'
  BY <1>1, PlanKept
<1>5. Orders'
  <2>1. \A c \in AllChannels : /\ OwedOne(c)' = OwedOne(c) /\ Ordered(c)' = Ordered(c)
                               /\ (Delayable(c)' <=> Delayable(c)) /\ (Owed(c)' <=> Owed(c))
    BY <1>1, JobBecomesCommand DEF OwedOne, Owed, OnList, Immediate, Delayable
  <2>2. Undisturbed' <=> Undisturbed
    BY <1>1 DEF Undisturbed
  <2> QED BY <2>1, <2>2, <1>1, JobBecomesCommand
         DEF ContactInv, Orders, Bounded, NotBegun, Balanced
<1> QED BY <1>2, <1>3, <1>4, <1>5 DEF ContactInv

\* A job that runs again publishes once more.  Only what has been ordered has a job.
LEMMA RerunContactJobInv ==
  ASSUME ContactInv, NEW j \in jobs, RerunContactJob(j)
  PROVE  ContactInv'
<1> PICK k \in AllChannels : k = j.channel
  BY DEF ContactInv, ContactTypeOK, JobOf
<1>1. /\ contactFaults < MaxContactFaults /\ contactFaults' = contactFaults + 1
      /\ queued' = [queued EXCEPT ![k] = queued[k] + 1]
      /\ jobReruns' = [jobReruns EXCEPT ![k] = jobReruns[k] + 1]
      /\ UNCHANGED <<ask, steps, dueTime, plan, stage, todo, card, jobs, attempt, handled, removed>>
  BY DEF RerunContactJob, ContactFault
<1>2. /\ queued \in [AllChannels -> Nat] /\ jobReruns \in [AllChannels -> Nat]
      /\ contactFaults \in 0..MaxContactFaults /\ MaxContactFaults \in Nat /\ attempt \in Nat
  BY ContactAssumption DEF ContactInv, ContactTypeOK
<1>3. /\ queued' \in [AllChannels -> Nat] /\ queued'[k] = queued[k] + 1
      /\ \A c \in AllChannels : c # k => queued'[c] = queued[c]
      /\ jobReruns' \in [AllChannels -> Nat] /\ jobReruns'[k] = jobReruns[k] + 1
      /\ \A c \in AllChannels : c # k => jobReruns'[c] = jobReruns[c]
  BY <1>1, <1>2
<1>4. ContactTypeOK'
  BY <1>1, <1>2, <1>3 DEF ContactInv, ContactTypeOK
<1>5. Stages' /\ Listed' /\ Gone'
  BY <1>1 DEF ContactInv, Stages, Listed, Gone, OnList, Delayable, Immediate
<1>6. Attempts'
  BY <1>1, <1>2 DEF ContactInv, Attempts, Interrupted
<1>7. Planned' /\ StepsInOrder' /\ ConditionsComplete'
  BY <1>1, PlanKept
<1>8. Orders'
  <2>1. ASSUME NEW c \in AllChannels
        PROVE  /\ OwedOne(c)' = OwedOne(c) /\ (Owed(c)' <=> Owed(c))
               /\ (Delayable(c)' <=> Delayable(c))
               /\ Ordered(c)' = Cardinality(JobsFor(c)) + queued'[c] + handled[c]
    BY <1>1 DEF OwedOne, Owed, OnList, Immediate, Delayable, Ordered, JobsFor
  <2>2. /\ (Undisturbed' <=> Undisturbed) /\ IsFiniteSet(jobs')
        /\ (Undisturbed' /\ stage' \in {"publish", "done"}) => card'.saved
    BY <1>1 DEF Undisturbed, ContactInv, Orders
  <2>3. Ordered(k) > 0
    <3>1. j \in JobsFor(k)
      BY DEF JobsFor
    <3>2. Cardinality(JobsFor(k)) # 0
      BY <3>1, Counts, FS_EmptySet
    <3> QED BY <3>2, Counts
  <2>4. ASSUME NEW c \in AllChannels PROVE Bounded(c)' /\ NotBegun(c)' /\ Balanced(c)'
    <3>1. Bounded(c) /\ NotBegun(c) /\ Balanced(c)
      BY DEF ContactInv, Orders
    <3>2. CASE c = k
      <4>1. Ordered(k)' = Ordered(k) + 1 /\ jobReruns'[k] = jobReruns[k] + 1
        <5>1. Ordered(k)' = Cardinality(JobsFor(k)) + (queued[k] + 1) + handled[k]
          BY <2>1, <1>3
        <5>2. Ordered(k) = Cardinality(JobsFor(k)) + queued[k] + handled[k]
          BY Counts
        <5>3. Cardinality(JobsFor(k)) \in Nat /\ queued[k] \in Nat /\ handled[k] \in Nat
          BY Counts
        <5> QED BY <5>1, <5>2, <5>3, <1>3
      <4>2. Bounded(k)'
        BY <4>1, <3>1, <3>2, <2>1, <1>1, Counts DEF Bounded
      <4>3. NotBegun(k)'
        BY <2>1, <2>3, <3>1, <3>2, <1>1 DEF NotBegun
      <4>4. Balanced(k)'
        <5>1. Ordered(k) + OwedOne(k) = 1 + jobReruns[k]
                => Ordered(k)' + OwedOne(k)' = 1 + jobReruns'[k]
          BY <4>1, <2>1, Counts
        <5> QED BY <5>1, <2>1, <2>2, <3>1, <3>2, <1>1 DEF Balanced
      <4> QED BY <3>2, <4>2, <4>3, <4>4
    <3>3. CASE c # k
      <4>1. Ordered(c)' = Ordered(c) /\ jobReruns'[c] = jobReruns[c]
        BY <2>1, <3>3, <1>3, Counts
      <4> QED BY <4>1, <3>1, <2>1, <2>2, <1>1 DEF Bounded, NotBegun, Balanced
    <3> QED BY <3>2, <3>3
  <2> QED BY <2>2, <2>4 DEF Orders
<1> QED BY <1>4, <1>5, <1>6, <1>7, <1>8 DEF ContactInv

\* A command that finds no row counts no longer; while the first attempt is undisturbed,
\* only an SMS whose job came before the row was saved can be one.
LEMMA ConsumePartInv ==
  ASSUME ContactInv, NEW k \in AllChannels, ConsumePart(k)
  PROVE  ContactInv'
<1>1. /\ queued[k] > 0 /\ queued' = [queued EXCEPT ![k] = queued[k] - 1]
      /\ handled' = IF FindsRow(k) THEN [handled EXCEPT ![k] = handled[k] + 1] ELSE handled
      /\ UNCHANGED <<ask, steps, dueTime, plan, stage, todo, card, jobs, attempt,
                     jobReruns, contactFaults, removed>>
  BY DEF ConsumePart
<1>2. queued \in [AllChannels -> Nat] /\ handled \in [AllChannels -> Nat]
  BY DEF ContactInv, ContactTypeOK
<1>3. /\ queued' \in [AllChannels -> Nat] /\ queued'[k] = queued[k] - 1
      /\ \A c \in AllChannels : c # k => queued'[c] = queued[c]
  BY <1>1, <1>2
<1>4. /\ handled' \in [AllChannels -> Nat]
      /\ FindsRow(k) => handled'[k] = handled[k] + 1
      /\ ~FindsRow(k) => handled'[k] = handled[k]
      /\ \A c \in AllChannels : c # k => handled'[c] = handled[c]
  BY <1>1, <1>2
<1>5. ContactTypeOK'
  BY <1>1, <1>3, <1>4 DEF ContactInv, ContactTypeOK
<1>6. Stages' /\ Listed' /\ Gone' /\ Attempts'
  BY <1>1 DEF ContactInv, Stages, Listed, Gone, OnList, Delayable, Immediate, Attempts, Interrupted
<1>7. Planned' /\ StepsInOrder' /\ ConditionsComplete'
  BY <1>1, PlanKept
<1>8. Orders'
  <2>1. \A c \in AllChannels : /\ OwedOne(c)' = OwedOne(c) /\ (Owed(c)' <=> Owed(c))
                               /\ Delayable(c)' <=> Delayable(c)
    BY <1>1 DEF OwedOne, Owed, OnList, Immediate, Delayable
  <2>2. Undisturbed' <=> Undisturbed
    BY <1>1 DEF Undisturbed
  <2>3. \A c \in AllChannels : Ordered(c)' = Cardinality(JobsFor(c)) + queued'[c] + handled'[c]
    BY <1>1 DEF Ordered, JobsFor
  <2>4. \A c \in AllChannels : c # k => Ordered(c)' = Ordered(c)
    BY <2>3, <1>3, <1>4, Counts
  <2>5. /\ FindsRow(k) => Ordered(k)' = Ordered(k)
        /\ Ordered(k)' \in Nat /\ Ordered(k)' <= Ordered(k) /\ Ordered(k) > 0
    BY <2>3, <1>1, <1>3, <1>4, Counts
  <2>6. ASSUME NEW c \in AllChannels PROVE Bounded(c)' /\ NotBegun(c)'
    <3>1. Ordered(c)' <= Ordered(c) /\ Ordered(c)' \in Nat
      BY <2>4, <2>5, Counts
    <3>2. Bounded(c)'
      BY <3>1, <2>1, <1>1, Counts DEF Bounded
    <3>3. Ordered(c) = 0 => Ordered(c)' = 0
      BY <3>1
    <3>4. NotBegun(c)
      BY DEF ContactInv, Orders
    <3>5. NotBegun(c)'
      BY <3>3, <3>4, <2>1, <1>1 DEF NotBegun
    <3> QED BY <3>2, <3>5
  <2>7. ASSUME Undisturbed, plan[k] # Null, ~FindsRow(k) PROVE k = "Sms" /\ Delayable(k)
    <3>1. k = "Sms" /\ ~card.saved
      BY <2>7 DEF FindsRow, Undisturbed
    <3>2. stage \in {"jobs", "save"}
      BY <2>7, <3>1 DEF Undisturbed, ContactInv, Orders
    <3>3. attempt = 0
      BY <2>7 DEF Undisturbed
    <3>4. ~Owed(k)
      BY <2>5, <3>3 DEF ContactInv, Orders, NotBegun
    <3>5. Delayable(k)
      BY <3>2, <3>4, <2>7 DEF Owed, Immediate, Delayable
    <3> QED BY <3>1, <3>5
  <2>8. ASSUME NEW c \in AllChannels, Undisturbed', plan'[c] # Null
        PROVE  Ordered(c)' + OwedOne(c)' = 1 + jobReruns'[c] \/ (c = "Sms" /\ Delayable(c)')
    <3>1. Ordered(c) + OwedOne(c) = 1 + jobReruns[c] \/ (c = "Sms" /\ Delayable(c))
      BY <2>2, <2>8, <1>1 DEF ContactInv, Orders, Balanced
    <3>2. CASE c # k
      BY <3>1, <3>2, <2>1, <2>4, <1>1
    <3>3. CASE c = k /\ FindsRow(k)
      BY <3>1, <3>3, <2>1, <2>5, <1>1
    <3>4. CASE c = k /\ ~FindsRow(k)
      BY <3>4, <2>1, <2>2, <2>7, <2>8, <1>1
    <3> QED BY <3>2, <3>3, <3>4
  <2>9. \A c \in AllChannels : Balanced(c)'
    BY <2>8 DEF Balanced
  <2> QED BY <2>2, <2>6, <2>9, <1>1 DEF ContactInv, Orders
<1> QED BY <1>5, <1>6, <1>7, <1>8 DEF ContactInv

LEMMA ContactNextInv == ASSUME ContactInv, [ContactNext]_contactVars PROVE ContactInv'
<1>1. CASE UNCHANGED contactVars
  <2>1. UNCHANGED <<ask, steps, dueTime, plan, stage, todo, card, jobs, attempt, queued,
                    handled, jobReruns, contactFaults, removed>>
    BY <1>1 DEF contactVars
  <2>2. ContactTypeOK'
    BY <2>1 DEF ContactInv, ContactTypeOK
  <2>3. Stages' /\ Listed' /\ Gone' /\ Attempts'
    BY <2>1 DEF ContactInv, Stages, Listed, Gone, OnList, Delayable, Immediate, Attempts, Interrupted
  <2>4. Planned' /\ StepsInOrder' /\ ConditionsComplete'
    BY <2>1, PlanKept
  <2>5. Orders'
    <3>1. \A c \in AllChannels : Owed(c)' <=> Owed(c)
      BY <2>1 DEF Owed, OnList, Immediate
    <3>2. (Undisturbed' <=> Undisturbed) /\ ((Undisturbed' /\ stage' \in {"publish", "done"}) => card'.saved)
      BY <2>1 DEF Undisturbed, ContactInv, Orders
    <3> QED BY <2>1, <3>1, <3>2, OrdersKept
  <2> QED BY <2>2, <2>3, <2>4, <2>5 DEF ContactInv
<1>2. CASE ContactNext
  BY <1>2, ReceiveContactInv, TakeStepInv, EndStepsInv, IsExistContactInv, AddContactRowInv,
     ScheduleOneInv, SaveContactRowInv, PublishOneInv, ContactCallFailsInv, UndoContactInv,
     ContactCrashInv, DeleteContactInv, RunContactJobInv, RerunContactJobInv, ConsumePartInv
  DEF ContactNext
<1> QED BY <1>1, <1>2

LEMMA ContactInvariant == ContactSpec => []ContactInv
BY ContactInitInv, ContactNextInv, PTL DEF ContactSpec

\* SendMessageToContactHandler's loop: parts go out in the order of their steps, each at
\* least its delay after every earlier one, for any number of steps and channels.
THEOREM ContactStepsInOrder == ContactSpec => []StepsInOrder
<1>1. ContactInv => StepsInOrder
  BY DEF ContactInv
<1> QED BY <1>1, ContactInvariant, PTL

\* The dependencies the loop gives a step: exactly the earlier steps with content and a
\* recipient, after no Notification step.
THEOREM ContactConditions == ContactSpec => []ConditionsComplete
<1>1. ContactInv => ConditionsComplete
  BY DEF ContactInv
<1> QED BY <1>1, ContactInvariant, PTL

\* AddJobAndSetToDomainSeparate with its retries, and Hangfire, which may run a job of a
\* part again after it has published: at most one command for each part and attempt, and
\* one for each run that was repeated; exactly one and those if the first attempt
\* succeeded.
THEOREM ContactOnce == ContactSpec => []EachPartOnce
<1>1. ContactInv => EachPartOnce
  <2> SUFFICES ASSUME ContactInv, NEW c \in AllChannels
               PROVE  /\ Ordered(c) <= attempt + 1 + jobReruns[c]
                      /\ (stage = "done" /\ attempt = 0 /\ card # Null /\ plan[c] # Null)
                           => Ordered(c) = 1 + jobReruns[c] \/ (c = "Sms" /\ Delayable(c))
    BY DEF EachPartOnce
  <2>1. Ordered(c) <= attempt + 1 + jobReruns[c]
    BY Counts
  <2>2. ASSUME stage = "done", attempt = 0, card # Null, plan[c] # Null
        PROVE  Ordered(c) = 1 + jobReruns[c] \/ (c = "Sms" /\ Delayable(c))
    <3>1. Undisturbed /\ OwedOne(c) = 0
      BY <2>2 DEF Undisturbed, OwedOne, Owed
    <3>2. Ordered(c) + 0 = 1 + jobReruns[c] \/ (c = "Sms" /\ Delayable(c))
      BY <3>1, <2>2 DEF ContactInv, Orders, Balanced
    <3> QED BY <3>2, Counts
  <2> QED BY <2>1, <2>2
<1> QED BY <1>1, ContactInvariant, PTL

\* The consumers look for the row: once a delete has found the handler done, no command
\* is handled any more, although all jobs but the last still run.
THEOREM ContactDeleteStops == ContactSpec => ContactLateDelete
<1>1. ASSUME ContactInv, [ContactNext]_contactVars
      PROVE  [removed = "late" => handled' = handled]_contactVars
  <2> SUFFICES ASSUME removed = "late", ContactNext PROVE handled' = handled
    BY <1>1
  <2>1. card = Null /\ stage = "done"
    BY <1>1 DEF ContactInv, Gone
  <2>2. CASE \E c \in AllChannels : ConsumePart(c)
    BY <2>1, <2>2 DEF ConsumePart, FindsRow
  <2>3. CASE ~\E c \in AllChannels : ConsumePart(c)
    BY <2>3 DEF ContactNext, ReceiveContact, TakeStep, EndSteps, IsExistContact, AddContactRow,
       ScheduleOne, SaveContactRow, PublishOne, ContactCallFails, UndoContact, ContactCrash,
       DeleteContact, RunContactJob, RerunContactJob
  <2> QED BY <2>2, <2>3
<1> QED BY <1>1, ContactInvariant, PTL DEF ContactSpec, ContactLateDelete

-----------------------------------------------------------------------------
(* The components side by side                                             *)

\* SendVerifySmsConsumer and VerifySmsSentConsumer keep the types of their state; no two
\* rows have the id of one event.
THEOREM VerifyTypeCorrect == VerifySpec => []VerifyTypeOK
<1>1. VerifyInv => VerifyTypeOK
  BY DEF VerifyInv
<1> QED BY <1>1, VerifyInvariant, PTL

\* SendMessageToContactHandler keeps the types of its state; in particular LongRetry is
\* never asked for more attempts than there were failures, and one for a delete.
THEOREM ContactTypeCorrect == ContactSpec => []ContactTypeOK
<1>1. ContactInv => ContactTypeOK
  BY DEF ContactInv
<1> QED BY <1>1, ContactInvariant, PTL

LEMMA OneMoves ==
  ASSUME [Next]_<<focus, inboxVars, realTimeVars, contactVars, verifyVars, settingsVars, checkerVars>>
  PROVE  /\ [InboxNext]_inboxVars /\ [RealTimeNext]_realTimeVars /\ [ContactNext]_contactVars
         /\ [VerifyNext]_verifyVars /\ [SettingsNext]_settingsVars /\ [CheckerNext]_checkerVars
<1>1. CASE UNCHANGED <<focus, inboxVars, realTimeVars, contactVars, verifyVars, settingsVars, checkerVars>>
  <2>1. /\ UNCHANGED inboxVars /\ UNCHANGED realTimeVars /\ UNCHANGED contactVars
        /\ UNCHANGED verifyVars /\ UNCHANGED settingsVars /\ UNCHANGED checkerVars
    BY <1>1
  <2> QED BY <2>1
<1>2. CASE Next
  <2>1. CASE focus = "inbox"
    BY <1>2, <2>1 DEF Next
  <2>2. CASE focus = "realTime"
    BY <1>2, <2>2 DEF Next
  <2>3. CASE focus = "contact"
    BY <1>2, <2>3 DEF Next
  <2>4. CASE focus = "verify"
    BY <1>2, <2>4 DEF Next
  <2>5. CASE focus = "settings"
    BY <1>2, <2>5 DEF Next
  <2>6. CASE focus = "checker"
    BY <1>2, <2>6 DEF Next
  <2> QED BY <1>2, <2>1, <2>2, <2>3, <2>4, <2>5, <2>6 DEF Next
<1> QED BY <1>1, <1>2

\* In MCServices one component moves at a time, so that a behaviour of it is a
\* behaviour of each of them, and what is proved of a component holds there.
THEOREM ServicesRefine ==
  Spec => /\ InboxSpec /\ RealTimeSpec /\ ContactSpec /\ VerifySpec /\ SettingsSpec /\ CheckerSpec
<1>1. Init => /\ InboxInit /\ RealTimeInit /\ ContactInit
              /\ VerifyInit /\ SettingsInit /\ CheckerInit
  BY DEF Init
<1> QED BY <1>1, OneMoves, PTL
        DEF Spec, InboxSpec, RealTimeSpec, ContactSpec, VerifySpec, SettingsSpec, CheckerSpec

\* The components that share no state keep the types of all of it.
THEOREM ServicesTypeCorrect == Spec => []ServicesTypeOK
<1>1. (InboxTypeOK /\ RealTimeTypeOK /\ ContactTypeOK /\ VerifyTypeOK /\ SettingsTypeOK /\ CheckerTypeOK)
        => ServicesTypeOK
  BY DEF ServicesTypeOK
<1> QED BY <1>1, ServicesRefine, InboxTypeCorrect, RealTimeTypeCorrect, ContactTypeCorrect,
           VerifyTypeCorrect, SettingsTypeCorrect, CheckerTypeCorrect, PTL

=============================================================================
