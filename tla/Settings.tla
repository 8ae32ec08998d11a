------------------------------ MODULE Settings ------------------------------
(***************************************************************************)
(* SettingsHolder: every host process keeps the Settings table in a static *)
(* dictionary.  Fill sets it to null before it reads the table, and is     *)
(* called by a Get that finds null and by every Set; nothing locks.  There *)
(* is one setting, and its row exists.  A Set reads it back through its own*)
(* context, which still tracks the row, so it gets its own value.          *)
(***************************************************************************)
EXTENDS Naturals

CONSTANTS
  Hosts,          \* API processes
  Requests,       \* request threads
  SettingValues,  \* values of the setting
  FirstValue,     \* the one in the table at first
  MaxSets,        \* bound: Set requests
  NoDictionary    \* null

ASSUME SettingsAssumption ==
  FirstValue \in SettingValues /\ NoDictionary \notin SettingValues /\ MaxSets \in Nat

VARIABLES
  table,        \* the row's value
  settingsDic,  \* each process's dictionary
  request,      \* what each request is doing
  sets,         \* Set requests so far
  current,      \* history: hosts whose dictionary the last save cannot have missed
  answered      \* history: outcomes of Get requests

settingsVars == <<table, settingsDic, request, sets, current, answered>>

Dictionary == SettingValues \cup {NoDictionary}

\* own: what the request's context tracks; read: what Fill has read; beside:
\* another request has called Fill since this Get found a dictionary.
Request == [at : {"look", "save", "clear", "query", "assign", "contains", "index"},
            kind : {"get", "set"}, host : Hosts, own : Dictionary, read : Dictionary,
            beside : BOOLEAN]

Ended == [at |-> "ended"]

Outcome == [value : Dictionary, beside : BOOLEAN]

SettingsTypeOK ==
  /\ table \in SettingValues
  /\ settingsDic \in [Hosts -> Dictionary]
  /\ request \in [Requests -> Request \cup {Ended}]
  /\ \A r \in Requests : request[r].at = "assign" => request[r].read # NoDictionary
  /\ sets \in 0..MaxSets
  /\ current \subseteq Hosts
  /\ answered \subseteq Outcome

SettingsInit ==
  /\ table = FirstValue
  /\ settingsDic = [h \in Hosts |-> NoDictionary]
  /\ request = [r \in Requests |-> Ended]
  /\ sets = 0 /\ current = Hosts /\ answered = {}

-----------------------------------------------------------------------------

Does(r, step) == request[r].at = step

Moves(r, step) == request' = [request EXCEPT ![r].at = step]

\* Requests of a host that have yet to assign its dictionary.
Filling(h) ==
  {r \in Requests : request[r] # Ended /\ request[r].host = h
                    /\ request[r].at \in {"clear", "query", "assign"}}

GetSetting(r, h) ==
  /\ request[r] = Ended
  /\ request' = [request EXCEPT ![r] =
       [at |-> "look", kind |-> "get", host |-> h, own |-> NoDictionary,
        read |-> NoDictionary, beside |-> FALSE]]
  /\ UNCHANGED <<table, settingsDic, sets, current, answered>>

SetSetting(r, h, v) ==
  /\ request[r] = Ended /\ sets < MaxSets
  /\ sets' = sets + 1
  /\ request' = [request EXCEPT ![r] =
       [at |-> "save", kind |-> "set", host |-> h, own |-> v,
        read |-> NoDictionary, beside |-> FALSE]]
  /\ UNCHANGED <<table, settingsDic, current, answered>>

LookNever(r) ==
  /\ Does(r, "look") /\ Moves(r, "contains")
  /\ UNCHANGED <<table, settingsDic, sets, current, answered>>

Look(r) ==
  /\ Does(r, "look")
  /\ Moves(r, IF settingsDic[request[r].host] = NoDictionary THEN "clear" ELSE "contains")
  /\ UNCHANGED <<table, settingsDic, sets, current, answered>>

\* Set: the update of the row.  The save may fail, which ends the request.
SaveSettingOnly(r) ==
  /\ Does(r, "save")
  /\ table' = request[r].own
  /\ request' = [request EXCEPT ![r] = Ended]
  /\ current' = {h \in Hosts : Filling(h) = {}
                     /\ (h = request[r].host \/ settingsDic[h] = NoDictionary)}
  /\ UNCHANGED <<settingsDic, sets, answered>>

SaveSetting(r) ==
  LET host == request[r].host IN
  /\ Does(r, "save")
  /\ \/ /\ table' = request[r].own /\ Moves(r, "clear")
        /\ current' = {h \in Hosts :
                           /\ Filling(h) = {}
                           /\ h = host \/ settingsDic[h] = NoDictionary}
     \/ request' = [request EXCEPT ![r] = Ended] /\ UNCHANGED <<table, current>>
  /\ UNCHANGED <<settingsDic, sets, answered>>

\* Fill, in three steps.
Clear(r) ==
  LET host == request[r].host IN
  /\ Does(r, "clear")
  /\ settingsDic' = [settingsDic EXCEPT ![host] = NoDictionary]
  /\ request' = [q \in Requests |->
       IF q = r THEN [request[q] EXCEPT !.at = "query"]
       ELSE IF request[q].at \in {"contains", "index"} /\ request[q].host = host
         THEN [request[q] EXCEPT !.beside = TRUE] ELSE request[q]]
  /\ UNCHANGED <<table, sets, current, answered>>

Query(r) ==
  LET own == request[r].own IN
  /\ Does(r, "query")
  /\ request' = [request EXCEPT ![r].at = "assign",
                                ![r].read = IF own = NoDictionary THEN table ELSE own]
  /\ UNCHANGED <<table, settingsDic, sets, current, answered>>

Assign(r) ==
  /\ Does(r, "assign")
  /\ settingsDic' = [settingsDic EXCEPT ![request[r].host] = request[r].read]
  /\ IF request[r].kind = "get" THEN Moves(r, "contains")
     ELSE request' = [request EXCEPT ![r] = Ended]
  /\ UNCHANGED <<table, sets, current, answered>>

\* GetModel returns a value, or dereferences null.
Answers(r, value) ==
  /\ answered' = answered \cup {[value |-> value, beside |-> request[r].beside]}
  /\ request' = [request EXCEPT ![r] = Ended]

Contains(r) ==
  LET dic == settingsDic[request[r].host] IN
  /\ Does(r, "contains")
  /\ IF dic = NoDictionary THEN Answers(r, dic) ELSE Moves(r, "index") /\ UNCHANGED answered
  /\ UNCHANGED <<table, settingsDic, sets, current>>

Index(r) ==
  /\ Does(r, "index")
  /\ Answers(r, settingsDic[request[r].host])
  /\ UNCHANGED <<table, settingsDic, sets, current>>

RestartHost(h) ==
  /\ settingsDic' = [settingsDic EXCEPT ![h] = NoDictionary]
  /\ request' = [r \in Requests |->
       IF request[r] # Ended /\ request[r].host = h THEN Ended ELSE request[r]]
  /\ current' = current \cup {h}
  /\ UNCHANGED <<table, sets, answered>>

-----------------------------------------------------------------------------

SettingsNext ==
  \/ \E r \in Requests :
       \/ \E h \in Hosts : GetSetting(r, h) \/ \E v \in SettingValues : SetSetting(r, h, v)
       \/ Look(r) \/ SaveSetting(r) \/ Clear(r) \/ Query(r) \/ Assign(r)
       \/ Contains(r) \/ Index(r)
  \/ \E h \in Hosts : RestartHost(h)

SettingsSpec == SettingsInit /\ [][SettingsNext]_settingsVars

-----------------------------------------------------------------------------
(* Properties                                                              *)

\* Once its requests are done, a process answers what is in the table, if the last
\* Set was its own (or found it without a dictionary) and nobody was filling the
\* dictionary when that Set saved; otherwise it may answer the old value until it
\* is restarted, and another process's Set never reaches it.
FreshAfterLoneSet ==
  \A h \in current :
    (\A r \in Requests : request[r] = Ended \/ request[r].host # h)
      => settingsDic[h] \in {table, NoDictionary}

\* A Get fails on the null dictionary only if another request of its process
\* has called Fill after it had found, or filled, the dictionary.
FailsOnlyBesideFill ==
  \A a \in answered : a.value = NoDictionary => a.beside
=============================================================================
