----------------------------- MODULE MCServices -----------------------------
(***************************************************************************)
(* The components that share no state with the others, or with each other: *)
(* a behaviour is one of them alone, the focus, and so is a counterexample.*)
(***************************************************************************)
EXTENDS Inbox, RealTime, Contact, VerifySms, Settings, UptimeChecker

CONSTANTS
  m1, m2, m3, c1, c2,      \* Inbox
  p1, p2, n1, n2,          \* RealTime
  v1, v2, g1, g2,          \* VerifySms
  h1, h2, r1, r2, s1, s2   \* Settings and UptimeChecker

VARIABLE focus

Init ==
  /\ focus \in {"inbox", "realTime", "contact", "verify", "settings", "checker"}
  /\ InboxInit /\ RealTimeInit /\ ContactInit /\ VerifyInit /\ SettingsInit /\ CheckerInit

\* Only the focus moves.
Next ==
  /\ UNCHANGED focus
  /\ focus # "inbox"    => UNCHANGED inboxVars
  /\ focus # "realTime" => UNCHANGED realTimeVars
  /\ focus # "contact"  => UNCHANGED contactVars
  /\ focus # "verify"   => UNCHANGED verifyVars
  /\ focus # "settings" => UNCHANGED settingsVars
  /\ focus # "checker"  => UNCHANGED checkerVars
  /\ \/ focus = "inbox"    /\ InboxNext
     \/ focus = "realTime" /\ RealTimeNext
     \/ focus = "contact"  /\ ContactNext
     \/ focus = "verify"   /\ VerifyNext
     \/ focus = "settings" /\ SettingsNext
     \/ focus = "checker"  /\ CheckerNext

Spec == Init /\ [][Next]_<<focus, inboxVars, realTimeVars, contactVars,
                           verifyVars, settingsVars, checkerVars>>

\* The components' type invariants: besides types, they say that an inbox has a
\* user, that a disconnect is counted after its connect, that events are recorded
\* once, that a request assigns what it has read, and that a check that runs is
\* not waiting.
ServicesTypeOK ==
  /\ InboxTypeOK /\ RealTimeTypeOK /\ ContactTypeOK /\ VerifyTypeOK
  /\ SettingsTypeOK /\ CheckerTypeOK
=============================================================================
