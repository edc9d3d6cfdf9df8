---------------------------- MODULE WifiAttempt ----------------------------
(***************************************************************************)
(* What the Wi-Fi component promises a client that makes one attempt to    *)
(* connect at a time.                                                      *)
(*                                                                         *)
(* Every attempt ends with an answer.  One whose network was not known     *)
(* names it in its answers; one whose network was may name none.           *)
(* It ends without an answer of its own only if a refused key was reported *)
(* while it listened for that: whose key it was is not told, and it may be *)
(* one of an attempt before.                                               *)
(* It changes no network that is known but its own, unless it is cancelled *)
(* or wpa_supplicant denies it an entry: it then takes another network's.  *)
(* It is cancelled only if that was asked for, during it or during one     *)
(* before that was not.                                                    *)
(* What is saved changes only when an attempt has succeeded or the client  *)
(* says so.                                                                *)
(***************************************************************************)
CONSTANTS Ssids, NULL

VARIABLES
  goal,       \* the network that is being connected to, NULL if none is
  name,       \* the name it has in the answers, NULL if they name none
  kept,       \* whether it is connected to as a network that is known
  denied,     \* whether it was denied an entry of its own
  known,      \* the networks that wpa_supplicant knows
  saved,      \* those in its configuration file
  online,     \* the network the station is associated with
  seen,       \* whether the goal was seen online
  asked,      \* whether a cancel was asked for that has not taken place
  cancelled,  \* whether the attempt was cancelled a moment ago
  wrong,      \* whether a refused key was reported to a listening attempt
  told        \* the last answer: its kind, and the network it names

attempt == <<goal, name, kept>>
excuses == <<denied, asked, cancelled, wrong>>
vars == <<attempt, excuses, known, saved, online, seen, told>>

Answer(kind, ssid) == told' = [state |-> kind, ssid |-> ssid]
End ==
  /\ goal' = NULL /\ name' = NULL /\ kept' = FALSE
  /\ denied' = FALSE /\ seen' = FALSE /\ wrong' = FALSE

Init ==
  /\ goal = NULL /\ name = NULL /\ kept = FALSE /\ seen = FALSE
  /\ denied = FALSE /\ asked = FALSE /\ cancelled = FALSE /\ wrong = FALSE
  /\ known = {} /\ saved \in SUBSET Ssids /\ online = NULL
  /\ told = [state |-> "IDLE", ssid |-> NULL]

Attempt(s, keep) ==
  /\ goal = NULL
  /\ goal' = s /\ kept' = keep
  /\ name' = s \/ (name' = NULL /\ s \in known)
  /\ keep => s \in known
  /\ Answer("CONNECTING", name')
  /\ UNCHANGED <<excuses, known, saved, online, seen>>

(* A network that is not known is answered too, with any network's name.   *)
Refuse(s) ==
  /\ goal = NULL
  /\ Answer("CONNECTFAILED", s)
  /\ wrong' = FALSE
  /\ UNCHANGED <<attempt, denied, asked, cancelled, known, saved, online, seen>>

Learn ==
  /\ goal # NULL
  /\ known' = known \cup {goal}
  /\ UNCHANGED <<attempt, excuses, saved, online, seen, told>>

Deny ==
  /\ goal \notin known \cup {NULL} /\ ~seen
  /\ denied' = TRUE
  /\ UNCHANGED <<attempt, asked, cancelled, wrong, known, saved, online, seen,
                 told>>
Overwrite(s) ==
  /\ denied /\ denied' = FALSE
  /\ known' = (known \ {s}) \cup {goal}
  /\ UNCHANGED <<attempt, asked, cancelled, wrong, saved, online, seen, told>>

(* Only a goal that was not kept may be dropped when the attempt fails.    *)
Drop(s) ==
  /\ goal # NULL /\ ~seen
  /\ s = goal \/ cancelled
  /\ known' = known \/ (~kept /\ known' = known \ {s})
  /\ cancelled' = FALSE
  /\ online' \in {online, NULL}
  /\ UNCHANGED <<attempt, denied, asked, wrong, saved, seen, told>>

See ==
  /\ goal # NULL /\ online = goal
  /\ seen' = TRUE
  /\ UNCHANGED <<attempt, excuses, known, saved, online, told>>

(* Cancelling goes back to the configuration file.                         *)
Ask ==
  /\ goal # NULL
  /\ asked' = TRUE
  /\ UNCHANGED <<attempt, denied, cancelled, wrong, known, saved, online, seen,
                 told>>
Cancel ==
  /\ goal # NULL /\ ~seen
  /\ asked /\ asked' = FALSE
  /\ cancelled' = TRUE
  /\ known' = saved /\ online' = NULL
  /\ UNCHANGED <<attempt, denied, wrong, saved, seen, told>>

Save ==
  /\ seen
  /\ saved' = known
  /\ UNCHANGED <<attempt, excuses, known, online, seen, told>>

Succeed ==
  /\ seen
  /\ Answer("DHCP_OK", NULL)
  /\ End
  /\ UNCHANGED <<known, saved, online, asked, cancelled>>

Fail ==
  /\ goal # NULL /\ ~seen /\ ~cancelled
  /\ \/ Answer("CONNECTFAILED", name)
     \/ wrong /\ (UNCHANGED told \/ Answer("-1", NULL))
  /\ End
  /\ UNCHANGED <<known, saved, online, asked, cancelled>>

WrongKey ==
  /\ wrong' \in {wrong, TRUE}
  /\ Answer("WRONG_KEY", NULL)
  /\ UNCHANGED <<attempt, denied, asked, cancelled, known, saved, online, seen>>
(* A network that is not known need not be answered.                       *)
Ignore ==
  /\ goal = NULL
  /\ wrong' = FALSE
  /\ UNCHANGED <<attempt, denied, asked, cancelled, known, saved, online, seen,
                 told>>

(* Between two attempts a network is forgotten, or Wi-Fi turned off or on, *)
(* reset or recovered.                                                     *)
Forget(s) ==
  /\ goal = NULL
  /\ known' = known \ {s} /\ saved' = known'
  /\ online' \in {online, NULL}
  /\ UNCHANGED <<attempt, excuses, seen, told>>
Switch ==
  /\ goal = NULL
  /\ \/ known' \in {{}, saved} /\ saved' = saved
     \/ known' = {} /\ saved' = {}
  /\ online' = NULL
  /\ UNCHANGED <<attempt, excuses, seen, told>>

(* The station joins and leaves networks.                                  *)
Roam ==
  /\ online' \in known \cup {NULL}
  /\ UNCHANGED <<attempt, excuses, known, saved, seen, told>>

Next ==
  \/ \E s \in Ssids :
       \/ \E keep \in BOOLEAN : Attempt(s, keep)
       \/ Overwrite(s) \/ Drop(s) \/ Forget(s)
  \/ \E s \in Ssids \cup {NULL} : Refuse(s)
  \/ Learn \/ Deny \/ See \/ Ask \/ Cancel \/ Save \/ Succeed \/ Fail
  \/ WrongKey \/ Ignore \/ Switch \/ Roam

Spec == Init /\ [][Next]_vars /\ WF_vars(Succeed \/ Fail)
=============================================================================
