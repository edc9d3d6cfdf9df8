-------------------------- MODULE Bluetooth_proofs --------------------------
(***************************************************************************)
(* Proofs about Bluetooth, for any number of calls.                        *)
(***************************************************************************)
EXTENDS Bluetooth, SequenceTheorems, TLAPS

-----------------------------------------------------------------------------
(* What is left of a call.                                                 *)

Members(s) == {s[i] : i \in 1..Len(s)}
Left == Members(todo)

LEMMA Tailed ==
  ASSUME NEW S, NEW s \in Seq(S), s # <<>>
  PROVE  /\ Tail(s) \in Seq(S) /\ Head(s) = s[1] /\ s[1] \in S /\ 1 \in 1..Len(s)
         /\ Len(s) \in Nat /\ Len(Tail(s)) = Len(s) - 1
         /\ \A i \in 1..(Len(s) - 1) : Tail(s)[i] = s[i + 1]
         /\ Members(Tail(s)) \subseteq Members(s)
         /\ Members(s) \subseteq Members(Tail(s)) \cup {s[1]}
<1>1. /\ Tail(s) \in Seq(S) /\ Head(s) = s[1] /\ s[1] \in S /\ 1 \in 1..Len(s)
      /\ Len(s) \in Nat /\ Len(Tail(s)) = Len(s) - 1
      /\ \A i \in 1..(Len(s) - 1) : Tail(s)[i] = s[i + 1]
  OBVIOUS
<1>2. \A i \in 1..(Len(s) - 1) : i + 1 \in 1..Len(s)
  BY <1>1
<1>3. \A i \in 1..Len(s) : i = 1 \/ (i - 1 \in 1..(Len(s) - 1) /\ (i - 1) + 1 = i)
  BY <1>1
<1> DEFINE t == Tail(s)
<1> HIDE DEF t
<1>4. Members(t) \subseteq Members(s)
  BY <1>1, <1>2 DEF Members, t
<1>5. Members(s) \subseteq Members(t) \cup {s[1]}
  BY <1>1, <1>3 DEF Members, t
<1> QED
  BY <1>1, <1>4, <1>5 DEF t

LEMMA Joining ==
  ASSUME NEW S, NEW s \in Seq(S), NEW t \in Seq(S)
  PROVE  /\ s \o t \in Seq(S) /\ Len(s \o t) = Len(s) + Len(t)
         /\ Len(s) \in Nat /\ Len(t) \in Nat
         /\ \A i \in 1..Len(s) : (s \o t)[i] = s[i]
         /\ \A i \in 1..Len(t) : (s \o t)[Len(s) + i] = t[i]
         /\ Members(s \o t) = Members(s) \cup Members(t)
<1> DEFINE c == s \o t
<1>1. c \in Seq(S) /\ Len(c) = Len(s) + Len(t) /\ Len(s) \in Nat /\ Len(t) \in Nat
  OBVIOUS
<1>2. \A i \in 1..Len(s) : c[i] = s[i]
  OBVIOUS
<1>3. \A i \in 1..Len(t) : c[Len(s) + i] = t[i]
  OBVIOUS
<1> HIDE DEF c
<1>4. \A i \in 1..Len(c) : i \in 1..Len(s) \/ \E j \in 1..Len(t) : i = Len(s) + j
  <2> TAKE i \in 1..Len(c)
  <2>1. i \in 1..Len(s) \/ (i - Len(s) \in 1..Len(t) /\ i = Len(s) + (i - Len(s)))
    BY <1>1
  <2> QED
    BY <2>1
<1>5. \A i \in 1..Len(s) : i \in 1..Len(c)
  BY <1>1
<1>6. \A i \in 1..Len(t) : Len(s) + i \in 1..Len(c)
  BY <1>1
<1>7. Members(c) = Members(s) \cup Members(t)
  <2>1. \A x \in Members(c) : x \in Members(s) \/ x \in Members(t)
    <3> TAKE x \in Members(c)
    <3>1. PICK i \in 1..Len(c) : c[i] = x
      BY DEF Members
    <3>2. CASE i \in 1..Len(s)
      BY <1>2, <3>1, <3>2 DEF Members
    <3>3. CASE \E j \in 1..Len(t) : i = Len(s) + j
      BY <1>3, <3>1, <3>3 DEF Members
    <3> QED
      BY <1>4, <3>2, <3>3
  <2>2. \A x \in Members(s) : x \in Members(c)
    BY <1>2, <1>5 DEF Members
  <2>3. \A x \in Members(t) : x \in Members(c)
    BY <1>3, <1>6 DEF Members
  <2> QED
    BY <2>1, <2>2, <2>3
<1> QED
  BY <1>1, <1>2, <1>3, <1>7 DEF c

LEMMA One ==
  ASSUME NEW a
  PROVE  Len(<<a>>) = 1 /\ <<a>>[1] = a /\ Members(<<a>>) = {a}
<1> DEFINE s == <<a>>
<1>1. Len(s) = 1 /\ s[1] = a /\ (\A i \in 1..1 : i = 1) /\ 1 \in 1..1
  OBVIOUS
<1> HIDE DEF s
<1>2. Members(s) = {a}
  BY <1>1 DEF Members
<1> QED
  BY <1>1, <1>2 DEF s

LEMMA Two ==
  ASSUME NEW a, NEW b
  PROVE  /\ Len(<<a, b>>) = 2 /\ <<a, b>>[1] = a /\ <<a, b>>[2] = b
         /\ Members(<<a, b>>) = {a, b}
<1> DEFINE s == <<a, b>>
<1>1. Len(s) = 2 /\ s[1] = a /\ s[2] = b /\ (\A i \in 1..2 : i = 1 \/ i = 2)
      /\ 1 \in 1..2 /\ 2 \in 1..2
  OBVIOUS
<1> HIDE DEF s
<1>2. Members(s) = {a, b}
  BY <1>1 DEF Members
<1> QED
  BY <1>1, <1>2 DEF s

-----------------------------------------------------------------------------
(* The inductive invariant.                                                *)

(* Of these profiles at most flags are left that have outlived bluetoothd. *)
Gone(F) == \A f \in F : bt_control[f] => excuse[f] = "stale"

(* Functions that are only ever the first, or the last, of a call.         *)
Firsts == {"_bt_close_server", "spp_close_server"}
NoSource == {"start_sink", "control_sink", "start_hfp", "start_hfp_sink"}
Starters == NoSource \cup {"start_source"}
Finals == Starters \cup {"ble_open", "client_open", "bt_open", "kill_all"}

OrderedList(s) ==
  \A i \in 1..Len(s) :
    /\ i < Len(s) => s[i] \notin Finals
    /\ i > 1 => s[i] \notin Firsts
    /\ s[i] = "spp_close_server" => i < Len(s) /\ s[i + 1] = "spp_join"

Ordered == OrderedList(todo)

(* While bluetoothd is restarted every flag is one from before.            *)
Restarting ==
  Left \cap {"_bt_close_server", "_bt_open_server"} # {} =>
    /\ Left \subseteq {"_bt_close_server", "_bt_open_server", "bt_open"}
    /\ todo[1] # "_bt_close_server" => Gone(Flags)

(* A profile is started when the close of the other is behind it.          *)
MakesWay ==
  bluetoothd =>
    /\ "start_source" \in Left /\ "sink_close" \notin Left => ~bt_control["sink"]
    /\ Left \cap NoSource # {} /\ "source_close" \notin Left => ~bt_control["source"]

(* Or bluetoothd has died since, and the flags with it.                    *)
Bereft == ~bluetoothd /\ Left \cap Starters # {} => Gone(Flags)

(* OpenIsServed within the calls too.                                      *)
Served ==
  \A p \in Audio : bt_control[p] /\ excuse[p] = "none" =>
    p \in bluealsa /\ (p = "sink" => aplay)

(* With the source set nothing besides counts.                             *)
SourceAlone ==
  bluetoothd /\ bt_control["source"] =>
    /\ bt_control["sink"] => excuse["sink"] # "none" /\ excuse["source"] # "none"
    /\ bt_control["hfp"] => excuse["hfp"] # "none"

(* The server runs, unless it is just being closed.                        *)
Idle == {"none", "start", "out", "ended"}
SppRuns ==
  spp.pc \notin Idle =>
    spp.running \/ (todo # <<>> /\ todo[1] \in {"spp_close_server", "spp_join"})

SppOver == spp.pc \in {"none", "out", "ended"} \/ missed

(* What rk_bt_deinit has no longer to do is done.                          *)
Deinitializing ==
  "kill_all" \in Left =>
    /\ ~bluetoothd => Gone(Flags)
    /\ Left \cap {"hfp_close", "hfp_closed"} = {} => Gone({"hfp"})
    /\ Left \cap {"hfp_close", "rfcomm_join"} = {} => ~listener["rfcomm"].tid
    /\ "sink_close" \notin Left => Gone({"sink"})
    /\ "source_close" \notin Left => Gone({"source"})
    /\ Left \cap {"spp_close", "spp_close_server", "spp_join"} = {} => SppOver
    /\ "ble_stop" \notin Left => Gone({"ble"})
    /\ "client_close" \notin Left => Gone({"client"})

IsOff == off => todo = <<>> /\ OffIsOff

(* What holds of the list of functions that a call begins with.            *)
Starts(s) ==
  /\ s \in Seq(Functions) /\ s # <<>> /\ OrderedList(s)
  /\ s[1] # "spp_close_server"
  /\ Members(s) \cap {"_bt_close_server", "_bt_open_server"} # {} =>
       /\ Members(s) \subseteq {"_bt_close_server", "_bt_open_server", "bt_open"}
       /\ s[1] = "_bt_close_server"
  /\ Members(s) \cap Starters # {} => bluetoothd
  /\ "start_source" \in Members(s) => "sink_close" \in Members(s) \/ ~IsOpen("sink")
  /\ Members(s) \cap NoSource # {} => "source_close" \in Members(s) \/ ~IsOpen("source")
  /\ "kill_all" \in Members(s) =>
       /\ bluetoothd
       /\ {"hfp_close", "sink_close", "source_close", "spp_close", "ble_stop",
           "client_close"} \subseteq Members(s)

-----------------------------------------------------------------------------
(* What calls begin with.                                                  *)

Apart == {"_bt_close_server", "_bt_open_server", "spp_close_server", "kill_all"}

LEMMA OneStarts ==
  ASSUME NEW a \in Functions,
         a \notin Apart,
         a \in Starters => bluetoothd,
         a = "start_source" => ~IsOpen("sink"),
         a \in NoSource => ~IsOpen("source")
  PROVE  Starts(<<a>>)
<1>1. Len(<<a>>) = 1 /\ <<a>>[1] = a /\ Members(<<a>>) = {a}
  BY One
<1>2. <<a>> \in Seq(Functions) /\ <<a>> # <<>>
  OBVIOUS
<1> DEFINE s == <<a>>
<1> HIDE DEF s
<1>3. \A i \in 1..1 : i = 1
  OBVIOUS
<1>4. OrderedList(s)
  BY <1>1, <1>3 DEF OrderedList, Apart, s
<1> QED
  BY <1>1, <1>2, <1>4 DEF Starts, Apart, s

LEMMA TwoStarts ==
  ASSUME NEW a \in Functions, NEW b \in Functions,
         a \notin Apart, b \notin Apart,
         a \notin Finals,
         b \in Starters => bluetoothd,
         b = "start_source" => a = "sink_close",
         b \in NoSource => a = "source_close"
  PROVE  Starts(<<a, b>>)
<1>1. Len(<<a, b>>) = 2 /\ <<a, b>>[1] = a /\ <<a, b>>[2] = b /\ Members(<<a, b>>) = {a, b}
  BY Two
<1>2. <<a, b>> \in Seq(Functions) /\ <<a, b>> # <<>>
  OBVIOUS
<1> DEFINE s == <<a, b>>
<1> HIDE DEF s
<1>3. \A i \in 1..2 : i = 1 \/ i = 2
  OBVIOUS
<1>4. OrderedList(s)
  BY <1>1, <1>3 DEF OrderedList, Firsts, Apart, s
<1>5. a # "start_source" /\ a \notin NoSource /\ a \notin Starters
  BY DEF Finals, Starters
<1>6. /\ Members(s) \cap {"_bt_close_server", "_bt_open_server"} = {}
      /\ "kill_all" \notin Members(s) /\ s[1] # "spp_close_server"
  BY <1>1 DEF Apart, s
<1>7. "start_source" \in Members(s) => "sink_close" \in Members(s)
  BY <1>1, <1>5 DEF s
<1>8. Members(s) \cap NoSource # {} => "source_close" \in Members(s)
  BY <1>1, <1>5 DEF s
<1>9. Members(s) \cap Starters # {} => bluetoothd
  BY <1>1, <1>5 DEF s
<1> QED
  BY <1>2, <1>4, <1>6, <1>7, <1>8, <1>9 DEF Starts, s

(* A call that opens a profile closes another first if that is open.       *)
LEMMA OpenStarts ==
  ASSUME NEW f, NEW a \in Functions, NEW b \in Functions,
         a \notin Apart, b \notin Apart,
         a \notin Finals,
         b \in Starters => bluetoothd,
         b = "start_source" => a = "sink_close" /\ f = "sink",
         b \in NoSource => a = "source_close" /\ f = "source"
  PROVE  Starts(CloseIf(f, a) \o <<b>>)
<1>1. CASE IsOpen(f)
  <2>1. CloseIf(f, a) \o <<b>> = <<a, b>>
    <3>1. <<a>> \o <<b>> = <<a, b>>
      <4> DEFINE s == <<a>> \o <<b>>
                 t == <<a, b>>
      <4>1. s \in Seq(Functions) /\ t \in Seq(Functions) /\ Len(s) = 2 /\ Len(t) = 2
        OBVIOUS
      <4>2. s[1] = a /\ s[2] = b /\ t[1] = a /\ t[2] = b
        OBVIOUS
      <4>3. \A i \in 1..2 : i = 1 \/ i = 2
        OBVIOUS
      <4> HIDE DEF s, t
      <4>4. s = t
        BY <4>1, <4>2, <4>3, SeqEqual
      <4> QED
        BY <4>4 DEF s, t
    <3> QED
      BY <1>1, <3>1 DEF CloseIf
  <2> QED
    BY <2>1, TwoStarts
<1>2. CASE ~IsOpen(f)
  <2>1. CloseIf(f, a) \o <<b>> = <<b>>
    BY <1>2 DEF CloseIf
  <2>2. b = "start_source" => ~IsOpen("sink")
    BY <1>2
  <2>3. b \in NoSource => ~IsOpen("source")
    BY <1>2
  <2> QED
    BY <2>1, <2>2, <2>3, OneStarts
<1> QED
  BY <1>1, <1>2

LEMMA InitStarts == Starts(<<"_bt_close_server", "_bt_open_server", "bt_open">>)
<1> DEFINE s == <<"_bt_close_server", "_bt_open_server", "bt_open">>
<1>1. /\ s \in Seq(Functions) /\ s # <<>> /\ Len(s) = 3
      /\ s[1] = "_bt_close_server" /\ s[2] = "_bt_open_server" /\ s[3] = "bt_open"
  BY DEF Functions
<1>2. \A i \in 1..3 : i = 1 \/ i = 2 \/ i = 3
  OBVIOUS
<1> HIDE DEF s
<1>3. \A x \in Members(s) : x = "_bt_close_server" \/ x = "_bt_open_server" \/ x = "bt_open"
  BY <1>1, <1>2 DEF Members
<1>4. OrderedList(s)
  BY <1>1, <1>2 DEF OrderedList, Finals, Firsts, NoSource, Starters
<1>5. /\ "start_source" \notin Members(s) /\ Members(s) \cap NoSource = {}
      /\ Members(s) \cap Starters = {}
      /\ "kill_all" \notin Members(s)
  BY <1>3 DEF NoSource, Starters
<1> QED
  BY <1>1, <1>3, <1>4, <1>5 DEF Starts, s

LEMMA DeinitStarts ==
  ASSUME bluetoothd
  PROVE  Starts(<<"hfp_close", "sink_close", "source_close", "spp_close", "ble_stop",
                  "client_close", "kill_all">>)
<1> DEFINE s == <<"hfp_close", "sink_close", "source_close", "spp_close", "ble_stop",
                  "client_close", "kill_all">>
<1>1. /\ s \in Seq(Functions) /\ s # <<>> /\ Len(s) = 7
      /\ s[1] = "hfp_close" /\ s[2] = "sink_close" /\ s[3] = "source_close"
      /\ s[4] = "spp_close" /\ s[5] = "ble_stop" /\ s[6] = "client_close"
      /\ s[7] = "kill_all"
  BY DEF Functions
<1>2. /\ \A i \in 1..7 : i = 1 \/ i = 2 \/ i = 3 \/ i = 4 \/ i = 5 \/ i = 6 \/ i = 7
      /\ {1, 2, 3, 4, 5, 6, 7} \subseteq 1..7
  OBVIOUS
<1> HIDE DEF s
<1>3. /\ \A x \in Members(s) :
           x \in {"hfp_close", "sink_close", "source_close", "spp_close", "ble_stop",
                  "client_close", "kill_all"}
      /\ {"hfp_close", "sink_close", "source_close", "spp_close", "ble_stop",
          "client_close"} \subseteq Members(s)
  BY <1>1, <1>2 DEF Members
<1>4. OrderedList(s)
  BY <1>1, <1>2 DEF OrderedList, Finals, Firsts, NoSource, Starters
<1>5. /\ "start_source" \notin Members(s) /\ Members(s) \cap NoSource = {}
      /\ Members(s) \cap Starters = {}
      /\ Members(s) \cap {"_bt_close_server", "_bt_open_server"} = {}
  BY <1>3 DEF NoSource, Starters
<1> QED
  BY <1>1, <1>3, <1>4, <1>5 DEF Starts, s

(* A call that is begun, or one that is over at once.                      *)
LEMMA CallBegins ==
  ASSUME TypeOK, Call
  PROVE  /\ todo = <<>> /\ calls' \in 0..MaxCalls /\ off' = FALSE /\ UNCHANGED state
         /\ \/ Starts(todo') /\ UNCHANGED <<sppVars, listener>>
            \/ bt_spp_server_open /\ UNCHANGED <<todo, listener>>
            \/ listener' = Listening(listener, "underrun") /\ UNCHANGED <<todo, sppVars>>
<1>1. ASSUME NEW guard, NEW s, Begin(guard, s), guard => Starts(s)
      PROVE  /\ todo = <<>> /\ calls' \in 0..MaxCalls /\ off' = FALSE /\ UNCHANGED state
             /\ Starts(todo') /\ UNCHANGED <<sppVars, listener>>
  <2>1. calls' \in 0..MaxCalls
    BY <1>1, MaxCallsAssumption DEF Begin, TypeOK
  <2>2. guard /\ todo' = s
    BY <1>1 DEF Begin
  <2>3. Starts(s)
    BY <1>1, <2>2
  <2> QED
    BY <1>1, <2>1, <2>2, <2>3 DEF Begin
<1> USE DEF Functions, Finals, NoSource, Starters, Apart
<1>2. CASE rk_bt_init
  BY <1>1, <1>2, InitStarts DEF rk_bt_init
<1>3. CASE rk_bt_deinit
  BY <1>1, <1>3, DeinitStarts DEF rk_bt_deinit, IsOpen
<1>4. CASE rk_bt_source_open
  BY <1>1, <1>4, OpenStarts DEF rk_bt_source_open, IsOpen
<1>5. CASE rk_bt_sink_open
  BY <1>1, <1>5, OpenStarts DEF rk_bt_sink_open, IsOpen
<1>6. CASE BT_SINK_OPEN
  BY <1>1, <1>6, OpenStarts DEF BT_SINK_OPEN, IsOpen
<1>7. CASE rk_bt_hfp_open
  BY <1>1, <1>7, OpenStarts DEF rk_bt_hfp_open, IsOpen
<1>8. CASE rk_bt_hfp_sink_open
  BY <1>1, <1>8, OpenStarts DEF rk_bt_hfp_sink_open, IsOpen
<1>9. CASE rk_ble_start
  BY <1>1, <1>9, OpenStarts DEF rk_ble_start
<1>10. CASE rk_ble_client_open
  BY <1>1, <1>10, OpenStarts DEF rk_ble_client_open
<1>11. CASE rk_bt_source_close
  BY <1>1, <1>11, OneStarts DEF rk_bt_source_close
<1>12. CASE rk_bt_sink_close
  BY <1>1, <1>12, OneStarts DEF rk_bt_sink_close
<1>13. CASE rk_bt_hfp_close
  BY <1>1, <1>13, OneStarts DEF rk_bt_hfp_close
<1>14. CASE rk_ble_stop
  BY <1>1, <1>14, OneStarts DEF rk_ble_stop
<1>15. CASE rk_ble_client_close
  BY <1>1, <1>15, OneStarts DEF rk_ble_client_close
<1>16. CASE rk_bt_spp_close
  BY <1>1, <1>16, OneStarts DEF rk_bt_spp_close
<1>17. CASE rk_bt_spp_open \/ rk_bt_sink_register_underurn_callback
  BY <1>17, MaxCallsAssumption
     DEF rk_bt_spp_open, rk_bt_sink_register_underurn_callback, TypeOK, bt_spp_server_open,
         sppVars
<1> QED
  BY <1>2, <1>3, <1>4, <1>5, <1>6, <1>7, <1>8, <1>9, <1>10, <1>11, <1>12, <1>13,
     <1>14, <1>15, <1>16, <1>17 DEF Call

-----------------------------------------------------------------------------
(* What a step of a call leaves of it.                                     *)

(* The call fails, or its first function is done, or replaced by others.   *)
StepLeaves ==
  \/ todo' = <<>>
  \/ todo' = Tail(todo)
  \/ todo[1] = "sink_close" /\ todo' = <<"underrun_join">> \o Tail(todo)
  \/ todo[1] = "hfp_close" /\ todo' = <<"rfcomm_join", "hfp_closed">> \o Tail(todo)
  \/ todo[1] = "spp_close" /\ todo' = <<"spp_close_server", "spp_join">> \o Tail(todo)

LEMMA StepsLeave ==
  ASSUME TypeOK, Step
  PROVE  StepLeaves /\ todo # <<>> /\ UNCHANGED calls
<1>1. todo # <<>> => Head(todo) = todo[1]
  BY DEF TypeOK
<1> USE <1>1 DEF Does, Done, Goes, Fails, StepLeaves
<1>2. CASE start_source \/ start_sink \/ control_sink \/ start_hfp \/ start_hfp_sink
  BY <1>2 DEF start_source, start_sink, control_sink, start_hfp, start_hfp_sink
<1>3. CASE bt_hal_sink_close \/ bt_hal_source_close \/ bt_hal_hfp_close \/ HfpClosed
  BY <1>3 DEF bt_hal_sink_close, bt_hal_source_close, bt_hal_hfp_close, HfpClosed
<1>4. CASE \E l \in Listeners : ListenerJoined(l)
  BY <1>4 DEF ListenerJoined
<1>5. CASE spp_close \/ spp_close_server \/ spp_join
  BY <1>5 DEF spp_close, spp_close_server, spp_join
<1>6. CASE ble
  BY <1>6 DEF ble, Change
<1>7. CASE _bt_close_server \/ _bt_open_server \/ bt_open \/ kill_all
  BY <1>7 DEF _bt_close_server, _bt_open_server, bt_open, kill_all
<1> QED
  BY <1>2, <1>3, <1>4, <1>5, <1>6, <1>7 DEF Step

(* To leave out the first function of an ordered list, or to put others in *)
(* its place, leaves an ordered list.                                      *)
LEMMA TailOrdered ==
  ASSUME NEW s \in Seq(Functions), s # <<>>, OrderedList(s)
  PROVE  OrderedList(Tail(s)) /\ \A i \in 1..Len(Tail(s)) : Tail(s)[i] \notin Firsts
<1> DEFINE t == Tail(s)
<1>1. /\ Len(s) \in Nat /\ Len(t) = Len(s) - 1
      /\ \A i \in 1..(Len(s) - 1) : t[i] = s[i + 1]
  BY Tailed
<1> HIDE DEF t
<1>2. ASSUME NEW i \in 1..Len(t)
      PROVE  /\ i < Len(t) => t[i] \notin Finals
             /\ t[i] \notin Firsts
             /\ t[i] = "spp_close_server" => i < Len(t) /\ t[i + 1] = "spp_join"
  <2>1. i + 1 \in 1..Len(s) /\ i + 1 > 1 /\ t[i] = s[i + 1] /\ (i < Len(t) => i + 1 < Len(s))
    BY <1>1
  <2>2. t[i] \notin Firsts
    BY <2>1 DEF OrderedList
  <2>3. t[i] # "spp_close_server"
    BY <2>2 DEF Firsts
  <2> QED
    BY <2>1, <2>2, <2>3 DEF OrderedList
<1> QED
  BY <1>2 DEF OrderedList, t

LEMMA GoesOrdered ==
  ASSUME NEW s \in Seq(Functions), s # <<>>, OrderedList(s), NEW f \in Seq(Functions),
         \A i \in 1..Len(f) :
           /\ f[i] \notin Finals
           /\ i > 1 => f[i] \notin Firsts
           /\ f[i] = "spp_close_server" => i < Len(f) /\ f[i + 1] = "spp_join"
  PROVE  OrderedList(f \o Tail(s))
<1> DEFINE t == Tail(s)
           c == f \o t
<1>1. t \in Seq(Functions)
  BY Tailed
<1>2. \A i \in 1..Len(t) : /\ t[i] \notin Firsts
                           /\ i < Len(t) => t[i] \notin Finals
  BY TailOrdered DEF OrderedList
<1> HIDE DEF t
<1>3. /\ Len(c) = Len(f) + Len(t) /\ Len(f) \in Nat /\ Len(t) \in Nat
      /\ \A i \in 1..Len(f) : c[i] = f[i]
      /\ \A i \in 1..Len(t) : c[Len(f) + i] = t[i]
  BY <1>1, Joining
<1> HIDE DEF c
<1>4. ASSUME NEW i \in 1..Len(c)
      PROVE  /\ i < Len(c) => c[i] \notin Finals
             /\ i > 1 => c[i] \notin Firsts
             /\ c[i] = "spp_close_server" => i < Len(c) /\ c[i + 1] = "spp_join"
  <2>1. CASE i \in 1..Len(f)
    <3>1. c[i] = f[i] /\ (i < Len(f) => i + 1 \in 1..Len(f) /\ c[i + 1] = f[i + 1] /\ i < Len(c))
      BY <1>3, <2>1
    <3> QED
      BY <2>1, <3>1
  <2>2. CASE i \notin 1..Len(f)
    <3>1. i - Len(f) \in 1..Len(t) /\ Len(f) + (i - Len(f)) = i
      BY <1>3, <2>2
    <3>2. c[i] = t[i - Len(f)] /\ (i < Len(c) => i - Len(f) < Len(t))
      BY <1>3, <3>1
    <3>3. c[i] # "spp_close_server"
      BY <1>2, <3>1, <3>2 DEF Firsts
    <3> QED
      BY <1>2, <3>1, <3>2, <3>3
  <2> QED
    BY <2>1, <2>2
<1> QED
  BY <1>4 DEF OrderedList, c, t

(* What a step means for the functions that are left.                      *)
LEMMA LeavesList ==
  ASSUME TypeOK, todo # <<>>, StepLeaves, Ordered
  PROVE  /\ todo' \in Seq(Functions)
         /\ Ordered'
         /\ Left' \subseteq
              Left \cup {"underrun_join", "rfcomm_join", "hfp_closed", "spp_close_server", "spp_join"}
         /\ todo[1] \notin {"sink_close", "hfp_close", "spp_close"} => Left' \subseteq Left
         /\ todo' = <<>> \/ Left \subseteq Left' \cup {todo[1]}
<1> DEFINE t == Tail(todo)
           Goal(s) == /\ s \in Seq(Functions)
                      /\ OrderedList(s)
                      /\ Members(s) \subseteq
                           Left \cup {"underrun_join", "rfcomm_join", "hfp_closed",
                                      "spp_close_server", "spp_join"}
                      /\ s = <<>> \/ Left \subseteq Members(s) \cup {todo[1]}
<1>1. /\ t \in Seq(Functions) /\ Members(t) \subseteq Left
      /\ Left \subseteq Members(t) \cup {todo[1]}
  BY Tailed DEF TypeOK, Left
<1>2. todo \in Seq(Functions) /\ OrderedList(todo)
  BY DEF TypeOK, Ordered
<1>3. OrderedList(t)
  BY <1>2, TailOrdered
<1>4. ASSUME NEW f \in Seq(Functions),
             \A i \in 1..Len(f) :
               /\ f[i] \notin Finals
               /\ i > 1 => f[i] \notin Firsts
               /\ f[i] = "spp_close_server" => i < Len(f) /\ f[i + 1] = "spp_join",
             Members(f) \subseteq {"underrun_join", "rfcomm_join", "hfp_closed",
                                   "spp_close_server", "spp_join"}
      PROVE  Goal(f \o t)
  <2>1. f \o t \in Seq(Functions) /\ Members(f \o t) = Members(f) \cup Members(t)
    BY <1>1, Joining
  <2>2. OrderedList(f \o t)
    BY <1>2, <1>4, GoesOrdered
  <2> HIDE DEF t
  <2> QED
    BY <1>1, <1>4, <2>1, <2>2
<1>5. Goal(<<"underrun_join">> \o t)
  <2> DEFINE f == <<"underrun_join">>
  <2>1. f \in Seq(Functions)
    BY DEF Functions
  <2>2. Len(f) = 1 /\ f[1] = "underrun_join" /\ Members(f) = {"underrun_join"}
    BY One
  <2>3. \A i \in 1..1 : i = 1
    OBVIOUS
  <2> HIDE DEF f, Goal, t
  <2>4. Goal(f \o t)
    BY <1>4, <2>1, <2>2, <2>3 DEF Finals, Starters, NoSource
  <2> QED
    BY <2>4 DEF f
<1>6. Goal(<<"rfcomm_join", "hfp_closed">> \o t)
  <2> DEFINE f == <<"rfcomm_join", "hfp_closed">>
  <2>1. f \in Seq(Functions)
    BY DEF Functions
  <2>2. Len(f) = 2 /\ f[1] = "rfcomm_join" /\ f[2] = "hfp_closed"
        /\ Members(f) = {"rfcomm_join", "hfp_closed"}
    BY Two
  <2>3. \A i \in 1..2 : i = 1 \/ i = 2
    OBVIOUS
  <2> HIDE DEF f, Goal, t
  <2>4. Goal(f \o t)
    BY <1>4, <2>1, <2>2, <2>3 DEF Finals, Starters, NoSource, Firsts
  <2> QED
    BY <2>4 DEF f
<1>7. Goal(<<"spp_close_server", "spp_join">> \o t)
  <2> DEFINE f == <<"spp_close_server", "spp_join">>
  <2>1. f \in Seq(Functions)
    BY DEF Functions
  <2>2. Len(f) = 2 /\ f[1] = "spp_close_server" /\ f[2] = "spp_join"
        /\ Members(f) = {"spp_close_server", "spp_join"}
    BY Two
  <2>3. \A i \in 1..2 : i = 1 \/ i = 2
    OBVIOUS
  <2> HIDE DEF f, Goal, t
  <2>4. Goal(f \o t)
    BY <1>4, <2>1, <2>2, <2>3 DEF Finals, Starters, NoSource, Firsts
  <2> QED
    BY <2>4 DEF f
<1>8. Goal(t)
  <2> HIDE DEF t
  <2> QED
    BY <1>1, <1>3
<1>9. Goal(<<>>)
  <2>1. <<>> \in Seq(Functions) /\ Len(<<>>) = 0 /\ \A i \in 1..0 : FALSE
    OBVIOUS
  <2>2. Members(<<>>) = {} /\ OrderedList(<<>>)
    BY <2>1 DEF Members, OrderedList
  <2> HIDE DEF t
  <2> QED
    BY <2>1, <2>2
<1> HIDE DEF Goal
<1>10. Goal(todo')
  BY <1>5, <1>6, <1>7, <1>8, <1>9 DEF StepLeaves
<1>11. todo[1] \notin {"sink_close", "hfp_close", "spp_close"} => todo' = <<>> \/ todo' = t
  BY DEF StepLeaves
<1>12. Members(<<>>) = {}
  <2>1. Len(<<>>) = 0 /\ 1..0 = {}
    OBVIOUS
  <2> QED
    BY <2>1 DEF Members
<1>13. Left' = Members(todo')
  BY DEF Left, Members
<1> HIDE DEF t
<1>14. todo[1] \notin {"sink_close", "hfp_close", "spp_close"} => Left' \subseteq Left
  BY <1>1, <1>11, <1>12, <1>13
<1>15. Ordered' <=> OrderedList(todo')
  BY DEF Ordered, OrderedList, Finals, Firsts, NoSource
<1> QED
  BY <1>10, <1>13, <1>14, <1>15 DEF Goal

(* After one of the last functions nothing is left.                        *)
LEMMA FinalEnds ==
  ASSUME TypeOK, todo # <<>>, Ordered, todo[1] \in Finals
  PROVE  Left = {todo[1]} /\ Tail(todo) = <<>> /\ (StepLeaves => todo' = <<>>)
<1>1. todo \in Seq(Functions) /\ Len(todo) \in Nat /\ 1 \in 1..Len(todo)
  BY Tailed DEF TypeOK
<1>2. Len(todo) = 1
  <2>1. 1 < Len(todo) => todo[1] \notin Finals
    BY <1>1 DEF Ordered, OrderedList
  <2>2. ~(1 < Len(todo))
    BY <2>1, Zenon
  <2> DEFINE n == Len(todo)
  <2>3. n \in Nat /\ 1 \in 1..n /\ ~(1 < n)
    BY <1>1, <2>2
  <2> HIDE DEF n
  <2>4. n = 1
    BY <2>3
  <2> QED
    BY <2>4 DEF n
<1>3. Tail(todo) \in Seq(Functions) /\ Len(Tail(todo)) = 0
  BY <1>1, <1>2
<1>a. \A s \in Seq(Functions) : Len(s) = 0 => s = <<>>
  OBVIOUS
<1>4. Tail(todo) = <<>>
  BY <1>3, <1>a
<1>5. Left = {todo[1]}
  <2>1. \A i \in 1..1 : i = 1
    OBVIOUS
  <2> QED
    BY <1>2, <2>1 DEF Left, Members
<1>6. todo[1] \notin {"sink_close", "hfp_close", "spp_close"}
  BY DEF Finals, Starters, NoSource
<1> QED
  BY <1>4, <1>5, <1>6 DEF StepLeaves

(* After the second part of bt_spp_server_close comes its third.           *)
LEMMA ServerThenJoin ==
  ASSUME TypeOK, todo # <<>>, Ordered, todo[1] = "spp_close_server", todo' = Tail(todo)
  PROVE  todo' # <<>> /\ todo'[1] = "spp_join"
<1> DEFINE t == Tail(todo)
<1>1. /\ todo \in Seq(Functions) /\ 1 \in 1..Len(todo) /\ Len(todo) \in Nat
      /\ Len(t) = Len(todo) - 1 /\ \A i \in 1..(Len(todo) - 1) : t[i] = todo[i + 1]
  BY Tailed DEF TypeOK
<1>2. 1 < Len(todo) /\ todo[2] = "spp_join"
  BY <1>1 DEF Ordered, OrderedList
<1>3. Len(t) # 0 /\ t[1] = "spp_join"
  BY <1>1, <1>2
<1>4. Len(<<>>) = 0
  OBVIOUS
<1> HIDE DEF t
<1>5. t # <<>>
  BY <1>3, <1>4
<1> QED
  BY <1>3, <1>5 DEF t

(* The functions that take the place of another are left.                  *)
LEMMA ReplacedBy ==
  ASSUME TypeOK, todo # <<>>, NEW f \in Seq(Functions), f # <<>>,
         todo' = f \o Tail(todo)
  PROVE  Members(f) \subseteq Left' /\ todo' # <<>> /\ todo'[1] = f[1]
<1> DEFINE t == Tail(todo)
<1>1. t \in Seq(Functions)
  BY Tailed DEF TypeOK
<1>2. 1 \in 1..Len(f)
  OBVIOUS
<1> HIDE DEF t
<1>3. /\ Members(f \o t) = Members(f) \cup Members(t)
      /\ Len(f \o t) = Len(f) + Len(t) /\ Len(t) \in Nat /\ Len(f) \in Nat
      /\ (f \o t)[1] = f[1]
  BY <1>1, <1>2, Joining
<1>4. Left' = Members(todo')
  BY DEF Left, Members
<1>5. todo' = f \o t
  BY DEF t
<1>6. Len(todo') # 0
  BY <1>2, <1>3, <1>5
<1>7. todo' # <<>>
  BY <1>6
<1> QED
  BY <1>3, <1>4, <1>5, <1>7

-----------------------------------------------------------------------------
(* Types.                                                                  *)

LEMMA SppThreadType ==
  ASSUME SppTypeOK, spp_server_thread \/ PeerConnects \/ PeerLeaves \/ bt_spp_server_open
                    \/ CloseReturns \/ CloseClient \/ CloseServer \/ Joined
  PROVE  SppTypeOK'
<1> USE DEF SppTypeOK
<1>1. CASE Start
  BY <1>1 DEF Start
<1>2. CASE Loop
  BY <1>2 DEF Loop
<1>3. CASE Select
  BY <1>3 DEF Select
<1>4. CASE Accept
  BY <1>4 DEF Accept
<1>5. CASE Announce
  BY <1>5 DEF Announce
<1>6. CASE Read
  BY <1>6 DEF Read
<1>7. CASE Out
  BY <1>7 DEF Out, ServerShut, ClientShut
<1>8. CASE PeerConnects \/ PeerLeaves
  BY <1>8 DEF PeerConnects, PeerLeaves
<1>9. CASE bt_spp_server_open
  BY <1>9 DEF bt_spp_server_open
<1>10. CASE CloseReturns
  BY <1>10 DEF CloseReturns
<1>11. CASE CloseClient
  BY <1>11 DEF CloseClient, ClientShut
<1>12. CASE CloseServer
  BY <1>12 DEF CloseServer, ServerShut
<1>13. CASE Joined
  BY <1>13 DEF Joined
<1> QED
  BY <1>1, <1>2, <1>3, <1>4, <1>5, <1>6, <1>7, <1>8, <1>9, <1>10, <1>11, <1>12, <1>13
     DEF spp_server_thread

ListenerTypes ==
  [tid : BOOLEAN, sockfd : BOOLEAN, shut : BOOLEAN,
   pc : {"none", "socket", "bind", "recv", "ended"}]

(* One listener gets another record, in which tid goes with the place.     *)
LEMMA ListenerUpdated ==
  ASSUME ListenerTypeOK, NEW l \in Listeners, NEW r \in ListenerTypes,
         r.tid <=> r.pc # "none", listener' = [listener EXCEPT ![l] = r]
  PROVE  ListenerTypeOK' /\ \A k \in Listeners : k # l => listener'[k] = listener[k]
<1>1. listener' \in [Listeners -> ListenerTypes]
  BY DEF ListenerTypeOK, ListenerTypes
<1>2. \A k \in Listeners : listener'[k] = IF k = l THEN r ELSE listener[k]
  BY DEF ListenerTypeOK
<1>3. \A k \in Listeners : listener'[k].tid <=> listener'[k].pc # "none"
  BY <1>2 DEF ListenerTypeOK
<1> QED
  BY <1>1, <1>2, <1>3 DEF ListenerTypeOK, ListenerTypes

LEMMA ListenerType ==
  ASSUME ListenerTypeOK, NEW l \in Listeners,
         \/ Listen(l) \/ Join(l)
         \/ listener' = Listening(listener, l) \/ listener' = Stopped(listener, l)
         \/ /\ listener[l].pc = "recv"
            /\ listener' = [listener EXCEPT ![l].pc = "ended"]
  PROVE  ListenerTypeOK' /\ \A k \in Listeners : k # l => listener'[k] = listener[k]
<1> DEFINE L == listener[l]
<1>1. L \in ListenerTypes /\ (L.tid <=> L.pc # "none")
  BY DEF ListenerTypeOK, ListenerTypes
<1>2. ASSUME NEW r \in ListenerTypes, r.tid <=> r.pc # "none",
             listener' = [listener EXCEPT ![l] = r]
      PROVE  ListenerTypeOK' /\ \A k \in Listeners : k # l => listener'[k] = listener[k]
  BY <1>2, ListenerUpdated
<1>3. CASE Socket(l)
  <2>1. CASE listener' = [listener EXCEPT ![l].sockfd = TRUE, ![l].shut = FALSE, ![l].pc = "bind"]
    <3> DEFINE r == [L EXCEPT !.sockfd = TRUE, !.shut = FALSE, !.pc = "bind"]
    <3>1. listener' = [listener EXCEPT ![l] = r]
      BY <2>1 DEF ListenerTypeOK
    <3>2. r \in ListenerTypes /\ (r.tid <=> r.pc # "none")
      BY <1>1, <1>3 DEF Socket, ListenerTypes
    <3> QED
      BY <1>2, <3>1, <3>2
  <2>2. CASE listener' = [listener EXCEPT ![l].pc = "ended"]
    <3> DEFINE r == [L EXCEPT !.pc = "ended"]
    <3>1. listener' = [listener EXCEPT ![l] = r]
      BY <2>2 DEF ListenerTypeOK
    <3>2. r \in ListenerTypes /\ (r.tid <=> r.pc # "none")
      BY <1>1, <1>3 DEF Socket, ListenerTypes
    <3> QED
      BY <1>2, <3>1, <3>2
  <2> QED
    BY <1>3, <2>1, <2>2 DEF Socket
<1>4. ASSUME L.pc # "none",
             \E pc \in {"recv", "ended"} : listener' = [listener EXCEPT ![l].pc = pc]
      PROVE  ListenerTypeOK' /\ \A k \in Listeners : k # l => listener'[k] = listener[k]
  <2>1. PICK pc \in {"recv", "ended"} : listener' = [listener EXCEPT ![l].pc = pc]
    BY <1>4
  <2> DEFINE r == [L EXCEPT !.pc = pc]
  <2>2. listener' = [listener EXCEPT ![l] = r]
    BY <2>1 DEF ListenerTypeOK
  <2>3. r \in ListenerTypes /\ (r.tid <=> r.pc # "none")
    BY <1>1, <1>4 DEF ListenerTypes
  <2> QED
    BY <1>2, <2>2, <2>3
<1>5. CASE Bind(l)
  BY <1>4, <1>5 DEF Bind
<1>6. CASE Shut(l)
  BY <1>4, <1>6 DEF Shut
<1>7. CASE L.pc = "recv" /\ listener' = [listener EXCEPT ![l].pc = "ended"]
  BY <1>4, <1>7
<1>8. CASE Join(l)
  <2> DEFINE r == [L EXCEPT !.tid = FALSE, !.pc = "none"]
  <2>1. listener' = [listener EXCEPT ![l] = r]
    BY <1>8 DEF Join, ListenerTypeOK
  <2>2. r \in ListenerTypes /\ (r.tid <=> r.pc # "none")
    BY <1>1 DEF ListenerTypes
  <2> QED
    BY <1>2, <2>1, <2>2
<1>9. CASE listener' = Listening(listener, l)
  <2>1. CASE L.tid
    BY <1>9, <2>1 DEF Listening, ListenerTypeOK
  <2>2. CASE ~L.tid
    <3> DEFINE r == [L EXCEPT !.tid = TRUE, !.pc = "socket"]
    <3>1. listener' = [listener EXCEPT ![l] = r]
      BY <1>9, <2>2 DEF Listening, ListenerTypeOK
    <3>2. r \in ListenerTypes /\ (r.tid <=> r.pc # "none")
      BY <1>1 DEF ListenerTypes
    <3> QED
      BY <1>2, <3>1, <3>2
  <2> QED
    BY <2>1, <2>2
<1>10. CASE listener' = Stopped(listener, l)
  <2> DEFINE r == [L EXCEPT !.shut = (L.shut \/ L.sockfd), !.sockfd = FALSE]
  <2>1. listener' = [listener EXCEPT ![l] = r]
    BY <1>10 DEF Stopped, ListenerTypeOK
  <2>2. r \in ListenerTypes /\ (r.tid <=> r.pc # "none")
    BY <1>1 DEF ListenerTypes
  <2> QED
    BY <1>2, <2>1, <2>2
<1> QED
  BY <1>3, <1>5, <1>6, <1>7, <1>8, <1>9, <1>10 DEF Listen

(* The reasons that the code gives for an excuse.                          *)
Whys == {Unexcused, Taken, Unopened, Displaced("hfp"), Displaced("sink")}

LEMMA WhyTypes ==
  /\ \A why \in Whys : why \in [Flags -> Excuses]
  /\ \A f \in Flags :
       /\ Unexcused[f] = "none"
       /\ Taken[f] = "none" <=> f # "source"
       /\ Unopened[f] = "none" <=> f \notin {"hfp", "sink"}
       /\ Displaced("hfp")[f] = "none" <=> f # "hfp"
       /\ Displaced("sink")[f] = "none" <=> f # "sink"
<1>1. {"none", "taken", "displaced", "unopened"} \subseteq Excuses
  BY DEF Excuses
<1>2. /\ Unexcused \in [Flags -> Excuses] /\ Taken \in [Flags -> Excuses]
      /\ \A f \in Flags : Unexcused[f] = "none" /\ (Taken[f] = "none" <=> f # "source")
  BY <1>1 DEF Unexcused, Taken, Excuse
<1>3. /\ Displaced("hfp") \in [Flags -> Excuses]
      /\ \A f \in Flags : Displaced("hfp")[f] = "none" <=> f # "hfp"
  BY <1>1 DEF Displaced, Excuse
<1>4. /\ Displaced("sink") \in [Flags -> Excuses]
      /\ \A f \in Flags : Displaced("sink")[f] = "none" <=> f # "sink"
  BY <1>1 DEF Displaced, Excuse
<1>5. /\ Unopened \in [Flags -> Excuses]
      /\ \A f \in Flags :
           Unopened[f] = IF f = "sink" THEN "unopened" ELSE Displaced("hfp")[f]
  BY <1>1, <1>3 DEF Unopened
<1>6. \A f \in Flags : Unopened[f] = "none" <=> f \notin {"hfp", "sink"}
  BY <1>3, <1>5
<1>7. \A why \in Whys : why \in [Flags -> Excuses]
  BY <1>2, <1>3, <1>4, <1>5 DEF Whys
<1> QED
  BY <1>2, <1>3, <1>4, <1>6, <1>7

(* What SetFlags does to each flag.                                        *)
LEMMA FlagsSet ==
  ASSUME TypeOK, NEW set, NEW clear, NEW why \in Whys, SetFlags(set, clear, why)
  PROVE  /\ bt_control' \in [Flags -> BOOLEAN]
         /\ excuse' \in [Flags -> Excuses]
         /\ \A f \in Flags :
              /\ bt_control'[f] <=> (bt_control[f] \/ f \in set) /\ f \notin clear
              /\ excuse'[f] = IF ~bt_control'[f] THEN "none"
                              ELSE IF excuse[f] = "none" THEN why[f] ELSE excuse[f]
<1>1. bt_control' \in [Flags -> BOOLEAN]
  BY DEF SetFlags
<1>2. \A f \in Flags : bt_control'[f] <=> (bt_control[f] \/ f \in set) /\ f \notin clear
  BY DEF SetFlags
<1>3. \A f \in Flags : excuse[f] \in Excuses
  BY DEF TypeOK
<1>4. excuse' = [f \in Flags |->
                   IF ~bt_control'[f] THEN "none"
                   ELSE IF excuse[f] = "none" THEN why[f] ELSE excuse[f]]
  BY DEF SetFlags
<1>5. excuse' \in [Flags -> Excuses]
  <2>1. why \in [Flags -> Excuses] /\ "none" \in Excuses
    BY WhyTypes DEF Excuses
  <2> QED
    BY <1>3, <1>4, <2>1
<1> QED
  BY <1>1, <1>2, <1>4, <1>5

(* What a step of a call changes of the flags and the processes.           *)
FlagTypes ==
  /\ bt_control \in [Flags -> BOOLEAN]
  /\ {bluetoothd, aplay} \subseteq BOOLEAN
  /\ bluealsa \subseteq Audio
  /\ excuse \in [Flags -> Excuses]

LEMMA StepFlagTypes ==
  ASSUME TypeOK, Step
  PROVE  FlagTypes'
<1>a. FlagTypes
  BY DEF TypeOK, FlagTypes
<1>b. ASSUME NEW set, NEW clear, NEW why \in Whys, SetFlags(set, clear, why)
      PROVE  /\ bt_control' \in [Flags -> BOOLEAN]
             /\ excuse' \in [Flags -> Excuses]
  BY <1>b, FlagsSet
<1>c. Stale /\ UNCHANGED bt_control => /\ bt_control' \in [Flags -> BOOLEAN]
                                       /\ excuse' \in [Flags -> Excuses]
  BY <1>a DEF Stale, FlagTypes, Excuses
<1>d. ASSUME NEW profiles \in SUBSET Audio, NEW started \in BOOLEAN, NEW played \in BOOLEAN,
             Restart(profiles, started, played)
      PROVE  {bluetoothd', aplay'} \subseteq BOOLEAN /\ bluealsa' \subseteq Audio
  BY <1>a, <1>d DEF Restart, FlagTypes
<1>e. {"source"} \in SUBSET Audio /\ {"sink"} \in SUBSET Audio /\ {"hfp"} \in SUBSET Audio
      /\ {"hfp", "sink"} \in SUBSET Audio /\ {} \in SUBSET Audio
  BY DEF Audio
<1>1. CASE start_source
  <2>1. /\ bt_control' \in [Flags -> BOOLEAN]
        /\ excuse' \in [Flags -> Excuses]
    BY <1>1, <1>b DEF start_source, Whys
  <2>2. {bluetoothd', aplay'} \subseteq BOOLEAN /\ bluealsa' \subseteq Audio
    BY <1>1, <1>d, <1>e DEF start_source
  <2> QED
    BY <2>1, <2>2 DEF FlagTypes
<1>2. CASE start_sink
  <2>1. /\ bt_control' \in [Flags -> BOOLEAN]
        /\ excuse' \in [Flags -> Excuses]
    BY <1>2, <1>b DEF start_sink, Whys
  <2>2. {bluetoothd', aplay'} \subseteq BOOLEAN /\ bluealsa' \subseteq Audio
    BY <1>2, <1>d, <1>e DEF start_sink
  <2> QED
    BY <2>1, <2>2 DEF FlagTypes
<1>3. CASE control_sink
  <2>1. /\ bt_control' \in [Flags -> BOOLEAN]
        /\ excuse' \in [Flags -> Excuses]
    BY <1>3, <1>b DEF control_sink, Whys
  <2>2. {bluetoothd', aplay'} \subseteq BOOLEAN /\ bluealsa' \subseteq Audio
    BY <1>3, <1>d, <1>e DEF control_sink
  <2> QED
    BY <2>1, <2>2 DEF FlagTypes
<1>4. CASE start_hfp
  <2>1. /\ bt_control' \in [Flags -> BOOLEAN]
        /\ excuse' \in [Flags -> Excuses]
    BY <1>4, <1>b DEF start_hfp, Whys
  <2>2. {bluetoothd', aplay'} \subseteq BOOLEAN /\ bluealsa' \subseteq Audio
    BY <1>4, <1>d, <1>e DEF start_hfp
  <2> QED
    BY <2>1, <2>2 DEF FlagTypes
<1>5. CASE start_hfp_sink
  <2>1. /\ bt_control' \in [Flags -> BOOLEAN]
        /\ excuse' \in [Flags -> Excuses]
    BY <1>5, <1>b DEF start_hfp_sink, Whys
  <2>2. {bluetoothd', aplay'} \subseteq BOOLEAN /\ bluealsa' \subseteq Audio
    BY <1>5, <1>d, <1>e DEF start_hfp_sink
  <2> QED
    BY <2>1, <2>2 DEF FlagTypes
<1>6. CASE bt_hal_sink_close
  BY <1>6, <1>a, <1>b DEF bt_hal_sink_close, FlagTypes, state, processes, Whys
<1>7. CASE bt_hal_source_close
  BY <1>7, <1>a, <1>b DEF bt_hal_source_close, FlagTypes, state, processes, Whys
<1>8. CASE HfpClosed
  BY <1>8, <1>a, <1>b DEF HfpClosed, FlagTypes, state, processes, Whys
<1>9. CASE bt_hal_hfp_close \/ (\E l \in Listeners : ListenerJoined(l))
            \/ spp_close \/ spp_close_server \/ spp_join
  BY <1>9, <1>a DEF bt_hal_hfp_close, ListenerJoined, spp_close, spp_close_server, spp_join,
     FlagTypes, state, processes
<1>10. CASE ble
  BY <1>10, <1>a, <1>b DEF ble, Change, FlagTypes, processes, Whys
<1>11. CASE _bt_close_server
  BY <1>11, <1>a, <1>c DEF _bt_close_server, FlagTypes
<1>12. CASE _bt_open_server
  BY <1>12, <1>a DEF _bt_open_server, FlagTypes
<1>13. CASE bt_open
  BY <1>13, <1>a, <1>b DEF bt_open, FlagTypes, processes, Whys
<1>14. CASE kill_all
  BY <1>14, <1>a, <1>b DEF kill_all, FlagTypes, Whys
<1> QED
  BY <1>1, <1>2, <1>3, <1>4, <1>5, <1>6, <1>7, <1>8, <1>9, <1>10, <1>11, <1>12, <1>13, <1>14
     DEF Step

(* The threads besides: what a step of a call does to them.                *)
LEMMA StepThreads ==
  ASSUME TypeOK, Step
  PROVE  /\ SppTypeOK' /\ ListenerTypeOK'
         /\ \/ UNCHANGED listener
            \/ listener' = Listening(listener, "rfcomm") /\ (start_hfp \/ start_hfp_sink)
            \/ \E l \in Listeners : listener' = Stopped(listener, l)
            \/ \E l \in Listeners : Join(l) /\ todo[1] = Joins[l]
         /\ \/ UNCHANGED sppVars
            \/ todo[1] = "spp_close" /\ (CloseReturns \/ CloseClient)
            \/ todo[1] = "spp_close_server" /\ CloseServer
            \/ todo[1] = "spp_join" /\ Joined
<1>1. todo # <<>> => Head(todo) = todo[1]
  BY DEF TypeOK
<1>2. "rfcomm" \in Listeners /\ "underrun" \in Listeners
  BY ListenersAssumption
<1>3. /\ \/ UNCHANGED listener
         \/ listener' = Listening(listener, "rfcomm") /\ (start_hfp \/ start_hfp_sink)
         \/ \E l \in Listeners : listener' = Stopped(listener, l)
         \/ \E l \in Listeners : Join(l) /\ todo[1] = Joins[l]
      /\ \/ UNCHANGED sppVars
         \/ todo[1] = "spp_close" /\ (CloseReturns \/ CloseClient)
         \/ todo[1] = "spp_close_server" /\ CloseServer
         \/ todo[1] = "spp_join" /\ Joined
  <2> USE <1>1, <1>2 DEF Does
  <2>1. CASE start_source \/ start_sink \/ control_sink \/ start_hfp \/ start_hfp_sink
    BY <2>1 DEF start_source, start_sink, control_sink, start_hfp, start_hfp_sink
  <2>2. CASE bt_hal_sink_close \/ bt_hal_source_close \/ bt_hal_hfp_close \/ HfpClosed
    BY <2>2 DEF bt_hal_sink_close, bt_hal_source_close, bt_hal_hfp_close, HfpClosed
  <2>3. CASE \E l \in Listeners : ListenerJoined(l)
    BY <2>3 DEF ListenerJoined
  <2>4. CASE spp_close \/ spp_close_server \/ spp_join
    BY <2>4 DEF spp_close, spp_close_server, spp_join
  <2>5. CASE ble
    BY <2>5 DEF ble, Change
  <2>6. CASE _bt_close_server \/ _bt_open_server \/ bt_open \/ kill_all
    BY <2>6 DEF _bt_close_server, _bt_open_server, bt_open, kill_all
  <2> QED
    BY <2>1, <2>2, <2>3, <2>4, <2>5, <2>6 DEF Step
<1>4. SppTypeOK /\ ListenerTypeOK
  BY DEF TypeOK
<1>5. SppTypeOK'
  <2>1. CASE UNCHANGED sppVars
    BY <1>4, <2>1 DEF SppTypeOK, sppVars
  <2>2. CASE CloseReturns \/ CloseClient \/ CloseServer \/ Joined
    BY <1>4, <2>2, SppThreadType
  <2> QED
    BY <1>3, <2>1, <2>2
<1>6. ListenerTypeOK'
  <2>1. CASE UNCHANGED listener
    BY <1>4, <2>1 DEF ListenerTypeOK
  <2>2. CASE listener' = Listening(listener, "rfcomm")
    BY <1>2, <1>4, <2>2, ListenerType
  <2>3. CASE \E l \in Listeners : listener' = Stopped(listener, l)
    BY <1>4, <2>3, ListenerType
  <2>4. CASE \E l \in Listeners : Join(l)
    BY <1>4, <2>4, ListenerType
  <2> QED
    BY <1>3, <2>1, <2>2, <2>3, <2>4
<1> QED
  BY <1>3, <1>5, <1>6

(* What the other threads leave alone.                                     *)
Others == SppThread \/ Phone \/ UnderrunMessage \/ BluetoothdDies
          \/ \E l \in Listeners : ListenerThread(l)

LEMMA OthersLeave ==
  ASSUME TypeOK, Others
  PROVE  /\ SppTypeOK' /\ ListenerTypeOK' /\ UNCHANGED client
         /\ UNCHANGED <<bt_control, bluealsa, aplay>>
         /\ UNCHANGED <<bluetoothd, excuse>> \/ (bluetoothd' = FALSE /\ Stale)
         /\ listener'["rfcomm"].tid = listener["rfcomm"].tid
         /\ UNCHANGED sppVars \/ spp_server_thread \/ PeerConnects \/ PeerLeaves
<1> USE DEF TypeOK, client, state, processes
<1>0. "rfcomm" \in Listeners /\ "underrun" \in Listeners
  BY ListenersAssumption
<1>1. CASE SppThread \/ Phone
  BY <1>1, SppThreadType DEF SppThread, Phone, ListenerTypeOK
<1>2. CASE UnderrunMessage
  <2>1. ListenerTypeOK' /\ listener'["rfcomm"] = listener["rfcomm"]
    BY <1>0, <1>2, ListenerType DEF UnderrunMessage
  <2> QED
    BY <1>2, <2>1 DEF UnderrunMessage, SppTypeOK, sppVars
<1>3. CASE BluetoothdDies
  BY <1>3 DEF BluetoothdDies, SppTypeOK, ListenerTypeOK, sppVars
<1>4. ASSUME NEW l \in Listeners, ListenerThread(l)
      PROVE  /\ SppTypeOK' /\ ListenerTypeOK' /\ UNCHANGED client
             /\ UNCHANGED <<bt_control, bluealsa, aplay>>
             /\ UNCHANGED <<bluetoothd, excuse>> \/ (bluetoothd' = FALSE /\ Stale)
             /\ listener'["rfcomm"].tid = listener["rfcomm"].tid
             /\ UNCHANGED sppVars \/ spp_server_thread \/ PeerConnects \/ PeerLeaves
  <2>1. Listen(l) /\ UNCHANGED <<sppVars, state, client>>
    BY <1>4 DEF ListenerThread
  <2>2. ListenerTypeOK' /\ \A k \in Listeners : k # l => listener'[k] = listener[k]
    BY <2>1, ListenerType
  <2>3. listener'[l].tid = listener[l].tid
    BY <2>1 DEF Listen, Socket, Bind, Shut, ListenerTypeOK
  <2>4. listener'["rfcomm"].tid = listener["rfcomm"].tid
    BY <1>0, <2>2, <2>3
  <2> QED
    BY <2>1, <2>2, <2>4 DEF SppTypeOK, sppVars
<1> QED
  BY <1>1, <1>2, <1>3, <1>4 DEF Others

LEMMA TypeStep ==
  ASSUME TypeOK, Ordered, [Next]_vars
  PROVE  TypeOK'
<1>1. CASE Call
  <2>1. /\ calls' \in 0..MaxCalls /\ off' = FALSE /\ UNCHANGED state
        /\ \/ Starts(todo') /\ UNCHANGED <<sppVars, listener>>
           \/ bt_spp_server_open /\ UNCHANGED <<todo, listener>>
           \/ listener' = Listening(listener, "underrun") /\ UNCHANGED <<todo, sppVars>>
    BY <1>1, CallBegins
  <2>2. todo' \in Seq(Functions)
    BY <2>1 DEF Starts, TypeOK
  <2>3. SppTypeOK'
    <3>1. CASE UNCHANGED sppVars
      BY <3>1 DEF TypeOK, SppTypeOK, sppVars
    <3>2. CASE bt_spp_server_open
      BY <3>2, SppThreadType DEF TypeOK
    <3> QED
      BY <2>1, <3>1, <3>2
  <2>4. ListenerTypeOK'
    <3>1. CASE UNCHANGED listener
      BY <3>1 DEF TypeOK, ListenerTypeOK
    <3>2. CASE listener' = Listening(listener, "underrun")
      BY <3>2, ListenersAssumption, ListenerType DEF TypeOK
    <3> QED
      BY <2>1, <3>1, <3>2
  <2>5. FlagTypes'
    BY <2>1 DEF TypeOK, FlagTypes, state, processes
  <2> QED
    BY <2>1, <2>2, <2>3, <2>4, <2>5 DEF TypeOK, FlagTypes
<1>2. CASE Step
  <2>1. SppTypeOK' /\ ListenerTypeOK' /\ FlagTypes'
    BY <1>2, StepThreads, StepFlagTypes
  <2>2. todo' \in Seq(Functions) /\ UNCHANGED calls
    BY <1>2, StepsLeave, LeavesList
  <2>3. off' \in BOOLEAN
    <3>1. off \in BOOLEAN
      BY DEF TypeOK
    <3>2. off' = off \/ off' = TRUE
      BY <1>2 DEF Step, Does, start_source, start_sink, control_sink, start_hfp,
         start_hfp_sink, bt_hal_sink_close, bt_hal_source_close, bt_hal_hfp_close, HfpClosed,
         ListenerJoined, spp_close, spp_close_server, spp_join, ble, Change,
         _bt_close_server, _bt_open_server, bt_open, kill_all
    <3> QED
      BY <3>1, <3>2
  <2> QED
    BY <2>1, <2>2, <2>3 DEF TypeOK, FlagTypes
<1>3. CASE Others
  <2>1. /\ SppTypeOK' /\ ListenerTypeOK' /\ UNCHANGED client
        /\ UNCHANGED <<bt_control, bluealsa, aplay>>
        /\ UNCHANGED <<bluetoothd, excuse>> \/ (bluetoothd' = FALSE /\ Stale)
    BY <1>3, OthersLeave
  <2>2. excuse' \in [Flags -> Excuses]
    BY <2>1 DEF TypeOK, Stale, Excuses
  <2> QED
    BY <2>1, <2>2 DEF TypeOK, client
<1>4. CASE UNCHANGED vars
  BY <1>4 DEF vars, sppVars, state, processes, client, TypeOK, SppTypeOK, ListenerTypeOK
<1> QED
  BY <1>1, <1>2, <1>3, <1>4 DEF Next, Others

-----------------------------------------------------------------------------
(* Flags.                                                                  *)

(* Nothing is opened, and no excuse is lost.                               *)
Less ==
  \A f \in Flags : bt_control'[f] =>
    /\ bt_control[f]
    /\ excuse[f] = "stale" => excuse'[f] = "stale"
    /\ excuse'[f] = "none" => excuse[f] = "none"

LEMMA StepsLess ==
  ASSUME TypeOK, Step, todo[1] \notin Finals \/ todo[1] = "kill_all"
  PROVE  Less
<1>0. todo # <<>> => Head(todo) = todo[1]
  BY DEF TypeOK
<1>1. ASSUME NEW clear, NEW why \in Whys, SetFlags({}, clear, why) PROVE Less
  BY <1>1, FlagsSet DEF Less
<1>2. UNCHANGED <<bt_control, excuse>> => Less
  BY DEF Less
<1>3. Stale /\ UNCHANGED bt_control => Less
  BY DEF Less, Stale
<1> USE <1>0 DEF Does
<1>4. ~(start_source \/ start_sink \/ control_sink \/ start_hfp \/ start_hfp_sink)
  BY DEF start_source, start_sink, control_sink, start_hfp, start_hfp_sink, Finals, Starters, NoSource
<1>5. CASE bt_hal_sink_close \/ bt_hal_source_close \/ HfpClosed
  BY <1>1, <1>2, <1>5 DEF bt_hal_sink_close, bt_hal_source_close, HfpClosed, state, Whys
<1>6. CASE bt_hal_hfp_close \/ (\E l \in Listeners : ListenerJoined(l))
           \/ spp_close \/ spp_close_server \/ spp_join
  BY <1>2, <1>6 DEF bt_hal_hfp_close, ListenerJoined, spp_close, spp_close_server, spp_join,
     state
<1>7. CASE ble
  BY <1>1, <1>7 DEF ble, Change, Finals, Starters, Whys
<1>8. CASE _bt_close_server
  BY <1>3, <1>8 DEF _bt_close_server
<1>9. CASE _bt_open_server
  BY <1>2, <1>9 DEF _bt_open_server
<1>10. ~bt_open
  BY DEF bt_open, Finals, Starters
<1>11. CASE kill_all
  BY <1>1, <1>11 DEF kill_all, Whys
<1> QED
  BY <1>4, <1>5, <1>6, <1>7, <1>8, <1>9, <1>10, <1>11 DEF Step

LEMMA AlwaysLess ==
  ASSUME TypeOK, [Next]_vars, Step => todo[1] \notin Finals \/ todo[1] = "kill_all"
  PROVE  Less
<1>1. CASE Call
  <2>1. UNCHANGED state
    BY <1>1, CallBegins
  <2> QED
    BY <2>1 DEF Less, state
<1>2. CASE Step
  BY <1>2, StepsLess
<1>3. CASE Others
  <2>1. UNCHANGED bt_control /\ (UNCHANGED excuse \/ Stale)
    BY <1>3, OthersLeave
  <2>2. Stale => \A f \in Flags : bt_control[f] => excuse'[f] = "stale"
    BY DEF Stale
  <2> QED
    BY <2>1, <2>2 DEF Less
<1>4. CASE UNCHANGED vars
  BY <1>4 DEF Less, vars, state
<1> QED
  BY <1>1, <1>2, <1>3, <1>4 DEF Next, Others

LEMMA GoneStays ==
  ASSUME Less, NEW F \in SUBSET Flags, Gone(F)
  PROVE  Gone(F)'
  BY DEF Less, Gone

(* Once rk_bt_deinit has nothing more to do than to kill the processes, no *)
(* profile is open.                                                        *)
LEMMA AtTheEnd ==
  ASSUME TypeOK, Ordered, Deinitializing, todo # <<>>, todo[1] = "kill_all"
  PROVE  /\ Gone(Flags \ {"bt"}) /\ ~listener["rfcomm"].tid /\ SppOver
         /\ Tail(todo) = <<>>
<1>1. Left = {"kill_all"} /\ Tail(todo) = <<>>
  BY FinalEnds DEF Finals
<1>2. Gone({"hfp"}) /\ Gone({"sink"}) /\ Gone({"source"}) /\ Gone({"ble"}) /\ Gone({"client"})
      /\ ~listener["rfcomm"].tid /\ SppOver
  BY <1>1 DEF Deinitializing
<1>3. \A f \in Flags \ {"bt"} : f \in {"hfp", "sink", "source", "ble", "client"}
  BY DEF Flags, Audio
<1> QED
  BY <1>1, <1>2, <1>3 DEF Gone

LEMMA ServedStep ==
  ASSUME TypeOK, Ordered, MakesWay, Bereft, Served, SourceAlone, Deinitializing, [Next]_vars
  PROVE  Served'
<1>0. todo # <<>> => Head(todo) = todo[1]
  BY DEF TypeOK
<1>f. Audio \subseteq Flags /\ \A p \in Audio : p = "source" \/ p = "sink" \/ p = "hfp"
  BY DEF Flags, Audio
<1>a. ASSUME Less, UNCHANGED <<bluealsa, aplay>> PROVE Served'
  BY <1>a, <1>f DEF Less, Served
<1>b. ASSUME \A p \in Audio : bt_control'[p] => excuse'[p] # "none" PROVE Served'
  BY <1>b DEF Served
<1>c. ASSUME NEW set, NEW clear, NEW why \in Whys, SetFlags(set, clear, why),
             NEW p \in Audio, bt_control'[p], excuse'[p] = "none"
      PROVE  /\ why[p] = "none" /\ p \notin clear
             /\ p \in set \/ (bt_control[p] /\ excuse[p] = "none")
  BY <1>c, <1>f, FlagsSet
<1>d. /\ Unexcused \in Whys /\ Taken \in Whys /\ Unopened \in Whys
      /\ Displaced("hfp") \in Whys /\ Displaced("sink") \in Whys
  BY DEF Whys
<1>e. \A p \in Audio :
        /\ Taken[p] = "none" <=> p # "source"
        /\ Unopened[p] = "none" <=> p \notin {"hfp", "sink"}
        /\ Displaced("hfp")[p] = "none" <=> p # "hfp"
        /\ Displaced("sink")[p] = "none" <=> p # "sink"
  BY <1>f, WhyTypes
<1>g. ASSUME todo # <<>>, todo[1] = "start_source"
      PROVE  bt_control["sink"] => excuse["sink"] # "none"
  <2>1. Left = {"start_source"}
    BY <1>g, FinalEnds DEF Finals, Starters
  <2>2. CASE bluetoothd
    BY <2>1, <2>2 DEF MakesWay
  <2>3. CASE ~bluetoothd
    BY <1>f, <2>1, <2>3 DEF Bereft, Starters, Gone, Audio
  <2> QED
    BY <2>2, <2>3
<1>h. ASSUME todo # <<>>, todo[1] \in NoSource
      PROVE  bt_control["source"] => excuse["source"] # "none"
  <2>1. Left = {todo[1]}
    BY <1>h, FinalEnds DEF Finals, Starters
  <2>2. CASE bluetoothd
    BY <1>h, <2>1, <2>2 DEF MakesWay, NoSource
  <2>3. CASE ~bluetoothd
    BY <1>f, <1>h, <2>1, <2>3 DEF Bereft, Starters, Gone, Audio
  <2> QED
    BY <2>2, <2>3
<1>1. CASE Step
  <2> USE <1>0 DEF Does
  <2>1. CASE start_source
    <3>1. \/ Restart({"source"}, TRUE, FALSE) /\ SetFlags({"source"}, {}, Displaced("hfp"))
          \/ SetFlags({}, {"source"}, Displaced("hfp"))
      BY <2>1 DEF start_source
    <3>2. bt_control["sink"] => excuse["sink"] # "none"
      BY <1>g, <2>1 DEF start_source
    <3>3. ASSUME NEW p \in Audio, bt_control'[p], excuse'[p] = "none"
          PROVE  p \in bluealsa' /\ (p = "sink" => aplay')
      <4>1. CASE Restart({"source"}, TRUE, FALSE) /\ SetFlags({"source"}, {}, Displaced("hfp"))
        <5>1. p = "source"
          BY <1>c, <1>d, <1>e, <1>f, <3>2, <3>3, <4>1
        <5> QED
          BY <4>1, <5>1 DEF Restart
      <4>2. ~SetFlags({}, {"source"}, Displaced("hfp"))
        BY <1>c, <1>d, <1>e, <1>f, <3>2, <3>3
      <4> QED
        BY <3>1, <4>1, <4>2
    <3> QED
      BY <3>3 DEF Served
  <2>2. CASE start_sink
    <3>1. \/ Restart({"sink"}, TRUE, TRUE) /\ SetFlags({"sink"}, {}, Displaced("hfp"))
          \/ SetFlags({}, {"sink"}, Displaced("hfp"))
      BY <2>2 DEF start_sink
    <3>2. bt_control["source"] => excuse["source"] # "none"
      BY <1>h, <2>2 DEF start_sink, NoSource
    <3>3. ASSUME NEW p \in Audio, bt_control'[p], excuse'[p] = "none"
          PROVE  p \in bluealsa' /\ (p = "sink" => aplay')
      <4>1. CASE Restart({"sink"}, TRUE, TRUE) /\ SetFlags({"sink"}, {}, Displaced("hfp"))
        <5>1. p \in {"sink"}
          BY <1>c, <1>d, <1>e, <1>f, <3>2, <3>3, <4>1
        <5> QED
          BY <4>1, <5>1 DEF Restart
      <4>2. ~SetFlags({}, {"sink"}, Displaced("hfp"))
        BY <1>c, <1>d, <1>e, <1>f, <3>2, <3>3
      <4> QED
        BY <3>1, <4>1, <4>2
    <3> QED
      BY <3>3 DEF Served
  <2>3. CASE control_sink
    <3>1. \/ Restart({"sink"}, TRUE, TRUE) /\ SetFlags({"sink"}, {}, Displaced("hfp"))
          \/ SetFlags({"sink"}, {}, Unopened)
      BY <2>3 DEF control_sink
    <3>2. bt_control["source"] => excuse["source"] # "none"
      BY <1>h, <2>3 DEF control_sink, NoSource
    <3>3. ASSUME NEW p \in Audio, bt_control'[p], excuse'[p] = "none"
          PROVE  p \in bluealsa' /\ (p = "sink" => aplay')
      <4>1. CASE Restart({"sink"}, TRUE, TRUE) /\ SetFlags({"sink"}, {}, Displaced("hfp"))
        <5>1. p \in {"sink"}
          BY <1>c, <1>d, <1>e, <1>f, <3>2, <3>3, <4>1
        <5> QED
          BY <4>1, <5>1 DEF Restart
      <4>2. ~SetFlags({"sink"}, {}, Unopened)
        BY <1>c, <1>d, <1>e, <1>f, <3>2, <3>3
      <4> QED
        BY <3>1, <4>1, <4>2
    <3> QED
      BY <3>3 DEF Served
  <2>4. CASE start_hfp
    <3>1. \/ Restart({"hfp"}, TRUE, FALSE) /\ SetFlags({"hfp"}, {}, Displaced("sink"))
          \/ SetFlags({}, {"hfp"}, Displaced("sink"))
      BY <2>4 DEF start_hfp
    <3>2. bt_control["source"] => excuse["source"] # "none"
      BY <1>h, <2>4 DEF start_hfp, NoSource
    <3>3. ASSUME NEW p \in Audio, bt_control'[p], excuse'[p] = "none"
          PROVE  p \in bluealsa' /\ (p = "sink" => aplay')
      <4>1. CASE Restart({"hfp"}, TRUE, FALSE) /\ SetFlags({"hfp"}, {}, Displaced("sink"))
        <5>1. p \in {"hfp"}
          BY <1>c, <1>d, <1>e, <1>f, <3>2, <3>3, <4>1
        <5> QED
          BY <4>1, <5>1 DEF Restart
      <4>2. ~SetFlags({}, {"hfp"}, Displaced("sink"))
        BY <1>c, <1>d, <1>e, <1>f, <3>2, <3>3
      <4> QED
        BY <3>1, <4>1, <4>2
    <3> QED
      BY <3>3 DEF Served
  <2>5. CASE start_hfp_sink
    <3>1. \/ Restart({"hfp", "sink"}, TRUE, TRUE) /\ SetFlags({"hfp", "sink"}, {}, Unexcused)
          \/ SetFlags({}, {"hfp", "sink"}, Unexcused)
      BY <2>5 DEF start_hfp_sink
    <3>2. bt_control["source"] => excuse["source"] # "none"
      BY <1>h, <2>5 DEF start_hfp_sink, NoSource
    <3>3. ASSUME NEW p \in Audio, bt_control'[p], excuse'[p] = "none"
          PROVE  p \in bluealsa' /\ (p = "sink" => aplay')
      <4>1. CASE Restart({"hfp", "sink"}, TRUE, TRUE) /\ SetFlags({"hfp", "sink"}, {}, Unexcused)
        <5>1. p \in {"hfp", "sink"}
          BY <1>c, <1>d, <1>e, <1>f, <3>2, <3>3, <4>1
        <5> QED
          BY <4>1, <5>1 DEF Restart
      <4>2. ~SetFlags({}, {"hfp", "sink"}, Unexcused)
        BY <1>c, <1>d, <1>e, <1>f, <3>2, <3>3
      <4> QED
        BY <3>1, <4>1, <4>2
    <3> QED
      BY <3>3 DEF Served
  <2>6. CASE bt_hal_sink_close
    <3>1. CASE ~IsOpen("sink")
      BY <1>a, <2>6, <3>1, StepsLess, <1>1 DEF bt_hal_sink_close, Finals, Starters, NoSource, state, processes
    <3>2. CASE IsOpen("sink")
      <4>1. /\ SetFlags({}, {"sink"}, Unexcused)
            /\ bluealsa' = IF IsOpen("hfp") THEN bluealsa ELSE {}
        BY <2>6, <3>2 DEF bt_hal_sink_close, SharesWithHfp
      <4>2. bt_control["sink"] /\ bluetoothd
        BY <3>2 DEF IsOpen
      <4>3. ~(bt_control["source"] /\ excuse["source"] = "none")
        BY <4>2 DEF SourceAlone
      <4>4. ASSUME NEW p \in Audio, bt_control'[p], excuse'[p] = "none"
            PROVE  p = "hfp" /\ bt_control["hfp"] /\ excuse["hfp"] = "none"
        BY <1>c, <1>d, <1>f, <4>1, <4>3, <4>4
      <4>5. bt_control["hfp"] => IsOpen("hfp")
        BY <4>2 DEF IsOpen
      <4> QED
        BY <4>1, <4>4, <4>5 DEF Served
    <3> QED
      BY <3>1, <3>2
  <2>7. CASE bt_hal_source_close
    <3>1. CASE ~IsOpen("source")
      BY <1>a, <2>7, <3>1, StepsLess, <1>1
         DEF bt_hal_source_close, Finals, Starters, NoSource, state, processes
    <3>2. CASE IsOpen("source")
      <4>1. SetFlags({}, {"source"}, Unexcused)
        BY <2>7, <3>2 DEF bt_hal_source_close
      <4>2. bt_control["source"] /\ bluetoothd
        BY <3>2 DEF IsOpen
      <4>3. /\ bt_control["sink"] => excuse["sink"] # "none"
            /\ bt_control["hfp"] => excuse["hfp"] # "none"
        BY <4>2 DEF SourceAlone
      <4>4. \A p \in Audio : bt_control'[p] => excuse'[p] # "none"
        BY <1>c, <1>d, <1>f, <4>1, <4>3
      <4> QED
        BY <1>b, <4>4
    <3> QED
      BY <3>1, <3>2
  <2>8. CASE HfpClosed
    <3>1. CASE UNCHANGED <<bluealsa, aplay>>
      BY <1>a, <2>8, <3>1, StepsLess, <1>1 DEF HfpClosed, Finals, Starters, NoSource
    <3>2. CASE ~UNCHANGED <<bluealsa, aplay>>
      <4>1. /\ IsOpen("hfp") /\ ~IsOpen("sink")
            /\ SetFlags({}, {"hfp"}, IF excuse["hfp"] = "none" THEN Unexcused ELSE Taken)
        BY <2>8, <3>2 DEF HfpClosed, state, processes
      <4>2. bluetoothd /\ bt_control["hfp"] /\ ~bt_control["sink"]
        BY <4>1 DEF IsOpen
      <4>3. excuse["hfp"] = "none" => ~bt_control["source"]
        BY <4>2 DEF SourceAlone
      <4>4. \A p \in Audio : bt_control'[p] => excuse'[p] # "none"
        BY <1>c, <1>d, <1>e, <1>f, <4>1, <4>2, <4>3
      <4> QED
        BY <1>b, <4>4
    <3> QED
      BY <3>1, <3>2
  <2>9. CASE bt_hal_hfp_close \/ (\E l \in Listeners : ListenerJoined(l))
             \/ spp_close \/ spp_close_server \/ spp_join
    BY <2>9 DEF Served, bt_hal_hfp_close, ListenerJoined, spp_close, spp_close_server, spp_join,
       state, processes
  <2>10. CASE ble
    <3>1. \E set, clear : /\ SetFlags(set, clear, Unexcused) /\ set \cap Audio = {}
                          /\ UNCHANGED processes
      BY <2>10 DEF ble, Change, Audio
    <3> QED
      BY <1>c, <1>d, <3>1 DEF Served, processes
  <2>11. CASE _bt_close_server
    <3>1. \A p \in Audio : bt_control'[p] => excuse'[p] # "none"
      BY <1>f, <2>11 DEF _bt_close_server, Stale
    <3> QED
      BY <1>b, <3>1
  <2>12. CASE _bt_open_server
    BY <2>12 DEF _bt_open_server, Served
  <2>13. CASE bt_open
    <3>1. UNCHANGED processes /\ (SetFlags({"bt"}, {}, Unexcused) \/ UNCHANGED <<bt_control, excuse>>)
      BY <2>13 DEF bt_open
    <3>2. "bt" \notin Audio
      BY DEF Audio
    <3> QED
      BY <1>c, <1>d, <3>1, <3>2 DEF Served, processes
  <2>14. CASE kill_all
    <3>1. todo # <<>> /\ todo[1] = "kill_all"
      BY <2>14 DEF kill_all
    <3>2. Gone(Flags \ {"bt"})
      BY <3>1, AtTheEnd
    <3>3. SetFlags({}, {"bt"}, Unexcused)
      BY <2>14 DEF kill_all
    <3>4. "bt" \notin Audio
      BY DEF Audio
    <3>5. \A p \in Audio : bt_control'[p] => excuse'[p] # "none"
      BY <1>c, <1>d, <1>f, <3>2, <3>3, <3>4 DEF Gone
    <3> QED
      BY <1>b, <3>5
  <2> QED
    BY <1>1, <2>1, <2>2, <2>3, <2>4, <2>5, <2>6, <2>7, <2>8, <2>9, <2>10, <2>11, <2>12,
       <2>13, <2>14 DEF Step
<1>2. CASE ~Step
  <2>1. Less
    BY <1>2, AlwaysLess
  <2>2. UNCHANGED <<bluealsa, aplay>>
    BY <1>2, CallBegins, OthersLeave DEF Next, Others, vars, state, processes
  <2> QED
    BY <1>a, <2>1, <2>2
<1> QED
  BY <1>1, <1>2

(* A profile is started when nothing but its start is left.                *)
LEMMA SourceAloneStep ==
  ASSUME TypeOK, Ordered, Restarting, MakesWay, SourceAlone, [Next]_vars
  PROVE  SourceAlone'
<1>0. todo # <<>> => Head(todo) = todo[1]
  BY DEF TypeOK
<1>f. {"source", "sink", "hfp"} \subseteq Flags /\ Audio = {"source", "sink", "hfp"}
  BY DEF Flags, Audio
<1>a. ASSUME bluetoothd' => bluetoothd,
             \A p \in Audio : bt_control'[p] =>
               bt_control[p] /\ (excuse'[p] = "none" => excuse[p] = "none")
      PROVE  SourceAlone'
  BY <1>a, <1>f DEF SourceAlone
<1>b. Less => \A p \in Audio : bt_control'[p] =>
                 bt_control[p] /\ (excuse'[p] = "none" => excuse[p] = "none")
  BY <1>f DEF Less
<1>c. ASSUME bluetoothd' => ~bt_control'["source"] PROVE SourceAlone'
  BY <1>c DEF SourceAlone
<1>1. CASE Step /\ todo[1] \in Finals
  <2> USE <1>0 DEF Does
  <2>0. todo # <<>>
    BY <1>1, StepsLeave
  <2>1. Left = {todo[1]}
    BY <1>1, <2>0, FinalEnds
  <2>2. CASE start_source
    <3>1. todo[1] = "start_source"
      BY <2>0, <2>2 DEF start_source
    <3>2. bluetoothd' = bluetoothd
      BY <2>2 DEF start_source, Restart
    <3>3. bluetoothd => ~bt_control["sink"]
      BY <2>1, <3>1 DEF MakesWay
    <3>4. \/ SetFlags({"source"}, {}, Displaced("hfp"))
          \/ SetFlags({}, {"source"}, Displaced("hfp"))
      BY <2>2 DEF start_source
    <3>5. /\ bt_control'["source"] /\ ~bt_control["sink"] => ~bt_control'["sink"]
          /\ bt_control'["hfp"] => excuse'["hfp"] # "none"
      BY <1>f, <3>4, FlagsSet, WhyTypes DEF Whys
    <3> QED
      BY <3>2, <3>3, <3>5 DEF SourceAlone
  <2>3. CASE start_sink \/ control_sink \/ start_hfp \/ start_hfp_sink
    <3>1. todo[1] \in NoSource
      BY <2>0, <2>3 DEF start_sink, control_sink, start_hfp, start_hfp_sink, NoSource
    <3>2. bluetoothd' = bluetoothd
      BY <2>3 DEF start_sink, control_sink, start_hfp, start_hfp_sink, Restart
    <3>3. bluetoothd => ~bt_control["source"]
      BY <2>1, <3>1 DEF MakesWay, NoSource
    <3>4. \E set \in {{}, {"sink"}, {"hfp"}, {"hfp", "sink"}} : \E clear :
            \E why \in Whys : SetFlags(set, clear, why)
      BY <1>f, <2>3 DEF Whys, start_sink, control_sink, start_hfp, start_hfp_sink
    <3>5. ~bt_control["source"] => ~bt_control'["source"]
      BY <1>f, <3>4, FlagsSet
    <3> QED
      BY <1>c, <3>2, <3>3, <3>5
  <2>4. CASE ble \/ bt_open
    <3>1. bluetoothd' = bluetoothd
      BY <2>4 DEF ble, Change, bt_open, processes
    <3>2. \/ \E set \in {{}, {"ble"}, {"client"}, {"bt"}} : \E clear : SetFlags(set, clear, Unexcused)
          \/ UNCHANGED <<bt_control, excuse>>
      BY <2>4 DEF ble, Change, bt_open
    <3>3. \A p \in Audio : bt_control'[p] =>
            bt_control[p] /\ (excuse'[p] = "none" => excuse[p] = "none")
      BY <1>f, <3>2, FlagsSet, WhyTypes DEF Whys
    <3> QED
      BY <1>a, <3>1, <3>3
  <2>5. CASE kill_all
    BY <1>c, <2>5 DEF kill_all
  <2>6. start_source \/ start_sink \/ control_sink \/ start_hfp \/ start_hfp_sink
        \/ ble \/ bt_open \/ kill_all
    <3>1. \A l \in Listeners : Joins[l] \in {"rfcomm_join", "underrun_join"}
      BY ListenersAssumption DEF Joins
    <3> QED
      BY <1>1, <3>1 DEF Step, Finals, Starters, NoSource, bt_hal_sink_close, bt_hal_source_close,
         bt_hal_hfp_close, HfpClosed, ListenerJoined, spp_close, spp_close_server, spp_join,
         _bt_close_server, _bt_open_server
  <2> QED
    BY <2>2, <2>3, <2>4, <2>5, <2>6
<1>2. CASE _bt_open_server
  <2>1. todo # <<>> /\ todo[1] = "_bt_open_server"
    BY <1>0, <1>2 DEF _bt_open_server, Does
  <2>2. "_bt_open_server" \in Left
    BY <2>1, Tailed DEF TypeOK, Left, Members
  <2>3. Gone(Flags)
    BY <2>1, <2>2 DEF Restarting
  <2>4. UNCHANGED <<bt_control, excuse>>
    BY <1>2 DEF _bt_open_server
  <2> QED
    BY <1>f, <2>3, <2>4 DEF Gone, SourceAlone
<1>3. CASE ~_bt_open_server /\ (Step => todo[1] \notin Finals)
  <2>1. Less
    BY <1>3, AlwaysLess
  <2>2. bluetoothd' => bluetoothd
    <3>1. CASE Call
      BY <3>1, CallBegins DEF state, processes
    <3>2. CASE Others
      BY <3>2, OthersLeave
    <3>3. CASE Step
      BY <1>3, <3>3 DEF Step, start_source, start_sink, control_sink, start_hfp,
         start_hfp_sink, Restart, bt_hal_sink_close, bt_hal_source_close, bt_hal_hfp_close,
         HfpClosed, ListenerJoined, spp_close, spp_close_server, spp_join, ble, Change,
         _bt_close_server, bt_open, kill_all, state, processes
    <3> QED
      BY <3>1, <3>2, <3>3 DEF Next, Others, vars, state, processes
  <2> QED
    BY <1>a, <1>b, <2>1, <2>2
<1> QED
  BY <1>1, <1>2, <1>3

-----------------------------------------------------------------------------
(* The order of the functions.                                             *)

(* Which action a function is.                                             *)
LEMMA StepOf ==
  ASSUME TypeOK, Step
  PROVE  /\ todo # <<>> /\ todo[1] \in Left
         /\ todo[1] = "sink_close" => bt_hal_sink_close
         /\ todo[1] = "source_close" => bt_hal_source_close
         /\ todo[1] = "hfp_close" => bt_hal_hfp_close
         /\ todo[1] = "hfp_closed" => HfpClosed
         /\ todo[1] = "rfcomm_join" => ListenerJoined("rfcomm")
         /\ todo[1] = "spp_close" => spp_close
         /\ todo[1] = "spp_close_server" => spp_close_server
         /\ todo[1] = "spp_join" => spp_join
         /\ todo[1] \in {"ble_stop", "client_close"} => ble
         /\ todo[1] = "_bt_close_server" => _bt_close_server
         /\ todo[1] = "_bt_open_server" => _bt_open_server
         /\ todo[1] = "kill_all" => kill_all
<1>1. todo # <<>> => Head(todo) = todo[1]
  BY DEF TypeOK
<1>2. todo # <<>>
  BY StepsLeave
<1>3. todo[1] \in Left
  BY <1>2, Tailed DEF TypeOK, Left, Members
<1>4. /\ \A l \in Listeners : l # "rfcomm" => Joins[l] = "underrun_join"
      /\ Joins["rfcomm"] = "rfcomm_join"
  BY ListenersAssumption DEF Joins
<1> USE <1>1, <1>2, <1>4 DEF Does
<1>5. /\ start_source => todo[1] = "start_source"
      /\ start_sink => todo[1] = "start_sink"
      /\ control_sink => todo[1] = "control_sink"
      /\ start_hfp => todo[1] = "start_hfp"
      /\ start_hfp_sink => todo[1] = "start_hfp_sink"
  BY DEF start_source, start_sink, control_sink, start_hfp, start_hfp_sink
<1>6. /\ bt_hal_sink_close => todo[1] = "sink_close"
      /\ bt_hal_source_close => todo[1] = "source_close"
      /\ bt_hal_hfp_close => todo[1] = "hfp_close"
      /\ HfpClosed => todo[1] = "hfp_closed"
  BY DEF bt_hal_sink_close, bt_hal_source_close, bt_hal_hfp_close, HfpClosed
<1>7. \A l \in Listeners : ListenerJoined(l) =>
        (todo[1] = "rfcomm_join" /\ l = "rfcomm") \/ todo[1] = "underrun_join"
  BY DEF ListenerJoined
<1>8. /\ spp_close => todo[1] = "spp_close"
      /\ spp_close_server => todo[1] = "spp_close_server"
      /\ spp_join => todo[1] = "spp_join"
  BY DEF spp_close, spp_close_server, spp_join
<1>9. ble => todo[1] \in {"ble_open", "client_open", "ble_stop", "client_close"}
  BY DEF ble, Change
<1>10. /\ _bt_close_server => todo[1] = "_bt_close_server"
       /\ _bt_open_server => todo[1] = "_bt_open_server"
       /\ bt_open => todo[1] = "bt_open"
       /\ kill_all => todo[1] = "kill_all"
  BY DEF _bt_close_server, _bt_open_server, bt_open, kill_all
<1> QED
  BY <1>3, <1>5, <1>6, <1>7, <1>8, <1>9, <1>10 DEF Step

(* Calls and steps apart, nothing moves on in a call.                      *)
LEMMA TodoKept ==
  ASSUME TypeOK, [Next]_vars, ~Step
  PROVE  \/ UNCHANGED todo /\ Left' = Left
         \/ Call /\ todo = <<>> /\ Starts(todo') /\ Left' = Members(todo')
            /\ UNCHANGED <<state, sppVars, listener>>
<1>1. CASE Call
  BY <1>1, CallBegins DEF Left, Members
<1>2. CASE Others
  BY <1>2, OthersLeave DEF client, Left, Members
<1>3. CASE UNCHANGED vars
  BY <1>3 DEF vars, client, Left, Members
<1> QED
  BY <1>1, <1>2, <1>3 DEF Next, Others

LEMMA NothingLeft == todo' = <<>> => Left' = {}
<1>1. Len(<<>>) = 0 /\ 1..0 = {}
  OBVIOUS
<1> QED
  BY <1>1 DEF Left, Members

LEMMA OrderedStep ==
  ASSUME TypeOK, Ordered, [Next]_vars
  PROVE  Ordered'
<1>1. CASE Step
  BY <1>1, StepsLeave, LeavesList
<1>2. CASE ~Step
  <2>1. CASE UNCHANGED todo
    BY <2>1 DEF Ordered, OrderedList, Finals, Firsts, NoSource
  <2>2. CASE Starts(todo')
    BY <2>2 DEF Starts, Ordered, OrderedList, Finals, Firsts, NoSource
  <2> QED
    BY <1>2, <2>1, <2>2, TodoKept
<1> QED
  BY <1>1, <1>2

LEMMA RestartingStep ==
  ASSUME TypeOK, Ordered, Restarting, [Next]_vars
  PROVE  Restarting'
<1> DEFINE R == {"_bt_close_server", "_bt_open_server"}
<1> SUFFICES ASSUME Left' \cap R # {}
             PROVE  /\ Left' \subseteq R \cup {"bt_open"}
                    /\ todo'[1] # "_bt_close_server" => Gone(Flags)'
  BY DEF Restarting
<1>1. CASE Step
  <2>1. todo # <<>> /\ StepLeaves /\ todo[1] \in Left
    BY <1>1, StepsLeave, StepOf
  <2>2. Left' \subseteq
          Left \cup {"underrun_join", "rfcomm_join", "hfp_closed", "spp_close_server", "spp_join"}
    BY <2>1, LeavesList
  <2>3. Left \cap R # {}
    BY <2>2
  <2>4. Left \subseteq R \cup {"bt_open"} /\ (todo[1] # "_bt_close_server" => Gone(Flags))
    BY <2>3 DEF Restarting
  <2>5. Left' \subseteq Left
    BY <2>1, <2>4, LeavesList
  <2>6. todo[1] # "bt_open"
    <3>1. todo[1] = "bt_open" => Left' = {}
      BY <2>1, FinalEnds, NothingLeft DEF Finals
    <3> QED
      BY <3>1
  <2>7. CASE todo[1] = "_bt_close_server"
    <3>1. Stale /\ UNCHANGED bt_control
      BY <1>1, <2>7, StepOf DEF _bt_close_server
    <3>2. Gone(Flags)'
      BY <3>1 DEF Gone, Stale
    <3> QED
      BY <2>4, <2>5, <3>2
  <2>8. CASE todo[1] = "_bt_open_server"
    <3>1. UNCHANGED <<bt_control, excuse>>
      BY <1>1, <2>8, StepOf DEF _bt_open_server
    <3>2. Gone(Flags)'
      BY <2>4, <2>8, <3>1 DEF Gone
    <3> QED
      BY <2>4, <2>5, <3>2
  <2> QED
    BY <2>1, <2>4, <2>6, <2>7, <2>8
<1>2. CASE ~Step
  <2>1. CASE UNCHANGED todo /\ Left' = Left
    <3>1. Left \subseteq R \cup {"bt_open"} /\ (todo[1] # "_bt_close_server" => Gone(Flags))
      BY <2>1 DEF Restarting
    <3>2. Less
      BY <1>2, AlwaysLess
    <3> QED
      BY <2>1, <3>1, <3>2, GoneStays
  <2>2. CASE Starts(todo') /\ Left' = Members(todo')
    BY <2>2 DEF Starts
  <2> QED
    BY <1>2, <2>1, <2>2, TodoKept
<1> QED
  BY <1>1, <1>2

LEMMA MakesWayStep ==
  ASSUME TypeOK, Ordered, Restarting, MakesWay, [Next]_vars
  PROVE  MakesWay'
<1> SUFFICES ASSUME bluetoothd'
             PROVE  /\ "start_source" \in Left' /\ "sink_close" \notin Left' =>
                         ~bt_control'["sink"]
                    /\ Left' \cap NoSource # {} /\ "source_close" \notin Left' =>
                         ~bt_control'["source"]
  BY DEF MakesWay, NoSource
<1>f. {"source", "sink"} \subseteq Flags /\ NoSource \subseteq Finals /\ "start_source" \in Finals
  BY DEF Flags, Audio, Finals, Starters
<1>1. CASE Step
  <2>1. todo # <<>> /\ StepLeaves /\ todo[1] \in Left
    BY <1>1, StepsLeave, StepOf
  <2>2. CASE todo' = <<>>
    BY <2>2, NothingLeft
  <2>3. CASE todo' # <<>>
    <3>1. todo[1] \notin Finals
      BY <2>1, <2>3, FinalEnds
    <3>2. Less
      BY <1>1, <3>1, StepsLess
    <3>3. /\ Left' \subseteq Left \cup {"underrun_join", "rfcomm_join", "hfp_closed",
                                        "spp_close_server", "spp_join"}
          /\ Left \subseteq Left' \cup {todo[1]}
      BY <2>1, <2>3, LeavesList
    <3>4. ASSUME Left' \cap (NoSource \cup {"start_source"}) # {} PROVE bluetoothd
      <4>1. Left \cap (NoSource \cup {"start_source"}) # {}
        BY <3>3, <3>4 DEF NoSource
      <4>2. todo[1] # "_bt_open_server"
        BY <2>1, <4>1 DEF Restarting, NoSource
      <4>3. ~_bt_open_server
        BY <2>1, <4>2 DEF _bt_open_server, Does, TypeOK
      <4>4. bluetoothd' => bluetoothd
        BY <1>1, <4>3 DEF Step, start_source, start_sink, control_sink, start_hfp,
           start_hfp_sink, Restart, bt_hal_sink_close, bt_hal_source_close, bt_hal_hfp_close,
           HfpClosed, ListenerJoined, spp_close, spp_close_server, spp_join, ble, Change,
           _bt_close_server, bt_open, kill_all, state, processes
      <4> QED
        BY <4>4
    <3>5. ASSUME "start_source" \in Left', "sink_close" \notin Left'
          PROVE  ~bt_control'["sink"]
      <4>1. bluetoothd /\ "start_source" \in Left
        BY <3>3, <3>4, <3>5
      <4>2. CASE "sink_close" \notin Left
        BY <1>f, <3>2, <4>1, <4>2 DEF MakesWay, Less
      <4>3. CASE "sink_close" \in Left
        <5>1. todo[1] = "sink_close"
          BY <3>3, <3>5, <4>3
        <5>2. bt_hal_sink_close
          BY <1>1, <5>1, StepOf
        <5>3. \/ ~IsOpen("sink") /\ UNCHANGED bt_control
              \/ SetFlags({}, {"sink"}, Unexcused)
          BY <5>2 DEF bt_hal_sink_close, state
        <5> QED
          BY <1>f, <4>1, <5>3, FlagsSet DEF IsOpen, Whys
      <4> QED
        BY <4>2, <4>3
    <3>6. ASSUME Left' \cap NoSource # {}, "source_close" \notin Left'
          PROVE  ~bt_control'["source"]
      <4>1. bluetoothd /\ Left \cap NoSource # {}
        BY <3>3, <3>4, <3>6 DEF NoSource
      <4>2. CASE "source_close" \notin Left
        BY <1>f, <3>2, <4>1, <4>2 DEF MakesWay, Less
      <4>3. CASE "source_close" \in Left
        <5>1. todo[1] = "source_close"
          BY <3>3, <3>6, <4>3
        <5>2. bt_hal_source_close
          BY <1>1, <5>1, StepOf
        <5>3. \/ ~IsOpen("source") /\ UNCHANGED bt_control
              \/ SetFlags({}, {"source"}, Unexcused)
          BY <5>2 DEF bt_hal_source_close, state
        <5> QED
          BY <1>f, <4>1, <5>3, FlagsSet DEF IsOpen, Whys
      <4> QED
        BY <4>2, <4>3
    <3> QED
      BY <3>5, <3>6
  <2> QED
    BY <2>2, <2>3
<1>2. CASE ~Step
  <2>1. CASE UNCHANGED todo /\ Left' = Left
    <3>1. Less
      BY <1>2, AlwaysLess
    <3>2. bluetoothd' => bluetoothd
      <4>1. CASE Call
        BY <4>1, CallBegins DEF state, processes
      <4>2. CASE Others
        BY <4>2, OthersLeave
      <4> QED
        BY <1>2, <4>1, <4>2 DEF Next, Others, vars, state, processes
    <3> QED
      BY <1>f, <2>1, <3>1, <3>2 DEF MakesWay, Less
  <2>2. CASE Starts(todo') /\ Left' = Members(todo') /\ UNCHANGED state
    BY <2>2 DEF Starts, IsOpen, state, processes
  <2> QED
    BY <1>2, <2>1, <2>2, TodoKept
<1> QED
  BY <1>1, <1>2

(* What happens besides the steps of a call.                               *)
LEMMA Besides ==
  ASSUME TypeOK, [Next]_vars, ~Step
  PROVE  /\ \/ UNCHANGED sppVars \/ spp_server_thread \/ PeerConnects \/ PeerLeaves
            \/ bt_spp_server_open /\ todo = <<>> /\ off' = FALSE
         /\ listener'["rfcomm"].tid = listener["rfcomm"].tid
         /\ UNCHANGED <<bt_control, bluealsa, aplay>>
         /\ UNCHANGED <<bluetoothd, excuse>> \/ (bluetoothd' = FALSE /\ Stale)
         /\ UNCHANGED client \/ off' = FALSE
<1>1. CASE Call
  <2>1. /\ todo = <<>> /\ off' = FALSE /\ UNCHANGED state
        /\ \/ UNCHANGED <<sppVars, listener>>
           \/ bt_spp_server_open /\ UNCHANGED listener
           \/ listener' = Listening(listener, "underrun") /\ UNCHANGED sppVars
    BY <1>1, CallBegins
  <2>2. listener'["rfcomm"].tid = listener["rfcomm"].tid
    BY <2>1, ListenersAssumption, ListenerType DEF TypeOK
  <2> QED
    BY <2>1, <2>2 DEF state, processes
<1>2. CASE Others
  BY <1>2, OthersLeave
<1>3. CASE UNCHANGED vars
  BY <1>3 DEF vars, state, processes
<1> QED
  BY <1>1, <1>2, <1>3 DEF Next, Others

LEMMA BereftStep ==
  ASSUME TypeOK, Ordered, Restarting, Bereft, [Next]_vars
  PROVE  Bereft'
<1> SUFFICES ASSUME ~bluetoothd', Left' \cap Starters # {} PROVE Gone(Flags)'
  BY DEF Bereft
<1>f. Flags \in SUBSET Flags /\ Starters \subseteq Finals
  BY DEF Finals
<1>1. CASE Step
  <2>1. todo # <<>> /\ StepLeaves /\ todo[1] \in Left /\ todo' # <<>>
    BY <1>1, StepsLeave, StepOf, NothingLeft
  <2>2. todo[1] \notin Finals
    BY <2>1, FinalEnds
  <2>3. Less
    BY <1>1, <2>2, StepsLess
  <2>4. Left' \subseteq Left \cup {"underrun_join", "rfcomm_join", "hfp_closed",
                                  "spp_close_server", "spp_join"}
    BY <2>1, LeavesList
  <2>5. Left \cap Starters # {}
    BY <2>4 DEF Starters, NoSource
  <2>6. todo[1] \notin {"_bt_close_server", "_bt_open_server"}
    BY <2>1, <2>5 DEF Restarting, Starters, NoSource
  <2>7. bluetoothd' = bluetoothd
    <3>1. Head(todo) = todo[1]
      BY <2>1 DEF TypeOK
    <3> QED
      BY <1>1, <2>2, <2>6, <3>1 DEF Step, Does, start_source, start_sink, control_sink,
         start_hfp, start_hfp_sink, Restart, bt_hal_sink_close, bt_hal_source_close,
         bt_hal_hfp_close, HfpClosed, ListenerJoined, spp_close, spp_close_server, spp_join,
         ble, Change, _bt_close_server, _bt_open_server, bt_open, kill_all, state, processes,
         Finals, Starters, NoSource
  <2> QED
    BY <1>f, <2>3, <2>5, <2>7, GoneStays DEF Bereft
<1>2. CASE ~Step
  <2>1. CASE UNCHANGED todo /\ Left' = Left
    <3>1. UNCHANGED bt_control /\ (UNCHANGED <<bluetoothd, excuse>> \/ (bluetoothd' = FALSE /\ Stale))
      BY <1>2, Besides
    <3>2. Stale => \A f \in Flags : bt_control[f] => excuse'[f] = "stale"
      BY DEF Stale
    <3> QED
      BY <2>1, <3>1, <3>2 DEF Bereft, Gone
  <2>2. CASE Starts(todo') /\ Left' = Members(todo') /\ UNCHANGED state
    BY <2>2 DEF Starts, state, processes
  <2> QED
    BY <1>2, <2>1, <2>2, TodoKept
<1> QED
  BY <1>1, <1>2

-----------------------------------------------------------------------------
(* The serial port server.                                                 *)

(* The thread is over for good, and does not run on without server_running *)
(* but for a close.                                                        *)
LEMMA SppMoves ==
  ASSUME SppTypeOK, UNCHANGED sppVars \/ spp_server_thread \/ PeerConnects \/ PeerLeaves
  PROVE  /\ SppOver => SppOver'
         /\ spp'.pc \notin Idle => spp'.running \/ (spp.pc \notin Idle /\ ~spp.running)
<1> USE DEF SppTypeOK, SppOver, Idle
<1>1. CASE Start
  BY <1>1 DEF Start
<1>2. CASE Loop
  BY <1>2 DEF Loop
<1>3. CASE Select
  BY <1>3 DEF Select
<1>4. CASE Accept
  BY <1>4 DEF Accept
<1>5. CASE Announce
  BY <1>5 DEF Announce
<1>6. CASE Read
  BY <1>6 DEF Read
<1>7. CASE Out
  BY <1>7 DEF Out
<1>8. CASE UNCHANGED sppVars \/ PeerConnects \/ PeerLeaves
  BY <1>8 DEF PeerConnects, PeerLeaves, sppVars
<1> QED
  BY <1>1, <1>2, <1>3, <1>4, <1>5, <1>6, <1>7, <1>8 DEF spp_server_thread

LEMMA SppRunsStep ==
  ASSUME TypeOK, Ordered, SppRuns, [Next]_vars
  PROVE  SppRuns'
<1> DEFINE Closing == todo # <<>> /\ todo[1] \in {"spp_close_server", "spp_join"}
<1> SUFFICES ASSUME spp'.pc \notin Idle
             PROVE  spp'.running \/ Closing'
  BY DEF SppRuns, Idle
<1>0. todo # <<>> => Head(todo) = todo[1]
  BY DEF TypeOK
<1>1. CASE Step
  <2>1. todo # <<>>
    BY <1>1, StepOf
  <2>2. CASE todo[1] = "spp_close_server"
    <3>1. todo' = Tail(todo)
      BY <1>1, <2>2, StepOf DEF spp_close_server, Done
    <3> QED
      BY <2>1, <2>2, <3>1, ServerThenJoin
  <2>3. CASE todo[1] = "spp_join"
    <3>1. Joined
      BY <1>1, <2>3, StepOf DEF spp_join
    <3> QED
      BY <3>1 DEF Joined, Idle, TypeOK, SppTypeOK
  <2>4. CASE todo[1] = "spp_close"
    <3>1. CloseReturns \/ (CloseClient /\ todo' = <<"spp_close_server", "spp_join">> \o Tail(todo))
      BY <1>1, <2>4, StepOf DEF spp_close, Goes
    <3>2. CASE CloseReturns
      BY <2>4, <3>2 DEF CloseReturns, SppRuns
    <3>3. CASE todo' = <<"spp_close_server", "spp_join">> \o Tail(todo)
      <4> DEFINE f == <<"spp_close_server", "spp_join">>
      <4>1. f \in Seq(Functions) /\ f # <<>> /\ f[1] = "spp_close_server"
        BY DEF Functions
      <4> HIDE DEF f
      <4>2. todo' = f \o Tail(todo)
        BY <3>3 DEF f
      <4>3. todo' # <<>> /\ todo'[1] = "spp_close_server"
        BY <2>1, <4>1, <4>2, ReplacedBy
      <4> QED
        BY <4>3
    <3> QED
      BY <3>1, <3>2, <3>3
  <2>5. CASE todo[1] \notin {"spp_close", "spp_close_server", "spp_join"}
    <3>1. UNCHANGED spp
      BY <1>1, <2>5, StepThreads DEF sppVars
    <3> QED
      BY <2>5, <3>1 DEF SppRuns
  <2> QED
    BY <2>2, <2>3, <2>4, <2>5
<1>2. CASE ~Step
  <2>1. CASE bt_spp_server_open
    BY <2>1 DEF bt_spp_server_open, Idle, TypeOK, SppTypeOK
  <2>2. CASE UNCHANGED sppVars \/ spp_server_thread \/ PeerConnects \/ PeerLeaves
    <3>1. spp'.running \/ (spp.pc \notin Idle /\ ~spp.running)
      BY <2>2, SppMoves DEF TypeOK
    <3>2. spp'.running \/ Closing
      BY <3>1 DEF SppRuns
    <3>3. Closing => UNCHANGED todo
      BY <1>2, TodoKept
    <3> QED
      BY <3>2, <3>3
  <2> QED
    BY <1>2, <2>1, <2>2, Besides
<1> QED
  BY <1>1, <1>2

-----------------------------------------------------------------------------
(* rk_bt_deinit.                                                           *)

LEMMA DeinitStep ==
  ASSUME TypeOK, Ordered, Restarting, SppRuns, Deinitializing, [Next]_vars
  PROVE  Deinitializing'
<1> DEFINE D ==
      /\ ~bluetoothd => Gone(Flags)
      /\ Left \cap {"hfp_close", "hfp_closed"} = {} => Gone({"hfp"})
      /\ Left \cap {"hfp_close", "rfcomm_join"} = {} => ~listener["rfcomm"].tid
      /\ "sink_close" \notin Left => Gone({"sink"})
      /\ "source_close" \notin Left => Gone({"source"})
      /\ Left \cap {"spp_close", "spp_close_server", "spp_join"} = {} => SppOver
      /\ "ble_stop" \notin Left => Gone({"ble"})
      /\ "client_close" \notin Left => Gone({"client"})
<1> SUFFICES ASSUME "kill_all" \in Left' PROVE D'
  BY DEF Deinitializing
<1>f. {"hfp"} \in SUBSET Flags /\ {"sink"} \in SUBSET Flags /\ {"source"} \in SUBSET Flags
      /\ {"ble"} \in SUBSET Flags /\ {"client"} \in SUBSET Flags /\ Flags \in SUBSET Flags
  BY DEF Flags, Audio
<1>1. CASE Step
  <2>1. todo # <<>> /\ StepLeaves /\ todo[1] \in Left /\ todo' # <<>>
    BY <1>1, StepsLeave, StepOf, NothingLeft
  <2>2. todo[1] \notin Finals
    BY <2>1, FinalEnds
  <2>3. Less
    BY <1>1, <2>2, StepsLess
  <2>4. "kill_all" \in Left /\ Left \subseteq Left' \cup {todo[1]}
    BY <2>1, LeavesList
  <2>5. D
    BY <2>4 DEF Deinitializing
  <2>6. todo[1] \notin {"_bt_close_server", "_bt_open_server"}
    BY <2>1, <2>4 DEF Restarting
  <2>7. bluetoothd' = bluetoothd
    <3>1. Head(todo) = todo[1]
      BY <2>1 DEF TypeOK
    <3> QED
      BY <1>1, <2>2, <2>6, <3>1 DEF Step, Does, start_source, start_sink, control_sink,
         start_hfp, start_hfp_sink, Restart, bt_hal_sink_close, bt_hal_source_close,
         bt_hal_hfp_close, HfpClosed, ListenerJoined, spp_close, spp_close_server, spp_join,
         ble, Change, _bt_close_server, _bt_open_server, bt_open, kill_all, state, processes,
         Finals, Starters, NoSource
  <2> DEFINE Clears(f) == \/ ~IsOpen(f) /\ UNCHANGED <<bt_control, excuse>>
                          \/ \E why \in Whys : SetFlags({}, IF IsOpen(f) THEN {f} ELSE {}, why)
  <2>8. ASSUME NEW f \in Flags, Clears(f) PROVE Gone({f})'
    <3>1. CASE IsOpen(f)
      BY <2>8, <3>1, FlagsSet DEF Gone
    <3>2. CASE ~IsOpen(f)
      <4>1. bt_control[f] => excuse[f] = "stale"
        BY <2>5, <3>2 DEF IsOpen, Gone
      <4> QED
        BY <2>3, <4>1 DEF Less, Gone
    <3> QED
      BY <3>1, <3>2
  <2> HIDE DEF Clears
  <2>9. ~bluetoothd' => Gone(Flags)'
    BY <1>f, <2>3, <2>5, <2>7, GoneStays
  <2>10. Left' \cap {"hfp_close", "hfp_closed"} = {} => Gone({"hfp"})'
    <3>1. CASE todo[1] = "hfp_close"
      <4> DEFINE s == <<"rfcomm_join", "hfp_closed">>
      <4>1. s \in Seq(Functions) /\ s # <<>> /\ Members(s) = {"rfcomm_join", "hfp_closed"}
        BY Two DEF Functions
      <4>2. todo' = s \o Tail(todo)
        BY <1>1, <3>1, StepOf DEF bt_hal_hfp_close, Goes
      <4> HIDE DEF s
      <4> QED
        BY <2>1, <4>1, <4>2, ReplacedBy
    <3>2. CASE todo[1] = "hfp_closed"
      <4>1. HfpClosed
        BY <1>1, <3>2, StepOf
      <4>2. Clears("hfp")
        BY <4>1 DEF HfpClosed, state, Clears, Whys
      <4> QED
        BY <1>f, <2>8, <4>2
    <3>3. CASE todo[1] \notin {"hfp_close", "hfp_closed"}
      BY <1>f, <2>3, <2>4, <2>5, <3>3, GoneStays
    <3> QED
      BY <3>1, <3>2, <3>3
  <2>11. Left' \cap {"hfp_close", "rfcomm_join"} = {} => ~listener'["rfcomm"].tid
    <3>0. "rfcomm" \in Listeners /\ ListenerTypeOK
      BY ListenersAssumption DEF TypeOK
    <3>1. CASE todo[1] = "hfp_close"
      <4> DEFINE s == <<"rfcomm_join", "hfp_closed">>
      <4>1. s \in Seq(Functions) /\ s # <<>> /\ Members(s) = {"rfcomm_join", "hfp_closed"}
        BY Two DEF Functions
      <4>2. todo' = s \o Tail(todo)
        BY <1>1, <3>1, StepOf DEF bt_hal_hfp_close, Goes
      <4> HIDE DEF s
      <4> QED
        BY <2>1, <4>1, <4>2, ReplacedBy
    <3>2. CASE todo[1] = "rfcomm_join"
      <4>1. Join("rfcomm")
        BY <1>1, <3>2, StepOf DEF ListenerJoined
      <4> QED
        BY <3>0, <4>1 DEF Join, ListenerTypeOK
    <3>3. CASE todo[1] \notin {"hfp_close", "rfcomm_join"}
      <4>1. SUFFICES ASSUME ~listener["rfcomm"].tid PROVE ~listener'["rfcomm"].tid
        BY <2>4, <2>5, <3>3
      <4>2. ~start_hfp /\ ~start_hfp_sink
        <5>1. Head(todo) = todo[1]
          BY <2>1 DEF TypeOK
        <5> QED
          BY <2>2, <5>1 DEF start_hfp, start_hfp_sink, Does, Finals, Starters, NoSource
      <4>3. CASE UNCHANGED listener
        BY <4>1, <4>3
      <4>4. ASSUME NEW l \in Listeners, listener' = Stopped(listener, l)
            PROVE  ~listener'["rfcomm"].tid
        BY <3>0, <4>1, <4>4 DEF Stopped, ListenerTypeOK
      <4>5. ASSUME NEW l \in Listeners, Join(l)
            PROVE  ~listener'["rfcomm"].tid
        BY <3>0, <4>1, <4>5 DEF Join, ListenerTypeOK
      <4> QED
        BY <1>1, <4>2, <4>3, <4>4, <4>5, StepThreads
    <3> QED
      BY <3>1, <3>2, <3>3
  <2>12. "sink_close" \notin Left' => Gone({"sink"})'
    <3>1. CASE todo[1] = "sink_close"
      <4>1. bt_hal_sink_close
        BY <1>1, <3>1, StepOf
      <4>2. Clears("sink")
        BY <4>1 DEF bt_hal_sink_close, state, Clears, Whys
      <4> QED
        BY <1>f, <2>8, <4>2
    <3>2. CASE todo[1] # "sink_close"
      BY <1>f, <2>3, <2>4, <2>5, <3>2, GoneStays
    <3> QED
      BY <3>1, <3>2
  <2>13. "source_close" \notin Left' => Gone({"source"})'
    <3>1. CASE todo[1] = "source_close"
      <4>1. bt_hal_source_close
        BY <1>1, <3>1, StepOf
      <4>2. Clears("source")
        BY <4>1 DEF bt_hal_source_close, state, Clears, Whys
      <4> QED
        BY <1>f, <2>8, <4>2
    <3>2. CASE todo[1] # "source_close"
      BY <1>f, <2>3, <2>4, <2>5, <3>2, GoneStays
    <3> QED
      BY <3>1, <3>2
  <2>14. Left' \cap {"spp_close", "spp_close_server", "spp_join"} = {} => SppOver'
    <3>1. CASE todo[1] = "spp_close"
      <4>1. spp_close
        BY <1>1, <3>1, StepOf
      <4>2. CASE CloseReturns
        <5>1. spp.pc \in Idle
          BY <3>1, <4>2 DEF CloseReturns, SppRuns
        <5> QED
          BY <4>2, <5>1 DEF CloseReturns, Idle, SppOver
      <4>3. CASE todo' = <<"spp_close_server", "spp_join">> \o Tail(todo)
        <5> DEFINE s == <<"spp_close_server", "spp_join">>
        <5>1. s \in Seq(Functions) /\ s # <<>> /\ Members(s) = {"spp_close_server", "spp_join"}
          BY Two DEF Functions
        <5>2. todo' = s \o Tail(todo)
          BY <4>3
        <5> HIDE DEF s
        <5> QED
          BY <2>1, <5>1, <5>2, ReplacedBy
      <4> QED
        BY <4>1, <4>2, <4>3 DEF spp_close, Goes
    <3>2. CASE todo[1] = "spp_close_server"
      <4>1. todo' = Tail(todo)
        BY <1>1, <3>2, StepOf DEF spp_close_server, Done
      <4>2. todo'[1] = "spp_join"
        BY <2>1, <3>2, <4>1, ServerThenJoin
      <4>3. todo' \in Seq(Functions)
        BY <2>1, LeavesList
      <4>4. 1 \in 1..Len(todo')
        BY <2>1, <4>3
      <4>5. "spp_join" \in Left'
        BY <4>2, <4>4 DEF Left, Members
      <4> QED
        BY <4>5
    <3>3. CASE todo[1] = "spp_join"
      <4>1. Joined
        BY <1>1, <3>3, StepOf DEF spp_join
      <4> QED
        BY <4>1 DEF Joined, SppOver, TypeOK, SppTypeOK
    <3>4. CASE todo[1] \notin {"spp_close", "spp_close_server", "spp_join"}
      <4>1. UNCHANGED sppVars
        BY <1>1, <3>4, StepThreads
      <4> QED
        BY <2>4, <2>5, <3>4, <4>1 DEF SppOver, sppVars
    <3> QED
      BY <3>1, <3>2, <3>3, <3>4
  <2>15. /\ "ble_stop" \notin Left' => Gone({"ble"})'
         /\ "client_close" \notin Left' => Gone({"client"})'
    <3>0. Head(todo) = todo[1]
      BY <2>1 DEF TypeOK
    <3>1. CASE todo[1] = "ble_stop"
      <4>1. ble
        BY <1>1, <3>1, StepOf
      <4>2. SetFlags({}, IF IsOpen("ble") THEN {"ble"} ELSE {}, Unexcused)
        BY <3>0, <3>1, <4>1 DEF ble, Change, Does
      <4>3. Gone({"ble"})'
        BY <1>f, <2>8, <4>2 DEF Clears, Whys
      <4>4. "client_close" \notin Left' => Gone({"client"})'
        BY <1>f, <2>3, <2>4, <2>5, <3>1, GoneStays
      <4> QED
        BY <4>3, <4>4
    <3>2. CASE todo[1] = "client_close"
      <4>1. ble
        BY <1>1, <3>2, StepOf
      <4>2. SetFlags({}, IF IsOpen("client") THEN {"client"} ELSE {}, Unexcused)
        BY <3>0, <3>2, <4>1 DEF ble, Change, Does
      <4>3. Gone({"client"})'
        BY <1>f, <2>8, <4>2 DEF Clears, Whys
      <4>4. "ble_stop" \notin Left' => Gone({"ble"})'
        BY <1>f, <2>3, <2>4, <2>5, <3>2, GoneStays
      <4> QED
        BY <4>3, <4>4
    <3>3. CASE todo[1] \notin {"ble_stop", "client_close"}
      BY <1>f, <2>3, <2>4, <2>5, <3>3, GoneStays
    <3> QED
      BY <3>1, <3>2, <3>3
  <2> QED
    BY <2>9, <2>10, <2>11, <2>12, <2>13, <2>14, <2>15
<1>2. CASE ~Step
  <2>1. CASE UNCHANGED todo /\ Left' = Left
    <3>1. Less
      BY <1>2, AlwaysLess
    <3>2. D
      BY <2>1 DEF Deinitializing
    <3>3. todo # <<>>
      <4>1. todo = <<>> => Left' = {}
        BY <2>1, NothingLeft
      <4> QED
        BY <4>1
    <3>4. ~bluetoothd' => Gone(Flags)'
      <4>1. CASE bluetoothd' = FALSE /\ Stale /\ UNCHANGED bt_control
        BY <4>1 DEF Stale, Gone
      <4>2. CASE UNCHANGED <<bluetoothd, excuse, bt_control>>
        BY <3>2, <4>2 DEF Gone
      <4> QED
        BY <1>2, <4>1, <4>2, Besides
    <3>5. SppOver => SppOver'
      BY <1>2, <3>3, Besides, SppMoves DEF TypeOK
    <3>6. listener'["rfcomm"].tid = listener["rfcomm"].tid
      BY <1>2, Besides
    <3> QED
      BY <1>f, <2>1, <3>1, <3>2, <3>4, <3>5, <3>6, GoneStays
  <2>2. CASE Starts(todo') /\ Left' = Members(todo') /\ UNCHANGED state
    <3>1. /\ bluetoothd'
          /\ {"hfp_close", "sink_close", "source_close", "spp_close", "ble_stop",
              "client_close"} \subseteq Left'
      BY <2>2 DEF Starts, state, processes
    <3> QED
      BY <3>1
  <2> QED
    BY <1>2, <2>1, <2>2, TodoKept
<1> QED
  BY <1>1, <1>2

LEMMA IsOffStep ==
  ASSUME TypeOK, Ordered, Deinitializing, IsOff, [Next]_vars
  PROVE  IsOff'
<1> SUFFICES ASSUME off' PROVE todo' = <<>> /\ OffIsOff'
  BY DEF IsOff
<1>1. CASE kill_all
  <2>1. /\ todo # <<>> /\ todo[1] = "kill_all" /\ todo' = Tail(todo)
        /\ bluetoothd' = FALSE /\ bluealsa' = {} /\ aplay' = FALSE
        /\ SetFlags({}, {"bt"}, Unexcused) /\ UNCHANGED <<sppVars, listener>>
    BY <1>1 DEF kill_all, Done, TypeOK
  <2>2. Gone(Flags \ {"bt"}) /\ ~listener["rfcomm"].tid /\ SppOver /\ todo' = <<>>
    BY <2>1, AtTheEnd
  <2>3. \A f \in Flags : bt_control'[f] => excuse'[f] = "stale"
    BY <2>1, <2>2, FlagsSet DEF Gone, Whys
  <2> QED
    BY <2>1, <2>2, <2>3 DEF OffIsOff, SppOver, sppVars
<1>2. CASE Step /\ ~kill_all
  <2>1. off' = off
    BY <1>2 DEF Step, Does, start_source, start_sink, control_sink, start_hfp,
       start_hfp_sink, bt_hal_sink_close, bt_hal_source_close, bt_hal_hfp_close, HfpClosed,
       ListenerJoined, spp_close, spp_close_server, spp_join, ble, Change,
       _bt_close_server, _bt_open_server, bt_open
  <2>2. todo # <<>>
    BY <1>2, StepOf
  <2> QED
    BY <2>1, <2>2 DEF IsOff
<1>3. CASE ~Step
  <2>1. UNCHANGED client
    BY <1>3, Besides
  <2>2. off /\ todo = <<>> /\ OffIsOff /\ todo' = <<>>
    BY <2>1 DEF IsOff, client
  <2>3. \A f \in Flags : bt_control'[f] => excuse'[f] = "stale"
    <3>1. \A f \in Flags : bt_control[f] => excuse[f] = "stale"
      BY <2>2 DEF OffIsOff
    <3>2. Stale => \A f \in Flags : bt_control[f] => excuse'[f] = "stale"
      BY DEF Stale
    <3>3. UNCHANGED bt_control /\ (UNCHANGED excuse \/ Stale)
      BY <1>3, Besides
    <3> QED
      BY <3>1, <3>2, <3>3
  <2>4. ~bluetoothd' /\ bluealsa' = {} /\ ~aplay' /\ ~listener'["rfcomm"].tid
    <3>1. ~bluetoothd /\ bluealsa = {} /\ ~aplay /\ ~listener["rfcomm"].tid
      BY <2>2 DEF OffIsOff
    <3>2. /\ UNCHANGED <<bluealsa, aplay>> /\ listener'["rfcomm"].tid = listener["rfcomm"].tid
          /\ bluetoothd' = bluetoothd \/ bluetoothd' = FALSE
      BY <1>3, Besides
    <3> QED
      BY <3>1, <3>2
  <2>5. SppOver'
    <3>1. SppOver
      BY <2>2 DEF OffIsOff, SppOver
    <3>2. UNCHANGED sppVars \/ spp_server_thread \/ PeerConnects \/ PeerLeaves
      BY <1>3, Besides
    <3> QED
      BY <3>1, <3>2, SppMoves DEF TypeOK
  <2> QED
    BY <2>2, <2>3, <2>4, <2>5 DEF OffIsOff, SppOver
<1> QED
  BY <1>1, <1>2, <1>3 DEF Step

-----------------------------------------------------------------------------
(* The theorems.                                                           *)

IInv ==
  /\ TypeOK /\ Ordered /\ Restarting /\ MakesWay /\ Bereft /\ Served /\ SourceAlone
  /\ SppRuns /\ Deinitializing /\ IsOff

LEMMA InitIInv == Init => IInv
<1> SUFFICES ASSUME Init PROVE IInv
  OBVIOUS
<1>1. todo = <<>> /\ Len(todo) = 0 /\ 1..0 = {}
  BY DEF Init
<1>2. Left = {}
  BY <1>1 DEF Left, Members
<1>3. TypeOK
  <2>1. SppTypeOK
    BY DEF Init, SppInit, SppTypeOK
  <2>2. ListenerTypeOK
    BY DEF Init, ListenerInit, ListenerTypeOK
  <2>3. todo \in Seq(Functions) /\ calls \in 0..MaxCalls
    BY MaxCallsAssumption DEF Init
  <2> QED
    BY <2>1, <2>2, <2>3 DEF Init, TypeOK, Excuses
<1>4. \A f \in Flags : ~bt_control[f]
  BY DEF Init
<1>5. Audio \subseteq Flags
  BY DEF Flags
<1> QED
  BY <1>1, <1>2, <1>3, <1>4, <1>5
     DEF IInv, Init, SppInit, Ordered, OrderedList, Restarting, MakesWay, Bereft, Served, SourceAlone,
         SppRuns, Idle, Deinitializing, IsOff

LEMMA NextIInv == IInv /\ [Next]_vars => IInv'
<1> SUFFICES ASSUME IInv, [Next]_vars PROVE IInv'
  OBVIOUS
<1>1. TypeOK' /\ Ordered' /\ Restarting' /\ MakesWay' /\ Bereft'
  BY TypeStep, OrderedStep, RestartingStep, MakesWayStep, BereftStep DEF IInv
<1>2. Served' /\ SourceAlone' /\ SppRuns' /\ Deinitializing' /\ IsOff'
  BY ServedStep, SourceAloneStep, SppRunsStep, DeinitStep, IsOffStep DEF IInv
<1> QED
  BY <1>1, <1>2 DEF IInv

(* The inductive invariant, of every reachable state: within a call the    *)
(* functions left of it (todo) tell what the close functions of bt_hal.cpp *)
(* and rk_bt_deinit have done so far.                                      *)
THEOREM InductiveInvariant == Spec => []IInv
  BY InitIInv, NextIInv, PTL DEF Spec

(* The states are of their types, and tid of the serial port server and of *)
(* both listeners is set exactly while there is a thread to join.          *)
THEOREM TypeCorrect == Spec => []TypeOK
<1>1. IInv => TypeOK
  BY DEF IInv
<1> QED
  BY <1>1, InductiveInvariant, PTL

(* Between calls an open audio profile is served by bluealsa, and the sink *)
(* by bluealsa-aplay, but for four things that rk_bt_..._open and _close   *)
(* do: a flag that has outlived bluetoothd; HFP after an open of the       *)
(* source or the sink, and the sink after one of HFP; the sink whose       *)
(* failed open set the flag (rk_bt_control); and the source whose bluealsa *)
(* is killed by the close of an HFP that had lost its own.                 *)
THEOREM AlwaysServed == Spec => []OpenIsServed
<1>1. IInv => OpenIsServed
  BY DEF IInv, Served, OpenIsServed
<1> QED
  BY <1>1, InductiveInvariant, PTL

(* When rk_bt_deinit has returned no flag counts, no process is left, HFP  *)
(* has no thread, and the serial port server none but those excused.       *)
THEOREM DeinitIsOff == Spec => []OffIsOff
<1>1. IInv => OffIsOff
  BY DEF IInv, IsOff, OffIsOff
<1> QED
  BY <1>1, InductiveInvariant, PTL
=============================================================================
