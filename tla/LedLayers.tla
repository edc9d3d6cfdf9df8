----------------------------- MODULE LedLayers -----------------------------
(***************************************************************************)
(* What the LED effect manager promises, without threads, lists, colours   *)
(* or clocks: a set of active effects, one of which is displayed at every  *)
(* refresh, the topmost.  Led implements it.                               *)
(***************************************************************************)
EXTENDS Integers

CONSTANTS
  Effects,  \* what clients may set: records with the fields used below
  Names,
  MaxCalls

VARIABLES
  active,   \* the effects that are set: records with an id and an effect
  shown,    \* the id of the displayed effect, 0 for none
  issued    \* number of API calls so far

layersVars == <<active, shown, issued>>

(* TEMP covers REALTIME, which covers STABLE.                              *)
LayerRank(layer) ==
  CASE layer = "TEMP" -> 2 [] layer = "REALTIME" -> 1 [] layer = "STABLE" -> 0

(* TEMP and REALTIME are one place each, STABLE has a place per name.      *)
SamePlace(a, layer, name) ==
  a.effect.layer = layer /\ (layer = "STABLE" => a.effect.name = name)

(* a covers b: by layer, then (in STABLE) by priority, then by recency.    *)
Covers(a, b) ==
  \/ LayerRank(a.effect.layer) > LayerRank(b.effect.layer)
  \/ /\ a.effect.layer = b.effect.layer
     /\ \/ a.effect.priority > b.effect.priority
        \/ a.effect.priority = b.effect.priority /\ a.id > b.id

IsTopOf(n, set) ==
  \/ set = {} /\ n = 0
  \/ \E a \in set : a.id = n /\ \A b \in set \ {a} : Covers(a, b)

LayersInit == active = {} /\ shown = 0 /\ issued = 0

Issue == issued < MaxCalls /\ issued' = issued + 1

Set(e) ==
  /\ Issue
  /\ active' = {a \in active : ~SamePlace(a, e.layer, e.name)}
                 \cup {[id |-> issued + 1, effect |-> e]}
  /\ UNCHANGED shown

Off(layer, name) ==
  /\ Issue
  /\ active' = {a \in active : ~SamePlace(a, layer, name)}
  /\ UNCHANGED shown

AllOff == Issue /\ active' = {} /\ UNCHANGED shown

(* Calls that concern the device and not the effects.                      *)
Other == Issue /\ UNCHANGED <<active, shown>>

(* Effects at the top whose timeout has come are dropped, never one below  *)
(* an effect that stays, and the topmost of the others is displayed.       *)
Refresh ==
  /\ \E gone \in SUBSET {a \in active : a.effect.timeout > 0} :
       /\ \A g \in gone, a \in active \ gone : ~Covers(a, g)
       /\ active' = active \ gone
  /\ \E n \in 0..MaxCalls : IsTopOf(n, active') /\ shown' = n
  /\ UNCHANGED issued

LayersNext ==
  \/ \E e \in Effects : Set(e)
  \/ \E layer \in {"TEMP", "REALTIME", "STABLE"}, name \in Names : Off(layer, name)
  \/ AllOff
  \/ Other
  \/ Refresh

LayersSpec == LayersInit /\ [][LayersNext]_layersVars
=============================================================================
