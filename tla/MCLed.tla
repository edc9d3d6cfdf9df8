------------------------------- MODULE MCLed -------------------------------
(* Instances of Led for TLC.                                               *)
EXTENDS Led

MCEffect(name, layer, type, priority, period, timeout, colors, colors_blink) ==
  [name |-> name, layer |-> layer, type |-> type, priority |-> priority,
   period |-> period, timeout |-> timeout, colors |-> colors,
   colors_blink |-> colors_blink]

(* Two names, equal and different priorities, the same name at two         *)
(* priorities, and effects of every type that expire in every layer.       *)
MCEffects ==
  { MCEffect("a", STABLE, NONE, 1, -1, -1, 5, 0),
    MCEffect("a", STABLE, NONE, 2, 20, 20, 6, 0),
    MCEffect("b", STABLE, BLINK, 1, 20, 40, 7, 0),
    MCEffect("a", TEMP, BREATH, 0, 80, 80, 200, 0),
    MCEffect("a", REALTIME, BLINK, 0, 20, -1, 9, 0) }

(* No timeouts: the thread sleeps for ever over what it displays.          *)
MCLastingEffects ==
  { MCEffect("a", STABLE, NONE, 1, -1, -1, 5, 0),
    MCEffect("b", STABLE, NONE, 2, -1, -1, 6, 0),
    MCEffect("a", TEMP, NONE, 0, -1, -1, 7, 0) }

MCNames == {"a", "b"}
=============================================================================
