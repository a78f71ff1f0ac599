-------------------------- MODULE MCKeypadConsole --------------------------
(* Two keys and the key that can not be converted, queues of two keys and  *)
(* two notify entries: Ctrl-A calls f and g, plain A only g.               *)
EXTENDS KeypadConsole

Key(code, shift) == [code |-> code, shift |-> shift]
A == Key("a", "none")
CtrlA == Key("a", "ctrl")
AnyA == Key("a", AnyShift)

MCInputs == {A, CtrlA, NoKey}
MCBookings == {[key |-> CtrlA, fn |-> "f"], [key |-> AnyA, fn |-> "g"]}
MCStates == {{}, {"exposed"}}

MCOneKey == {CtrlA}
MCNone == {{}}
=============================================================================
