----------------------------- MODULE MCTextInput -----------------------------
(* Instances of TextInput for TLC. *)
EXTENDS TextInput

(* {<{l}>: [{"ts": <#TS#>, "t": <{t}>, "u": <{t}>}]}, its fixed text cut down. *)
GwTemplate == <<Mark("{"), Slot("l"), Colon, Call("TS"), Mark(","), Slot("t"),
                Mark(","), Slot("t"), Mark("}")>>

Sensor(name, value) == Json([l |-> name, t |-> value])
Name == Str(<<Letter("a")>>)
(* ","x":" *)
TwoMembers == Str(<<Quote, Mark(","), Quote, Letter("x"), Quote, Colon, Quote>>)

(* A good reading; no value; a number for the name; a quote in the name;
   quotes in a value that make two of it; a name that looks like a slot; not
   JSON; not UTF-8.                                                          *)
SomeMessages == {Sensor(Name, Num(27)), Sensor(Name, Null), Sensor(Num(1), Num(27)),
                 Sensor(Str(<<Quote>>), Num(27)), Sensor(Name, TwoMembers),
                 Sensor(Str(<<Slot("t")>>), Num(27)), NotJson, BadBytes}
OneMessage == {Sensor(Name, Num(27))}
OnlyPolite == {"polite"}

(* The template of the gateway is as the theorems of TextInputProofs want it. *)
ASSUME GwTemplateMakesJson == MakesJson(GwTemplate)
=============================================================================
