---------------------------- MODULE DataTemplate ----------------------------
(***************************************************************************)
(* The template engine (data_template/src/lib.rs and format_msg in         *)
(* main.rs): a message of a device is rewritten to the text of the         *)
(* template, its slots replaced by values of the message.                  *)
(*                                                                         *)
(* A text is a sequence of tokens: the slot <{label}>, the call <#name#>,  *)
(* a number, a letter inside a string, and the marks of JSON.              *)
(***************************************************************************)
EXTENDS Naturals, FiniteSets, SequencesExt

Slot(label) == <<"slot", label>>
Call(name) == <<"call", name>>
Number(n) == <<"number", n>>
Letter(x) == <<"letter", x>>
Mark(x) == <<"mark", x>>
Quote == Mark("quote")
Colon == Mark("colon")

IsSlot(token) == token[1] = "slot"
IsCall(token) == token[1] = "call"

(* What a line says, and the values of a message: null also stands for any
   other type and for a label that the message does not have.             *)
Json(values) == [kind |-> "json", values |-> values]
NotJson == [kind |-> "other"]
Str(text) == [type |-> "string", text |-> text]
Num(n) == [type |-> "number", num |-> n]
Null == [type |-> "null"]

Now == Number("now")

-----------------------------------------------------------------------------

(* String::replace: every occurrence. *)
Replace(text, token, by) ==
    FlattenSeq([i \in DOMAIN text |-> IF text[i] = token THEN by ELSE <<text[i]>>])

(* A string is put in quotes, its text unchanged. *)
Written(value) ==
    IF value.type = "string" THEN <<Quote>> \o value.text \o <<Quote>>
                             ELSE <<Number(value.num)>>

(* What a slot does to the text; a value that is neither a string nor a number
   leaves the slot where it is.  Mutant: every value is written as a string. *)
FillSlotQuoted(text, token, message) ==
    LET value == message.values[token[2]]
        plain == IF value.type = "string" THEN value.text ELSE <<Number(value.num)>>
    IN  IF ~IsSlot(token) \/ value.type = "null" THEN text
        ELSE Replace(text, token, <<Quote>> \o plain \o <<Quote>>)
FillSlot(text, token, message) ==
    LET value == message.values[token[2]]
    IN  IF ~IsSlot(token) \/ value.type = "null" THEN text
        ELSE Replace(text, token, Written(value))

(* get_call_result: TS is the only name; another is an error and stays. *)
FillCall(text, token) ==
    IF token = Call("TS") THEN Replace(text, token, <<Now>>) ELSE text

(* First the slots of the template, in their order, one after the other on
   the text so far, then the calls.                                        *)
Filled(template, message) ==
    LET slots == FoldLeft(LAMBDA text, token : FillSlot(text, token, message),
                          template, template)
    IN  FoldLeft(FillCall, slots, template)

-----------------------------------------------------------------------------
(* json::parse of a text that has the marks of the template *)

QuotesBefore(text, i) == Cardinality({j \in 1..i - 1 : text[j] = Quote})
Outside(text, i) == QuotesBefore(text, i) % 2 = 0

IsJson(text) ==
    /\ text # << >>
    /\ Outside(text, Len(text) + 1)
    /\ \A i \in DOMAIN text :
        Outside(text, i) => text[i][1] \in {"mark", "number"}
    /\ \A i \in 2..Len(text) :
        /\ text[i] = Quote /\ text[i - 1] = Quote => Outside(text, i - 1)
        /\ text[i] = Colon /\ Outside(text, i) => text[i - 1] = Quote

(* format_msg: the message must be JSON and so must the result, or it is an
   error.  Mutant: the result is not looked at.                            *)
Refusal == << >>
format_msg_unchecked(template, message) ==
    IF message.kind = "json" THEN Filled(template, message) ELSE Refusal
format_msg(template, message) ==
    IF message.kind = "json" /\ IsJson(Filled(template, message))
    THEN Filled(template, message) ELSE Refusal

-----------------------------------------------------------------------------
(* What the documentation says of it (README.md:192-243), for reference *)

(* Each slot stands for the value of its label, each TS for the time. *)
Expansion(token, message) ==
    IF IsSlot(token) THEN Written(message.values[token[2]])
    ELSE IF token = Call("TS") THEN <<Now>>
    ELSE <<token>>
Rewritten(template, message) ==
    FlattenSeq([i \in DOMAIN template |-> Expansion(template[i], message)])

Labels(template) == {template[i][2] : i \in {j \in DOMAIN template : IsSlot(template[j])}}

(* The message has a value for every slot, a string where the template has a
   name, and no string has a quote in it; the template has no other call.   *)
FitsTemplate(template, message) ==
    /\ message.kind = "json"
    /\ \A i \in DOMAIN template :
        /\ IsSlot(template[i]) =>
            LET value == message.values[template[i][2]]
            IN  /\ value.type # "null"
                /\ value.type = "string" => ~Contains(value.text, Quote)
                /\ i < Len(template) /\ template[i + 1] = Colon
                    => value.type = "string"
        /\ IsCall(template[i]) => template[i] = Call("TS")

(* No string of the message looks like a slot or a call of the template. *)
IsPlain(template, message) ==
    message.kind = "json" =>
        \A label \in Labels(template) :
            message.values[label].type = "string" =>
                \A i \in DOMAIN message.values[label].text :
                    ~Contains(template, message.values[label].text[i])
                    \/ message.values[label].text[i][1] = "mark"

(* The template itself is sound: with an empty string in every slot it is JSON,
   so that no slot lies in a string of the template, and it has no other call. *)
MakesJson(template) ==
    /\ IsJson(Rewritten(template, Json([label \in Labels(template) |-> Str(<< >>)])))
    /\ \A i \in DOMAIN template : IsCall(template[i]) => template[i] = Call("TS")

(* A quote in a string of the message is not followed by anything JSON could go
   on with, as it would be in  ","  or in  ":1 .                            *)
StopsAtQuotes(text) ==
    \A i \in 1..Len(text) - 1 :
        text[i] = Quote => text[i + 1] = Quote \/ text[i + 1][1] \notin {"mark", "number"}
StaysInQuotes(template, message) ==
    message.kind = "json" =>
        \A label \in Labels(template) :
            message.values[label].type = "string" =>
                StopsAtQuotes(message.values[label].text)

=============================================================================
