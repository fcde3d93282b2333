------------------------------ MODULE TextInput ------------------------------
(***************************************************************************)
(* Input from a text file (FileIf in interface.rs, main.rs:512-531) up to  *)
(* the data manager (main.rs:553-580): a program writes lines to the file, *)
(* the gateway reads the file once per second and empties it, and the text *)
(* goes through the template.                                              *)
(*                                                                         *)
(* read_to_string() reads until it meets the end of the file; the writer's *)
(* calls may come between its calls, and between it and the write() that   *)
(* empties the file.                                                       *)
(***************************************************************************)
EXTENDS DataTemplate

CONSTANTS
    Template,    (* msg.template of the configuration                     *)
    Messages,    (* what lines may say                                    *)
    Modes,       (* how the writer goes about it                          *)
    MaxLines,    (* bound: lines written                                  *)
    MaxFailures  (* bound: attempts to empty the file that fail           *)

(* append     echo .. >> file, whenever it likes
   overwrite  echo .. > file, whenever it likes
   polite     echo .. > file, when the file has been emptied (README.md:52) *)
AllModes == {"append", "overwrite", "polite"}

(* A line that is not valid UTF-8. *)
BadBytes == [kind |-> "badBytes"]

(* A sequence of tokens. *)
IsText(text) == text \in Seq(Range(text))

ASSUME TextAssumption ==
    /\ IsText(Template)
    /\ \A message \in Messages :
        message.kind = "json" =>
            \A label \in Labels(Template) :
                message.values[label].type = "string" => IsText(message.values[label].text)
    /\ Modes \subseteq AllModes
    /\ MaxLines \in Nat
    /\ MaxFailures \in Nat

Line(n, message) == [no |-> n, says |-> message]
Lines == [no : 1..MaxLines, says : Messages]

VARIABLES
    mode,      (* how the writer works                                      *)
    writing,   (* the writer has the file open                              *)
    written,   (* lines written so far                                      *)
    file,      (* the lines in the file                                     *)
    readPc,    (* where FileIf.read is                                      *)
    got,       (* lines it has read so far                                  *)
    offset,    (* how far into the file it is                               *)
    rawQ,      (* original_data channel: a message is a sequence of lines   *)
    datumQ,    (* what the data manager gets: the message and its new text  *)
    failures,  (* attempts to empty the file that failed                    *)
    taken,     (* history: the numbers of the lines read, in their order    *)
    refused,   (* history: messages the template refused                    *)
    wiped,     (* history: lines the gateway removed without reading them   *)
    late       (* history: lines written after the end of the file was met  *)

vars == <<mode, writing, written, file, readPc, got, offset, rawQ, datumQ,
          failures, taken, refused, wiped, late>>

TextTypeOK ==
    /\ mode \in Modes
    /\ writing \in BOOLEAN
    /\ written \in 0..MaxLines
    /\ file \in Seq(Lines)
    /\ readPc \in {"read", "empty"}
    /\ got \in Seq(Lines)
    /\ offset \in 0..MaxLines
    /\ rawQ \in Seq(Seq(Lines) \ {<< >>})
    /\ \A i \in DOMAIN datumQ : datumQ[i].from \in Lines
    /\ failures \in 0..MaxFailures
    /\ taken \in Seq(1..MaxLines)
    /\ refused \subseteq Seq(Lines)
    /\ wiped \subseteq 1..MaxLines
    /\ late \subseteq 1..MaxLines

Init ==
    /\ mode \in Modes
    /\ writing = FALSE
    /\ written = 0
    /\ file = << >>
    /\ readPc = "read"
    /\ got = << >>
    /\ offset = 0
    /\ rawQ = << >>
    /\ datumQ = << >>
    /\ failures = 0
    /\ taken = << >>
    /\ refused = {}
    /\ wiped = {}
    /\ late = {}

Numbers(lines) == [i \in DOMAIN lines |-> lines[i].no]

-----------------------------------------------------------------------------
(* The program that writes the file *)

(* Opening it for overwriting empties it. *)
OpenFile ==
    /\ mode \in {"overwrite", "polite"}
    /\ ~writing
    /\ written < MaxLines
    /\ mode = "polite" => file = << >>
    /\ writing' = TRUE
    /\ file' = << >>
    /\ UNCHANGED <<mode, written, readPc, got, offset, rawQ, datumQ, failures,
                   taken, refused, wiped, late>>

WriteLine(message) ==
    /\ written < MaxLines
    /\ mode = "append" \/ writing
    /\ writing' = FALSE
    /\ written' = written + 1
    /\ file' = Append(file, Line(written + 1, message))
    /\ late' = IF readPc = "empty" THEN late \cup {written + 1} ELSE late
    /\ UNCHANGED <<mode, readPc, got, offset, rawQ, datumQ, failures, taken,
                   refused, wiped>>

-----------------------------------------------------------------------------
(* original_data_read_thread, text_file *)

(* A read() takes what is there.  Mutant: the first one meets the end, as
   read_line() would after the first line.                                 *)
Chunk(lines, from) == SubSeq(lines, from + 1, Len(lines))
AtEndAfterOne(lines, from) == from >= 1 \/ from >= Len(lines)
AtEnd(lines, from) == from >= Len(lines)

ReadChunk ==
    /\ readPc = "read"
    /\ ~AtEnd(file, offset)
    /\ got' = got \o Chunk(file, offset)
    /\ offset' = Len(file)
    /\ UNCHANGED <<mode, writing, written, file, readPc, rawQ, datumQ, failures,
                   taken, refused, wiped, late>>

IsUtf8(lines) == \A i \in DOMAIN lines : lines[i].says # BadBytes

(* With bytes that are not UTF-8 read() returns an error and the thread tries
   again at once, the file as it is.                                         *)
ReadEnd ==
    /\ readPc = "read"
    /\ AtEnd(file, offset)
    /\ IF IsUtf8(got)
       THEN readPc' = "empty" /\ UNCHANGED <<got, offset>>
       ELSE got' = << >> /\ offset' = 0 /\ UNCHANGED readPc
    /\ UNCHANGED <<mode, writing, written, file, rawQ, datumQ, failures, taken,
                   refused, wiped, late>>

(* An empty text is not sent.  Mutant: it is. *)
MessagesOfAny(lines) == <<lines>>
MessagesOf(lines) == IF lines = << >> THEN << >> ELSE <<lines>>

(* The file after fs::write(filename, "").  Mutant: the file is left alone. *)
FileLeftSame(lines) == lines
FileLeft(lines) == << >>

(* The file is emptied, or cannot be, which is ignored; what was read is sent. *)
EmptyFile ==
    /\ readPc = "empty"
    /\ readPc' = "read"
    /\ \/ /\ file' = FileLeft(file)
          /\ wiped' = wiped \cup (Range(Numbers(file)) \ Range(taken \o Numbers(got)))
          /\ UNCHANGED failures
       \/ /\ failures < MaxFailures
          /\ failures' = failures + 1
          /\ UNCHANGED <<file, wiped>>
    /\ rawQ' = rawQ \o MessagesOf(got)
    /\ taken' = taken \o Numbers(got)
    /\ got' = << >>
    /\ offset' = 0
    /\ UNCHANGED <<mode, writing, written, datumQ, refused, late>>

-----------------------------------------------------------------------------
(* original_data_handle_thread *)

(* What becomes of a line; several lines in one text are not JSON. *)
Outcome == [message \in Messages |-> format_msg(Template, message)]
OutcomeOf(lines) == IF Len(lines) = 1 THEN Outcome[lines[1].says] ELSE Refusal

(* A message that is refused is gone.  Mutant: it is tried again. *)
LeftInQueueRetry(q) == IF OutcomeOf(Head(q)) = Refusal THEN q ELSE Tail(q)
LeftInQueue(q) == Tail(q)

HandleMessage ==
    /\ rawQ # << >>
    /\ rawQ' = LeftInQueue(rawQ)
    /\ \/ /\ OutcomeOf(Head(rawQ)) # Refusal
          /\ datumQ' = Append(datumQ, [from |-> Head(rawQ)[1],
                                       text |-> OutcomeOf(Head(rawQ))])
          /\ UNCHANGED refused
       \/ /\ OutcomeOf(Head(rawQ)) = Refusal
          /\ refused' = refused \cup {Head(rawQ)}
          /\ UNCHANGED datumQ
    /\ UNCHANGED <<mode, writing, written, file, readPc, got, offset, failures,
                   taken, wiped, late>>

-----------------------------------------------------------------------------

ReadThread == ReadChunk \/ ReadEnd \/ EmptyFile

Next ==
    \/ OpenFile
    \/ \E message \in Messages : WriteLine(message)
    \/ ReadThread
    \/ HandleMessage

Spec == Init /\ [][Next]_vars

(* Both threads keep going. *)
FairSpec == Spec /\ WF_vars(ReadThread) /\ WF_vars(HandleMessage)

-----------------------------------------------------------------------------
(* Properties *)

(* The gateway removes a line that it has not read only in one case: the line
   was written between the read that met the end of the file and the write
   that empties it.  A program that overwrites may lose one more way, when it
   does so while the file is being read.                                    *)
WipedOnlyInWindow == mode # "overwrite" => wiped \subseteq late

(* Lines are read in their order; the reader goes back in it, to take lines a
   second time, at most once for each time the file could not be emptied.   *)
StepsBack(numbers) == {i \in 1..Len(numbers) - 1 : numbers[i] >= numbers[i + 1]}
LinesInOrder == Cardinality(StepsBack(taken)) <= failures

(* A message comes out as the template with every slot replaced at once by
   the value of its label, though the code replaces them one by one in the
   text so far.  The exception is a string that itself looks like a slot.   *)
WrittenAsTemplate ==
    \A i \in DOMAIN datumQ :
        IsPlain(Template, datumQ[i].from.says)
            /\ FitsTemplate(Template, datumQ[i].from.says) =>
            datumQ[i].text = Rewritten(Template, datumQ[i].from.says)

(* A line is refused only because it does not fit the template or because it
   was read together with another, which does not happen to a program that
   waits for the file to be emptied.                                        *)
NoneRefusedThatFits ==
    \A lines \in refused :
        /\ mode = "polite" => Len(lines) = 1
        /\ Len(lines) = 1 /\ IsPlain(Template, lines[1].says)
             => ~FitsTemplate(Template, lines[1].says)
(* And a line that is passed on does fit it, unless one of its strings has a
   quote after which it goes on as JSON: main.rs:241 puts the string in quotes
   as it is, and the result may be JSON, with members that were not sent.   *)
NonePassedThatDoesNotFit ==
    \A i \in DOMAIN datumQ :
        IsPlain(Template, datumQ[i].from.says) /\ StaysInQuotes(Template, datumQ[i].from.says)
            => FitsTemplate(Template, datumQ[i].from.says)
RefusedForCause == NoneRefusedThatFits /\ NonePassedThatDoesNotFit

(* Each line, unless it is overwritten by the program that wrote it, is read and
   passed on or refused in the end.  Two things may happen to it instead: the
   gateway removes it unread, which WipedOnlyInWindow confines; or it stays in
   the file for ever, with bytes that are not UTF-8 in it (main.rs:526).      *)
Handled(n) ==
    \/ \E i \in DOMAIN datumQ : datumQ[i].from.no = n
    \/ \E lines \in refused : n \in Range(Numbers(lines))
Stuck(n) == n \in Range(Numbers(file)) /\ ~IsUtf8(file)
EveryLineIsHandled ==
    \A n \in 1..MaxLines :
        written >= n /\ mode # "overwrite"
            ~> (Handled(n) \/ n \in wiped \/ []Stuck(n))

(* README.md:52, the gateway reads and empties the file every second, and the
   next data are written after that: written so, a line is never lost.      *)
PoliteLinesAreRead == mode = "polite" => wiped = {}

=============================================================================
