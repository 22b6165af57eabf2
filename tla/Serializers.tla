------------------------------ MODULE Serializers ------------------------------
(***************************************************************************)
(* The two serializers between the texts that the collector makes of a pod *)
(* - "1/2" for the containers that are ready, "5 (2h ago)" for restarts -  *)
(* and the fields of its record: Unmarshal makes a field of a text, and    *)
(* Marshal a text of a field where a field is wanted as text.              *)
(*                                                                         *)
(* These are the parser's, parser/serializers/Ready.go and Restarts.go,    *)
(* which parser/main.go registers.  The caches do not have them:           *)
(* inv_k8s/main.go registers those of src/go/serializers, with the same    *)
(* Unmarshal and a Marshal that gives no text for any field.               *)
(*                                                                         *)
(* A text is what the serializers look for in it: numerals, the slash, the *)
(* parenthesis.                                                            *)
(***************************************************************************)
EXTENDS Integers

CONSTANTS
    IntLimit,       \* the first number too large for an int, 2^63 in the code
    FieldLimit,     \* the first too large for a field, 2^31 in the code
    Numbers,        \* the numbers in the texts, and their opposites
    Agos            \* what texts have from the parenthesis on

ASSUME SerializersAssumption ==
    /\ IntLimit \in Nat /\ FieldLimit \in Nat
    /\ 0 < FieldLimit /\ FieldLimit <= IntLimit
    /\ Numbers \subseteq Nat
    /\ "" \notin Agos

\* What stands where a number should: the text of one, or another text.
Numeral(n) == [number |-> TRUE, n |-> n]
Other == [number |-> FALSE, n |-> 0]

Numerals ==
    {Numeral(n) : n \in Numbers} \cup {Numeral(-n) : n \in Numbers} \cup {Other}

\* strconv.Atoi, whose error is not looked at: zero for what is no number, and
\* the number closest to one that is too long.
Atoi(numeral) ==
    IF ~numeral.number THEN 0
    ELSE IF numeral.n >= IntLimit THEN IntLimit - 1
    ELSE IF numeral.n < -IntLimit THEN -IntLimit
    ELSE numeral.n

\* The conversion of an int keeps its low bits.
int32(n) == ((n + FieldLimit) % (2 * FieldLimit)) - FieldLimit

\* A field that was not set.
nil == [field |-> "none"]

-----------------------------------------------------------------------------
(***************************************************************************)
(* Ready: numerals before and after the first slash, if there is one       *)
(***************************************************************************)
ReadyTexts ==
    [field : {"ready"}, slash : {TRUE}, count : Numerals, outof : Numerals]
    \cup [field : {"ready"}, slash : {FALSE}]

UnmarshalReady(text) ==
    IF ~text.slash THEN nil
    ELSE [field |-> "ready", count |-> int32(Atoi(text.count)),
          outof |-> int32(Atoi(text.outof))]

MarshalReady(state) ==
    [field |-> "ready", slash |-> TRUE,
     count |-> Numeral(state.count), outof |-> Numeral(state.outof)]

(***************************************************************************)
(* Restarts: the numeral, and the parenthesis with what follows it, if any *)
(***************************************************************************)
RestartsTexts == [field : {"restarts"}, count : Numerals, ago : Agos \cup {""}]

\* Mutation: the parenthesis is taken away.
UnmarshalRestartsBare(text) ==
    [field |-> "restarts", count |-> int32(Atoi(text.count)),
     ago |-> IF text.ago = "" THEN "" ELSE "2h ago"]

UnmarshalRestarts(text) ==
    [field |-> "restarts", count |-> int32(Atoi(text.count)), ago |-> text.ago]

\* Without a parenthesis all of the text is taken for the numeral.
MarshalRestarts(state) ==
    IF state.ago \in Agos \cup {""}
    THEN [field |-> "restarts", count |-> Numeral(state.count), ago |-> state.ago]
    ELSE [field |-> "restarts", count |-> Other, ago |-> ""]

-----------------------------------------------------------------------------
\* The serializer is that of the field's type.  An empty text for what is not set.
Unmarshal(text) ==
    CASE text.field = "ready"    -> UnmarshalReady(text)
      [] text.field = "restarts" -> UnmarshalRestarts(text)
      [] OTHER                   -> nil

Marshal(state) ==
    CASE state.field = "ready"    -> MarshalReady(state)
      [] state.field = "restarts" -> MarshalRestarts(state)
      [] OTHER                    -> nil

Texts == ReadyTexts \cup RestartsTexts

\* The numerals that are numbers of a field's width.
Fits(numeral) == numeral.number /\ numeral.n \in -FieldLimit .. FieldLimit - 1

\* A number is that of the numeral it was made of.
SaysNumeral(n, numeral) == Fits(numeral) => n = numeral.n

\* A field says what its text says, number by number.
Says(state, text) ==
    CASE text.field = "ready" /\ ~text.slash -> state = nil
      [] text.field = "ready" /\ text.slash  ->
             /\ state.field = "ready"
             /\ SaysNumeral(state.count, text.count)
             /\ SaysNumeral(state.outof, text.outof)
      [] text.field = "restarts" ->
             /\ state.field = "restarts"
             /\ SaysNumeral(state.count, text.count)
             /\ state.ago = text.ago
      [] OTHER -> state = nil

\* The texts that fields can say entirely.
WellFormed(text) ==
    CASE text.field = "ready"    -> text.slash /\ Fits(text.count) /\ Fits(text.outof)
      [] text.field = "restarts" -> Fits(text.count)
      [] OTHER                   -> TRUE
=============================================================================
