--------------------------- MODULE K8sPipelineProofs ---------------------------
(***************************************************************************)
(* Records reach the cache of their kind only, and their fields say what   *)
(* the collector's text said, for every choice of links, texts and         *)
(* crashes.  What makes it inductive is where messages may be going        *)
(* (Addressed): to the parser or to the cache of the link they are of,     *)
(* which no other link has, since areas are not shared and no cache has    *)
(* the name of a parser; and what they have on each side of the parser     *)
(* (Carried).                                                              *)
(***************************************************************************)
EXTENDS K8sPipeline, TLAPS

-----------------------------------------------------------------------------
(***************************************************************************)
(* The table of the links                                                  *)
(***************************************************************************)

\* No two links of Links_k8s.go have one area.
LEMMA AreasDiffer == \A k, l \in K8sLinks : k8sArea[k] = k8sArea[l] => k = l
  BY SMTT(60) DEF K8sLinks, k8sArea, k8sLinkMap

\* No cache has the name of a parser.
LEMMA CacheNames == \A l \in K8sLinks : CacheName(l) \notin {"KPars", "NPars", "GPars"}
  BY DEF CacheName, K8sLinks

LEMMA OtherLinks ==
    /\ "NetDev" \notin K8sLinks /\ "GPU" \notin K8sLinks /\ "K8sC" \notin K8sLinks
    /\ "K8sClust" \in K8sLinks
  BY DEF K8sLinks

LEMMA ParserOf ==
    /\ \A l \in K8sLinks : Parser(l) = Service("KPars", k8sArea[l])
    /\ Parser("NetDev") = Service("NPars", 0)
    /\ Parser("GPU") = Service("GPars", 2)
  BY OtherLinks DEF Parser

LEMMA CacheOf == \A l \in K8sLinks : Cache(l) = Service(CacheName(l), k8sArea[l])
  BY OtherLinks DEF Cache

\* The parser of a link is no other link's that a program activates.
LEMMA ParsersDiffer ==
    \A l \in K8sLinks, p \in ParserLinks : Parser(p) = Parser(l) => p = l
<1> SUFFICES ASSUME NEW l \in K8sLinks, NEW p \in ParserLinks, Parser(p) = Parser(l)
             PROVE  p = l
  OBVIOUS
<1>1. CASE p \in K8sLinks
  BY <1>1, ParserOf, AreasDiffer DEF Service
<1>2. CASE p \in {"NetDev", "GPU"}
  BY <1>2, ParserOf DEF Service
<1> QED
  BY <1>1, <1>2 DEF ParserLinks

\* No parser has the address of a cache.
LEMMA ParserIsNoCache ==
    \A l \in K8sLinks, p \in ParserLinks : Parser(p) # Cache(l)
<1> SUFFICES ASSUME NEW l \in K8sLinks, NEW p \in ParserLinks
             PROVE  Parser(p).name # Cache(l).name
  OBVIOUS
<1>1. Cache(l).name \notin {"KPars", "NPars", "GPars"}
  BY CacheOf, CacheNames DEF Service
<1>2. Parser(p).name \in {"KPars", "NPars", "GPars"}
  BY ParserOf DEF Service, ParserLinks
<1> QED
  BY <1>1, <1>2

-----------------------------------------------------------------------------
(***************************************************************************)
(* The serializers                                                         *)
(***************************************************************************)
\* What fits a field passes through an int and its conversion as it is.
LEMMA FieldKept == \A n \in -FieldLimit .. FieldLimit - 1 : int32(Atoi(Numeral(n))) = n
<1> SUFFICES ASSUME NEW n \in -FieldLimit .. FieldLimit - 1 PROVE int32(Atoi(Numeral(n))) = n
  OBVIOUS
<1>1. FieldLimit \in Nat /\ FieldLimit > 0 /\ IntLimit \in Nat /\ FieldLimit <= IntLimit
  BY SerializersAssumption
<1>2. Atoi(Numeral(n)) = n
  BY <1>1 DEF Atoi, Numeral
<1>3. \A a, b \in Nat : b > 0 /\ a < b => a % b = a
  BY Z3
<1>4. (n + FieldLimit) % (2 * FieldLimit) = n + FieldLimit
  <2>1. n + FieldLimit \in Nat /\ 2 * FieldLimit \in Nat /\ n + FieldLimit < 2 * FieldLimit
    BY <1>1
  <2> QED
    BY <1>1, <1>3, <2>1
<1> QED
  BY <1>1, <1>2, <1>4 DEF int32

\* The conversion gives a number that fits.
LEMMA FieldFits == \A n \in Int : int32(n) \in -FieldLimit .. FieldLimit - 1
<1> SUFFICES ASSUME NEW n \in Int PROVE int32(n) \in -FieldLimit .. FieldLimit - 1
  OBVIOUS
<1>1. FieldLimit \in Nat /\ FieldLimit > 0
  BY SerializersAssumption
<1>2. \A a \in Int, b \in Nat : b > 0 => a % b \in 0 .. b - 1
  BY SMT
<1>3. (n + FieldLimit) % (2 * FieldLimit) \in 0 .. 2 * FieldLimit - 1
  <2>1. n + FieldLimit \in Int /\ 2 * FieldLimit \in Nat /\ 2 * FieldLimit > 0
    BY <1>1
  <2> QED
    BY <1>2, <2>1
<1> QED
  BY <1>1, <1>3 DEF int32

\* What an int may be made of, and is.
LEMMA NumeralType == Numerals \subseteq [number : BOOLEAN, n : Int]
<1>1. \A n \in Numbers : n \in Int
  <2>1. Numbers \subseteq Nat
    BY SerializersAssumption
  <2> QED
    BY <2>1
<1>2. \A n \in Int : -n \in Int
  OBVIOUS
<1>3. \A n \in Int : Numeral(n) \in [number : BOOLEAN, n : Int]
  BY DEF Numeral
<1>4. Other \in [number : BOOLEAN, n : Int]
  BY DEF Other
<1> QED
  BY <1>1, <1>2, <1>3, <1>4 DEF Numerals

LEMMA AtoiInt == \A x \in Numerals : Atoi(x) \in Int
<1> SUFFICES ASSUME NEW x \in Numerals PROVE Atoi(x) \in Int
  OBVIOUS
<1>1. x.n \in Int
  BY NumeralType
<1>2. IntLimit \in Int
  <2>1. IntLimit \in Nat
    BY SerializersAssumption
  <2> QED
    BY <2>1
<1> QED
  BY <1>1, <1>2 DEF Atoi

\* The fields that the serializers make.
States == {nil} \cup [field : {"ready"}, count : -FieldLimit .. FieldLimit - 1,
                      outof : -FieldLimit .. FieldLimit - 1]
                \cup [field : {"restarts"}, count : -FieldLimit .. FieldLimit - 1,
                      ago : Agos \cup {""}]

LEMMA Unmarshalled == \A t \in Texts \cup {nil} : Unmarshal(t) \in States
<1>1. ASSUME NEW t \in ReadyTexts PROVE Unmarshal(t) \in States
  <2>1. t.slash => int32(Atoi(t.count)) \in -FieldLimit .. FieldLimit - 1
                   /\ int32(Atoi(t.outof)) \in -FieldLimit .. FieldLimit - 1
    BY <1>1, AtoiInt, FieldFits DEF ReadyTexts
  <2> QED
    BY <1>1, <2>1 DEF ReadyTexts, Unmarshal, UnmarshalReady, States
<1>2. ASSUME NEW t \in RestartsTexts PROVE Unmarshal(t) \in States
  <2>1. int32(Atoi(t.count)) \in -FieldLimit .. FieldLimit - 1
    BY <1>2, AtoiInt, FieldFits DEF RestartsTexts
  <2> QED
    BY <1>2, <2>1 DEF RestartsTexts, Unmarshal, UnmarshalRestarts, States
<1>3. Unmarshal(nil) \in States
  BY DEF nil, Unmarshal, States
<1> QED
  BY <1>1, <1>2, <1>3 DEF Texts

\* The field made of a text says what the text says.
LEMMA SaysWhatIsRead == \A t \in Texts \cup {nil} : Says(Unmarshal(t), t)
<1>0. \A x \in Numerals : SaysNumeral(int32(Atoi(x)), x)
  <2> SUFFICES ASSUME NEW x \in Numerals, Fits(x) PROVE int32(Atoi(x)) = x.n
    BY DEF SaysNumeral
  <2>1. x = Numeral(x.n)
    BY NumeralType DEF Fits, Numeral
  <2>2. x.n \in -FieldLimit .. FieldLimit - 1
    BY DEF Fits
  <2> QED
    BY <2>1, <2>2, FieldKept
<1>1. ASSUME NEW t \in ReadyTexts PROVE Says(Unmarshal(t), t)
  <2>1. CASE t.slash
    BY <1>0, <1>1, <2>1 DEF ReadyTexts, Unmarshal, UnmarshalReady, Says
  <2>2. CASE ~t.slash
    BY <1>1, <2>2 DEF ReadyTexts, Unmarshal, UnmarshalReady, Says
  <2> QED
    BY <2>1, <2>2
<1>2. ASSUME NEW t \in RestartsTexts PROVE Says(Unmarshal(t), t)
  BY <1>0, <1>2 DEF RestartsTexts, Unmarshal, UnmarshalRestarts, Says
<1>3. Says(Unmarshal(nil), nil)
  BY DEF nil, Unmarshal, Says
<1> QED
  BY <1>1, <1>2, <1>3 DEF Texts

\* The text made of a field gives that field.
LEMMA ReadBack == \A s \in States : Unmarshal(Marshal(s)) = s
<1>1. Unmarshal(Marshal(nil)) = nil
  BY DEF nil, Unmarshal, Marshal
<1>2. ASSUME NEW s \in [field : {"ready"}, count : -FieldLimit .. FieldLimit - 1,
                        outof : -FieldLimit .. FieldLimit - 1]
      PROVE  Unmarshal(Marshal(s)) = s
  <2>1. Marshal(s) = [field |-> "ready", slash |-> TRUE,
                      count |-> Numeral(s.count), outof |-> Numeral(s.outof)]
    BY <1>2 DEF Marshal, MarshalReady
  <2>2. Unmarshal(Marshal(s)) = [field |-> "ready", count |-> int32(Atoi(Numeral(s.count))),
                                 outof |-> int32(Atoi(Numeral(s.outof)))]
    BY <2>1 DEF Unmarshal, UnmarshalReady
  <2> QED
    BY <1>2, <2>2, FieldKept
<1>3. ASSUME NEW s \in [field : {"restarts"}, count : -FieldLimit .. FieldLimit - 1,
                        ago : Agos \cup {""}]
      PROVE  Unmarshal(Marshal(s)) = s
  <2>1. Marshal(s) = [field |-> "restarts", count |-> Numeral(s.count), ago |-> s.ago]
    BY <1>3 DEF Marshal, MarshalRestarts
  <2>2. Unmarshal(Marshal(s)) = [field |-> "restarts", count |-> int32(Atoi(Numeral(s.count))),
                                 ago |-> s.ago]
    <3> DEFINE written == [field |-> "restarts", count |-> Numeral(s.count), ago |-> s.ago]
    <3>1. written.field = "restarts" /\ written.count = Numeral(s.count) /\ written.ago = s.ago
      OBVIOUS
    <3> HIDE DEF written
    <3>2. Unmarshal(written) = UnmarshalRestarts(written)
      BY <3>1 DEF Unmarshal
    <3>3. UnmarshalRestarts(written) = [field |-> "restarts",
              count |-> int32(Atoi(Numeral(s.count))), ago |-> s.ago]
      BY <3>1 DEF UnmarshalRestarts
    <3> QED
      BY <2>1, <3>2, <3>3 DEF written
  <2> QED
    BY <1>3, <2>2, FieldKept
<1> QED
  BY <1>1, <1>2, <1>3 DEF States

\* The field made of a text that is well-formed gives that text.
LEMMA TextBack == \A t \in Texts \cup {nil} : WellFormed(t) => Marshal(Unmarshal(t)) = t
<1>0. \A x \in Numerals : Fits(x) => Numeral(int32(Atoi(x))) = x
  <2> SUFFICES ASSUME NEW x \in Numerals, Fits(x) PROVE Numeral(int32(Atoi(x))) = x
    OBVIOUS
  <2>1. x = Numeral(x.n)
    BY NumeralType DEF Fits, Numeral
  <2>2. x.n \in -FieldLimit .. FieldLimit - 1
    BY DEF Fits
  <2> QED
    BY <2>1, <2>2, FieldKept
<1>1. ASSUME NEW t \in ReadyTexts, WellFormed(t) PROVE Marshal(Unmarshal(t)) = t
  <2>1. t.slash /\ Fits(t.count) /\ Fits(t.outof)
    BY <1>1 DEF ReadyTexts, WellFormed
  <2>2. Marshal(Unmarshal(t)) = [field |-> "ready", slash |-> TRUE,
            count |-> Numeral(int32(Atoi(t.count))), outof |-> Numeral(int32(Atoi(t.outof)))]
    BY <1>1, <2>1 DEF ReadyTexts, Unmarshal, UnmarshalReady, Marshal, MarshalReady
  <2> QED
    BY <1>0, <1>1, <2>1, <2>2 DEF ReadyTexts
<1>2. ASSUME NEW t \in RestartsTexts, WellFormed(t) PROVE Marshal(Unmarshal(t)) = t
  <2>1. Fits(t.count) /\ t.ago \in Agos \cup {""}
    BY <1>2 DEF RestartsTexts, WellFormed
  <2>2. Marshal(Unmarshal(t)) = [field |-> "restarts",
            count |-> Numeral(int32(Atoi(t.count))), ago |-> t.ago]
    BY <1>2, <2>1 DEF RestartsTexts, Unmarshal, UnmarshalRestarts, Marshal, MarshalRestarts
  <2> QED
    BY <1>0, <1>2, <2>1, <2>2 DEF RestartsTexts
<1>3. Marshal(Unmarshal(nil)) = nil
  BY DEF nil, Unmarshal, Marshal
<1> QED
  BY <1>1, <1>2, <1>3 DEF Texts

-----------------------------------------------------------------------------
(***************************************************************************)
(* The invariant                                                           *)
(***************************************************************************)
\* A message goes to the parser or to the cache of what it is of, the link
\* followed or the cluster's; what the caches hold was for them.
Addressed ==
    /\ \A m \in mail : /\ m.of \in {link, "K8sClust"}
                       /\ m.to \in {Parser(m.of), Cache(m.of)}
    /\ \A m \in cache : m.of \in {link, "K8sClust"} /\ m.to = Cache(m.of)

\* What is of the link followed has the text on its way to the parser, and the
\* field made of it behind the parser.
Carried ==
    /\ text \in Texts \cup {nil}
    /\ link = "K8sClust" => text = nil
    /\ \A m \in mail : m.of = link =>
           m.has = IF m.to = Parser(link) THEN text ELSE Unmarshal(text)
    /\ \A m \in cache : m.of = link => m.has = Unmarshal(text)

Inv ==
    /\ link \in K8sLinks
    /\ targets \subseteq {link}
    /\ Addressed
    /\ Carried

LEMMA InvInit == Init => Inv
  BY PipelineAssumption DEF Init, Inv, Addressed, Carried

LEMMA InvNext == Inv /\ [Next]_vars => Inv'
<1> SUFFICES ASSUME Inv, [Next]_vars PROVE Inv'
  OBVIOUS
<1> USE DEF Inv, Addressed, Carried
<1>0. Parser(link) # Cache(link)
  BY ParserIsNoCache DEF ParserLinks
<1>1. ASSUME NEW p \in Programs, Start(p) PROVE Inv'
  BY <1>1 DEF Start
<1>2. ASSUME NEW p \in Programs, Stop(p) PROVE Inv'
  BY <1>2 DEF Stop
<1>3. CASE PostTarget
  BY <1>3 DEF PostTarget, newK8sTarget
<1>4. CASE publish
  <2>1. Unmarshal(nil) = nil
    BY DEF Unmarshal, nil
  <2>2. mail' = mail \cup {[to |-> Cache("K8sClust"), of |-> "K8sClust", has |-> nil]}
    BY <1>4 DEF publish, Send
  <2> QED
    BY <1>0, <1>4, <2>1, <2>2 DEF publish
<1>5. ASSUME NEW target \in targets, Poll(target) PROVE Inv'
  BY <1>5 DEF Poll, Send
<1>6. ASSUME NEW m \in mail, Parse(m) PROVE Inv'
  <2>1. PICK l \in ParserLinks :
            /\ Parser(l) = m.to
            /\ mail' = (mail \ {m}) \cup
                           {[to |-> Cache(l), of |-> l, has |-> Unmarshal(m.has)]}
    BY <1>6 DEF Parse, Parsers
  <2>2. m.of \in K8sLinks
    BY OtherLinks
  <2>3. l = m.of
    BY <2>1, <2>2, ParsersDiffer, ParserIsNoCache
  <2>4. m.of = link => m.has = text
    BY <2>1, <2>3
  <2> QED
    BY <1>0, <1>6, <2>1, <2>3, <2>4 DEF Parse
<1>7. ASSUME NEW m \in mail, Store(m) PROVE Inv'
  <2>1. PICK l \in K8sLinks : Cache(l) = m.to
    BY <1>7 DEF Store, Caches, K8sInventoryLinks
  <2>2. m.of \in ParserLinks
    BY OtherLinks DEF ParserLinks
  <2>3. m.to = Cache(m.of)
    BY <2>1, <2>2, ParserIsNoCache
  <2>4. m.of = link => m.has = Unmarshal(text)
    BY <1>0, <2>3
  <2> QED
    BY <1>7, <2>3, <2>4 DEF Store
<1>8. ASSUME NEW m \in mail, Lose(m) PROVE Inv'
  BY <1>8 DEF Lose
<1>9. CASE UNCHANGED vars
  BY <1>9 DEF vars
<1> QED
  BY <1>1, <1>2, <1>3, <1>4, <1>5, <1>6, <1>7, <1>8, <1>9 DEF Next

\* Messages go only where their link's parser or cache listens.
THEOREM Invariant == Spec => []Inv
  BY InvInit, InvNext, PTL DEF Spec

\* A cache holds records of its own kind (Links_k8s.go and the activations of
\* parser/main.go and inv_k8s/main.go), whatever starts, stops and is lost.
THEOREM OwnCacheAlways == Spec => []OwnCache
<1>1. Inv => OwnCache
  BY DEF Inv, Addressed, OwnCache
<1> QED
  BY <1>1, Invariant, PTL

\* The fields of a cached pod's record say what the collector's text said
\* (Unmarshal of Ready.go and Restarts.go), for every width of the fields, every
\* text, and whatever starts, stops and is lost.
THEOREM FieldSaysTextAlways == Spec => []FieldSaysText
<1>1. Inv => FieldSaysText
  <2> SUFFICES ASSUME Inv, NEW m \in cache, m.of = link PROVE Says(m.has, text)
    BY DEF FieldSaysText
  <2>1. m.has = Unmarshal(text) /\ text \in Texts \cup {nil}
    BY DEF Inv, Carried
  <2> QED
    BY <2>1, SaysWhatIsRead
<1> QED
  BY <1>1, Invariant, PTL

\* What the parser's serializers make of a text is read back from the text that
\* they write of it, which is the first one if its numbers fit (Ready.go:36 and
\* Restarts.go:37), for every width of the fields and every text.
THEOREM ParserReadsBack ==
    \A t \in Texts \cup {nil} :
        /\ Unmarshal(Marshal(Unmarshal(t))) = Unmarshal(t)
        /\ WellFormed(t) => Marshal(Unmarshal(t)) = t
  BY Unmarshalled, ReadBack, TextBack
=============================================================================
