--------------------------- MODULE VocabularyProofs ---------------------------
(***************************************************************************)
(* Theorems about Vocabulary, for any words, learners, languages, requests *)
(* and imports.                                                            *)
(*                                                                         *)
(* What a request carries from one statement to the next is stated by      *)
(* Sound, what an import holds until its commit by LocksSound; with both   *)
(* the types, keys and references are inductive (TInv).  Each property     *)
(* adds what its writers know: RowsFresh, RemovalSound and Given.          *)
(***************************************************************************)
EXTENDS Vocabulary, TLAPS, SequenceTheorems, FiniteSetTheorems, WellFoundedInduction, NaturalsInduction

-----------------------------------------------------------------------------
(* Sequences without some of their members *)

\* A set of numbers has a least one.
LEMMA LeastNumber ==
    ASSUME NEW T \in SUBSET Nat, T # {}
    PROVE  \E n \in T : \A m \in T : n <= m
<1>1. IsWellFoundedOn(OpToRel(<, Nat), Nat)
    BY NatLessThanWellFounded
<1>2. PICK R : R = OpToRel(<, Nat)
    OBVIOUS
<1>3. \E x \in T : \A y \in T : <<y, x>> \notin R
    BY <1>1, <1>2, WFMin
<1>4. \A x, y \in Nat : y < x => <<y, x>> \in R
    BY <1>2 DEF OpToRel
<1>5. PICK x \in T : \A y \in T : <<y, x>> \notin R
    BY <1>3
<1>6. ASSUME NEW y \in T PROVE x <= y
  <2>1. x \in Nat /\ y \in Nat /\ ~(y < x)
      BY <1>4, <1>5
  <2>2. QED
      BY <2>1
<1>7. QED
    BY <1>6

\* Induction, over a set of numbers instead of a predicate.
LEMMA AllNumbers ==
    ASSUME NEW n \in Nat, NEW T, 0 \in T, \A m \in 0..(n - 1) : m \in T => m + 1 \in T
    PROVE  0..n \subseteq T
<1> SUFFICES ASSUME (0..n) \ T # {} PROVE FALSE
    OBVIOUS
<1>1. PICK m \in (0..n) \ T : \A k \in (0..n) \ T : m <= k
  <2>1. (0..n) \ T \in SUBSET Nat
      OBVIOUS
  <2>2. QED
      BY <2>1, LeastNumber
<1>2. m # 0 /\ m - 1 \in 0..(n - 1) /\ m - 1 \in T
    BY <1>1
<1>3. QED
    BY <1>1, <1>2

Extended(s, gone, t, i) == IF s[i] \in gone THEN t ELSE Append(t, s[i])
Member(s, gone, g, i) == IF i = 0 THEN <<>> ELSE Extended(s, gone, g[i - 1], i)
Upto(s, gone, n) == \E g : g = [i \in 0..n |-> Member(s, gone, g, i)]

LEMMA UptoNext ==
    ASSUME NEW s, NEW gone, NEW n \in Nat, Upto(s, gone, n)
    PROVE  Upto(s, gone, n + 1)
<1>1. PICK g : g = [i \in 0..n |-> Member(s, gone, g, i)]
    BY DEF Upto
<1>2. PICK last : last = Extended(s, gone, g[n], n + 1)
    OBVIOUS
<1>3. PICK h : h = [i \in 0..(n + 1) |-> IF i = n + 1 THEN last ELSE g[i]]
    OBVIOUS
<1>4. ASSUME NEW i \in 0..(n + 1)
      PROVE  h[i] = Member(s, gone, h, i)
  <2>1. CASE i = n + 1
    <3>1. h[i] = last /\ h[i - 1] = g[n] /\ i # 0
        BY <1>3, <2>1
    <3>2. QED
        BY <1>2, <2>1, <3>1 DEF Member
  <2>2. CASE i \in 0..n
    <3>1. h[i] = g[i] /\ g[i] = Member(s, gone, g, i) /\ (i # 0 => h[i - 1] = g[i - 1])
        BY <1>1, <1>3, <2>2
    <3>2. QED
        BY <3>1 DEF Member
  <2>3. QED
      BY <2>1, <2>2
<1>5. h = [i \in 0..(n + 1) |-> Member(s, gone, h, i)]
    BY <1>3, <1>4
<1>6. QED
    BY <1>5 DEF Upto

LEMMA WithoutIs ==
    ASSUME NEW S, NEW s \in Seq(S), NEW gone
    PROVE  /\ Without(s, gone) \in Seq(S)
           /\ \A i \in 1..Len(Without(s, gone)) :
                 /\ Without(s, gone)[i] \notin gone
                 /\ \E j \in 1..Len(s) : Without(s, gone)[i] = s[j]
<1> DEFINE Fine(t) == /\ t \in Seq(S) 
                      /\ \A i \in 1..Len(t) : t[i] \notin gone /\ \E j \in 1..Len(s) : t[i] = s[j]
           kept == CHOOSE g : g = [i \in 0..Len(s) |-> Member(s, gone, g, i)]
<1>1. Len(s) \in Nat /\ \A i \in 1..Len(s) : s[i] \in S
    BY LenProperties, ElementOfSeq
<1>2. Upto(s, gone, Len(s))
  <2> DEFINE T == {n \in Nat : Upto(s, gone, n)}
  <2>1. 0 \in T
    <3>1. PICK g : g = [i \in 0..0 |-> <<>>]
        OBVIOUS
    <3>2. g = [i \in 0..0 |-> Member(s, gone, g, i)]
        BY <3>1 DEF Member
    <3>3. QED
        BY <3>2 DEF Upto
  <2>2. \A m \in 0..(Len(s) - 1) : m \in T => m + 1 \in T
      BY <1>1, UptoNext
  <2> HIDE DEF T
  <2>3. 0..Len(s) \subseteq T
      BY <1>1, <2>1, <2>2, AllNumbers
  <2>4. QED
      BY <1>1, <2>3 DEF T
<1>3. kept = [i \in 0..Len(s) |-> Member(s, gone, kept, i)]
    BY <1>2 DEF Upto
<1>4. Without(s, gone) = kept[Len(s)]
    BY DEF Without, Member, Extended
<1> HIDE DEF kept
<1>5. ASSUME NEW m \in 0..(Len(s) - 1), Fine(kept[m])
      PROVE  Fine(kept[m + 1])
  <2>1. PICK t : t = kept[m]
      OBVIOUS
  <2>2. kept[m + 1] = Extended(s, gone, t, m + 1)
      BY <1>1, <1>3, <2>1 DEF Member
  <2>3. CASE s[m + 1] \in gone
      BY <1>5, <2>1, <2>2, <2>3 DEF Extended
  <2>4. CASE s[m + 1] \notin gone
    <3>1. kept[m + 1] = Append(t, s[m + 1]) /\ t \in Seq(S) /\ s[m + 1] \in S
        BY <1>1, <1>5, <2>1, <2>2, <2>4 DEF Extended
    <3>2. PICK u : u = Append(t, s[m + 1])
        OBVIOUS
    <3>3. /\ u \in Seq(S) /\ Len(u) = Len(t) + 1 /\ Len(t) \in Nat
          /\ \A k \in 1..Len(t) : u[k] = t[k]
          /\ u[Len(t) + 1] = s[m + 1]
        BY <3>1, <3>2, AppendProperties, LenProperties
    <3>4. ASSUME NEW k \in 1..Len(u)
          PROVE  u[k] \notin gone /\ \E j \in 1..Len(s) : u[k] = s[j]
      <4>1. CASE k \in 1..Len(t)
          BY <1>5, <2>1, <3>3, <4>1
      <4>2. CASE k = Len(t) + 1
          BY <1>1, <2>4, <3>3, <4>2
      <4>3. QED
          BY <3>3, <4>1, <4>2
    <3>5. QED
        BY <3>1, <3>2, <3>3, <3>4
  <2>5. QED
      BY <2>3, <2>4
<1>6. Fine(kept[0])
  <2>1. kept[0] = <<>>
      BY <1>1, <1>3 DEF Member
  <2>2. QED
      BY <2>1, EmptySeq
<1>7. Fine(kept[Len(s)])
  <2> DEFINE T == {n \in Nat : Fine(kept[n])}
  <2>1. 0 \in T /\ \A m \in 0..(Len(s) - 1) : m \in T => m + 1 \in T
      BY <1>1, <1>5, <1>6
  <2> HIDE DEF T
  <2>2. 0..Len(s) \subseteq T
      BY <1>1, <2>1, AllNumbers
  <2>3. QED
      BY <1>1, <2>2 DEF T
<1>8. QED
    BY <1>4, <1>7

-----------------------------------------------------------------------------
(* The entries of an import *)

LEMMA Quotient ==
    ASSUME NEW C \in Nat \ {0}, NEW p \in Nat
    PROVE  \E q \in Nat : q = p \div C /\ \E a \in Nat : a = C * q /\ a <= p /\ p < a + C
BY Z3

LEMMA Quotients ==
    ASSUME NEW C \in Nat \ {0}, NEW p \in Nat, NEW n \in Nat, p < n
    PROVE  (p \div C) + 1 \in 1..((n + C - 1) \div C)
<1>1. PICK q \in Nat : q = p \div C /\ C * q <= p
    BY Quotient
<1>2. n + C - 1 \in Nat
    OBVIOUS
<1>3. PICK m \in Nat : m = (n + C - 1) \div C /\ n + C - 1 < C * m + C
    BY <1>2, Quotient
<1>4. C * q < C * m
    BY <1>1, <1>3
<1>5. q < m
    BY <1>4
<1>6. QED
    BY <1>1, <1>3, <1>5

LEMMA PartIsFinite ==
    ASSUME NEW n \in Nat, NEW S \in SUBSET (1..n)
    PROVE  IsFiniteSet(S)
<1>1. IsFiniteSet(1..n)
    BY FS_Interval
<1>2. QED
    BY <1>1, FS_Subset

LEMMA PartIsSmaller ==
    ASSUME NEW S, IsFiniteSet(S), NEW T \in SUBSET S, T # S
    PROVE  Cardinality(T) \in Nat /\ Cardinality(T) < Cardinality(S)
<1>1. IsFiniteSet(T) /\ Cardinality(T) <= Cardinality(S) /\ Cardinality(T) # Cardinality(S)
    BY FS_Subset
<1>2. Cardinality(T) \in Nat /\ Cardinality(S) \in Nat
    BY <1>1, FS_CardinalityType
<1>3. QED
    BY <1>1, <1>2

\* The chunks of an import hold its entries, each at least once.
LEMMA ChunksIs ==
    ASSUME NEW entries \in Seq(Key)
    PROVE  /\ Chunks(entries) \in Seq(SUBSET Key)
           /\ UNION {Chunks(entries)[n] : n \in DOMAIN Chunks(entries)} = {entries[i] : i \in DOMAIN entries}
<1> DEFINE firsts == {i \in DOMAIN entries : \A j \in 1..(i - 1) : entries[j] # entries[i]}
           place(i) == Cardinality({j \in firsts : j < i})
           count == (Cardinality(firsts) + Chunk - 1) \div Chunk
           chunk(n) == {entries[i] : i \in {i \in firsts : place(i) \div Chunk = n - 1}}
<1>1. Len(entries) \in Nat /\ DOMAIN entries = 1..Len(entries) /\ \A i \in DOMAIN entries : entries[i] \in Key
    BY LenProperties, ElementOfSeq
<1>2. Chunks(entries) = [n \in 1..count |-> chunk(n)]
    BY DEF Chunks
<1>3. firsts \subseteq 1..Len(entries) /\ IsFiniteSet(firsts)
  <2>1. firsts \in SUBSET (1..Len(entries))
      BY <1>1
  <2>2. QED
      BY <1>1, <2>1, PartIsFinite
<1>4. PICK total \in Nat : total = Cardinality(firsts)
    BY <1>3, FS_CardinalityType
<1>5. ASSUME NEW i \in firsts PROVE place(i) \in Nat /\ place(i) < total
  <2> HIDE DEF firsts
  <2>1. PICK T : T = {j \in firsts : j < i}
      OBVIOUS
  <2> T \in SUBSET firsts
      BY <2>1
  <2>2. Cardinality(T) \in Nat /\ Cardinality(T) < Cardinality(firsts)
    <3>1. i \in 1..Len(entries)
        BY <1>3
    <3>2. i \notin T
        BY <1>1, <2>1, <3>1
    <3>3. QED
        BY <1>3, <3>2, PartIsSmaller
  <2>3. QED
      BY <1>4, <2>1, <2>2
<1>6. Chunk \in Nat \ {0}
    BY VocabularyAssumption
<1>7. count \in Nat
  <2>1. total + Chunk - 1 \in Nat
      BY <1>6
  <2>2. QED
      BY <1>4, <1>6, <2>1, Quotient
<1> HIDE DEF count, place, firsts
<1>8. ASSUME NEW n PROVE chunk(n) \in SUBSET Key
    BY <1>1, <1>3
<1>9. ASSUME NEW i \in DOMAIN entries PROVE \E n \in 1..count : entries[i] \in chunk(n)
  <2>1. PICK T : T = {j \in DOMAIN entries : entries[j] = entries[i]}
      OBVIOUS
  <2> T \in SUBSET Nat /\ T # {}
      BY <1>1, <2>1
  <2>2. PICK f \in T : \A j \in T : f <= j
      BY <2>1, LeastNumber
  <2>3. f \in firsts /\ entries[f] = entries[i]
      BY <1>1, <2>1, <2>2 DEF firsts
  <2>4. (place(f) \div Chunk) + 1 \in 1..count
      BY <1>4, <1>5, <1>6, <2>3, Quotients DEF count
  <2>5. PICK q \in Nat : q = place(f) \div Chunk
      BY <1>5, <1>6, <2>3, Quotient
  <2>6. entries[i] \in chunk(q + 1)
      BY <2>3, <2>5
  <2>7. QED
      BY <2>4, <2>5, <2>6
<1>10. \A n : chunk(n) \subseteq {entries[i] : i \in DOMAIN entries}
    BY <1>1, <1>3
<1> HIDE DEF chunk
<1>11. Chunks(entries) \in Seq(SUBSET Key)
  <2>1. Chunks(entries) \in [1..count -> SUBSET Key]
      BY <1>2, <1>8
  <2>2. QED
      BY <1>7, <2>1, SeqDef
<1>12. DOMAIN Chunks(entries) = 1..count /\ \A n \in 1..count : Chunks(entries)[n] = chunk(n)
    BY <1>2
<1>13. UNION {Chunks(entries)[n] : n \in DOMAIN Chunks(entries)} = UNION {chunk(n) : n \in 1..count}
    BY <1>12
<1>14. UNION {chunk(n) : n \in 1..count} = {entries[i] : i \in DOMAIN entries}
    BY <1>9, <1>10
<1>15. QED
    BY <1>11, <1>13, <1>14

LEMMA ParsedIs ==
    ASSUME NEW lines \in Seq(Key \cup {None})
    PROVE  Parsed(lines) \in Seq(Key)
<1>1. PICK p : p = Parsed(lines)
    OBVIOUS
<1>2. p \in Seq(Key \cup {None}) /\ \A i \in 1..Len(p) : p[i] \notin {None}
    BY <1>1, WithoutIs DEF Parsed
<1>3. \A i \in 1..Len(p) : p[i] \in Key
    BY <1>2, ElementOfSeq
<1>4. Len(p) \in Nat /\ p = [i \in 1..Len(p) |-> p[i]]
    BY <1>2, LenProperties
<1>5. QED
    BY <1>1, <1>3, <1>4, SeqDef

LEMMA NormalizedIs ==
    ASSUME NEW lines \in Seq(Key \cup {None}), NEW answered
    PROVE  Normalized(lines, answered) \in Seq(Key)
<1>1. PICK t : t = [i \in DOMAIN lines |-> IF (i - 1) \div LLMChunk \in answered THEN lines[i] ELSE None]
    OBVIOUS
<1>2. Len(lines) \in Nat /\ DOMAIN lines = 1..Len(lines) /\ \A i \in DOMAIN lines : lines[i] \in Key \cup {None}
    BY LenProperties, ElementOfSeq
<1>3. t \in [1..Len(lines) -> Key \cup {None}]
    BY <1>1, <1>2
<1>4. t \in Seq(Key \cup {None})
    BY <1>2, <1>3, SeqDef
<1>5. QED
    BY <1>1, <1>4, ParsedIs DEF Normalized

-----------------------------------------------------------------------------
(* What a running request knows and holds *)

Importing == {"chunk", "flush", "commit"}

\* The language an import translates into.
Lang(state) == CHOOSE l \in Language : l \notin state.keeps

\* What a request has learnt by the statement it is at.  A rewrite has left alone
\* what it keeps of the row it read; only an import holds rows and keys.
Sound(s) ==
    /\ s.at = "target" => s.op = "capture" /\ s.user \in User /\ s.key \in Key
    /\ s.at \in {"word", "new_word"} =>
          /\ s.key \in Key
          /\ s.op \in {"capture", "add", "create"}
          /\ s.op = "create" => s.new \in WordRow /\ s.new.key = s.key
          /\ s.op # "create" => s.user \in User
    /\ s.at \in {"source", "new_source"} =>
          s.op = "capture" /\ s.user \in User /\ s.url \in Url /\ s.word \in Word
    /\ s.at = "context" => s.op = "capture" /\ s.user \in User /\ s.word \in Word
    /\ s.at \in {"entry", "new_entry"} =>
          s.op \in {"capture", "add"} /\ s.user \in User /\ s.word \in Word
    /\ s.at \in {"remove_sentences", "remove_entry"} =>
          s.op = "remove" /\ s.user \in User /\ s.word \in Word /\ s.entry \in Entry
    /\ s.at = "rewrite" =>
          /\ s.op = "rewrite" /\ s.word \in Word /\ s.read \in WordRow /\ s.new \in WordRow
          /\ s.new.definitions \cap s.keeps = s.read.definitions \cap s.keeps
    /\ s.at \in Importing => s.op = "import" /\ \E l \in Language : l \notin s.keeps
    /\ s.at \notin Importing => s.rows = {} /\ s.inserts = {}
    /\ s.at = "flush" => s.chunks # <<>>
    /\ s.at = "commit" => s.chunks = <<>>

\* What an import has flushed stays: its rows stand, its keys are free, and no other
\* import holds either.
LocksSound ==
    /\ \A r \in Request : \A row \in req[r].rows : Stored(row[1])
    /\ \A r \in Request : RowsOf(req[r].inserts) = {}
    /\ \A r, s \in Request : r # s =>
          /\ req[r].inserts \cap req[s].inserts = {}
          /\ \A p \in req[r].rows, q \in req[s].rows : p[1] # q[1]

\* TypeOK in its parts.
Tables ==
    /\ words \in [Word -> WordRow \cup {None}]
    /\ user_words \in [Entry -> UserWord \cup {None}]
    /\ contexts \in Seq(Context)
    /\ \A v, w \in Word : (Stored(v) /\ Stored(w) /\ words[v].key = words[w].key) => v = w
    /\ \A d, e \in Entry : (user_words[d] # None /\ user_words[d] = user_words[e]) => d = e
    /\ \A e \in Entry : user_words[e] # None => Stored(user_words[e].word)
    /\ \A i \in DOMAIN contexts : Stored(contexts[i].word)

Notes ==
    /\ sources \in SUBSET (User \X Url)
    /\ target \in [User -> Language \cup {None}]
    /\ started \in 0..MaxStarted
    /\ torn \in SUBSET (User \X Word)
    /\ known \in [Word -> SUBSET Language]
    /\ raced \in SUBSET Word

LEMMA TypeParts == TypeOK <=> Tables /\ Notes /\ req \in [Request -> RequestState]
BY DEF TypeOK, Tables, Notes

LEMMA TypePartsNext == TypeOK' <=> Tables' /\ Notes' /\ (req \in [Request -> RequestState])'
BY DEF TypeOK, Tables, Notes

\* The inductive invariant of TypeOK.
TInv ==
    /\ Tables
    /\ Notes
    /\ req \in [Request -> RequestState]
    /\ \A r \in Request : Sound(req[r])
    /\ LocksSound

-----------------------------------------------------------------------------
(* The records of the requests *)

Ats == {"idle", "target", "word", "new_word", "source", "new_source", "context",
        "entry", "new_entry", "reload", "remove_sentences", "remove_entry",
        "rewrite", "chunk", "flush", "commit"}

\* What a request never changes on its way.
SameRequest(n, s) ==
    /\ n.op = s.op /\ n.user = s.user /\ n.key = s.key /\ n.url = s.url
    /\ n.sentence = s.sentence /\ n.read = s.read /\ n.new = s.new
    /\ n.keeps = s.keeps /\ n.entries = s.entries

SameWork(n, s) ==
    n.chunks = s.chunks /\ n.found = s.found /\ n.rows = s.rows /\ n.inserts = s.inserts

LEMMA MoveTo ==
    ASSUME NEW s \in RequestState, NEW a \in Ats
    PROVE  \E n \in RequestState :
              /\ n = [s EXCEPT !.at = a]
              /\ n.at = a /\ n.word = s.word /\ n.entry = s.entry
              /\ SameRequest(n, s) /\ SameWork(n, s)
<1>1. PICK n : n = [s EXCEPT !.at = a]
    OBVIOUS
<1>2. n \in RequestState
    BY <1>1 DEF RequestState, Ats
<1>3. SameRequest(n, s)
    BY <1>1 DEF RequestState, SameRequest
<1>4. QED
    BY <1>1, <1>2, <1>3 DEF RequestState, SameWork

LEMMA WithWord ==
    ASSUME NEW m \in RequestState, NEW w \in Word \cup {None}
    PROVE  [m EXCEPT !.word = w] \in RequestState
<1>1. PICK n : n = [m EXCEPT !.word = w]
    OBVIOUS
<1>2. n \in RequestState
    BY <1>1, SMTT(60) DEF RequestState
<1>3. QED
    BY <1>1, <1>2

LEMMA WithEntry ==
    ASSUME NEW m \in RequestState, NEW e \in Entry \cup {None}
    PROVE  [m EXCEPT !.entry = e] \in RequestState
<1>1. PICK n : n = [m EXCEPT !.entry = e]
    OBVIOUS
<1>2. n \in RequestState
    BY <1>1, SMTT(60) DEF RequestState
<1>3. QED
    BY <1>1, <1>2

LEMMA WithFound ==
    ASSUME NEW m \in RequestState, NEW found \in SUBSET (Word \X WordRow)
    PROVE  [m EXCEPT !.found = found] \in RequestState
<1>1. PICK n : n = [m EXCEPT !.found = found]
    OBVIOUS
<1>2. n \in RequestState
    BY <1>1, SMTT(60) DEF RequestState
<1>3. QED
    BY <1>1, <1>2

LEMMA WithChunks ==
    ASSUME NEW m \in RequestState, NEW chunks \in Seq(SUBSET Key)
    PROVE  [m EXCEPT !.chunks = chunks] \in RequestState
<1>1. PICK n : n = [m EXCEPT !.chunks = chunks]
    OBVIOUS
<1>2. n \in RequestState
    BY <1>1, SMTT(60) DEF RequestState
<1>3. QED
    BY <1>1, <1>2

LEMMA WithAt ==
    ASSUME NEW m \in RequestState, NEW v \in Ats
    PROVE  [m EXCEPT !.at = v] \in RequestState
<1>1. PICK n : n = [m EXCEPT !.at = v]
    OBVIOUS
<1>2. n \in RequestState
    BY <1>1, SMTT(60) DEF RequestState, Ats
<1>3. QED
    BY <1>1, <1>2

LEMMA WithOp ==
    ASSUME NEW m \in RequestState, NEW v \in {"capture", "add", "create", "remove", "rewrite", "import", None}
    PROVE  [m EXCEPT !.op = v] \in RequestState
<1>1. PICK n : n = [m EXCEPT !.op = v]
    OBVIOUS
<1>2. n \in RequestState
    BY <1>1, SMTT(60) DEF RequestState
<1>3. QED
    BY <1>1, <1>2

LEMMA WithUser ==
    ASSUME NEW m \in RequestState, NEW v \in User \cup {None}
    PROVE  [m EXCEPT !.user = v] \in RequestState
<1>1. PICK n : n = [m EXCEPT !.user = v]
    OBVIOUS
<1>2. n \in RequestState
    BY <1>1, SMTT(60) DEF RequestState
<1>3. QED
    BY <1>1, <1>2

LEMMA WithKey ==
    ASSUME NEW m \in RequestState, NEW v \in Key \cup {None}
    PROVE  [m EXCEPT !.key = v] \in RequestState
<1>1. PICK n : n = [m EXCEPT !.key = v]
    OBVIOUS
<1>2. n \in RequestState
    BY <1>1, SMTT(60) DEF RequestState
<1>3. QED
    BY <1>1, <1>2

LEMMA WithUrl ==
    ASSUME NEW m \in RequestState, NEW v \in Url \cup {None}
    PROVE  [m EXCEPT !.url = v] \in RequestState
<1>1. PICK n : n = [m EXCEPT !.url = v]
    OBVIOUS
<1>2. n \in RequestState
    BY <1>1, SMTT(60) DEF RequestState
<1>3. QED
    BY <1>1, <1>2

LEMMA WithSentence ==
    ASSUME NEW m \in RequestState, NEW v \in BOOLEAN
    PROVE  [m EXCEPT !.sentence = v] \in RequestState
<1>1. PICK n : n = [m EXCEPT !.sentence = v]
    OBVIOUS
<1>2. n \in RequestState
    BY <1>1, SMTT(60) DEF RequestState
<1>3. QED
    BY <1>1, <1>2

LEMMA WithRead ==
    ASSUME NEW m \in RequestState, NEW v \in WordRow \cup {None}
    PROVE  [m EXCEPT !.read = v] \in RequestState
<1>1. PICK n : n = [m EXCEPT !.read = v]
    OBVIOUS
<1>2. n \in RequestState
    BY <1>1, SMTT(60) DEF RequestState
<1>3. QED
    BY <1>1, <1>2

LEMMA WithNew ==
    ASSUME NEW m \in RequestState, NEW v \in WordRow \cup {None}
    PROVE  [m EXCEPT !.new = v] \in RequestState
<1>1. PICK n : n = [m EXCEPT !.new = v]
    OBVIOUS
<1>2. n \in RequestState
    BY <1>1, SMTT(60) DEF RequestState
<1>3. QED
    BY <1>1, <1>2

LEMMA WithKeeps ==
    ASSUME NEW m \in RequestState, NEW v \in SUBSET Language
    PROVE  [m EXCEPT !.keeps = v] \in RequestState
<1>1. PICK n : n = [m EXCEPT !.keeps = v]
    OBVIOUS
<1>2. n \in RequestState
    BY <1>1, SMTT(60) DEF RequestState
<1>3. QED
    BY <1>1, <1>2

LEMMA WithEntries ==
    ASSUME NEW m \in RequestState, NEW v \in SUBSET Key
    PROVE  [m EXCEPT !.entries = v] \in RequestState
<1>1. PICK n : n = [m EXCEPT !.entries = v]
    OBVIOUS
<1>2. n \in RequestState
    BY <1>1, SMTT(60) DEF RequestState
<1>3. QED
    BY <1>1, <1>2

MovesToWord(n, s, a, w) == n = [s EXCEPT !.at = a, !.word = w]

LEMMA MoveToWord ==
    ASSUME NEW s \in RequestState, NEW a \in Ats, NEW w \in Word,
           NEW n, MovesToWord(n, s, a, w)
    PROVE  /\ n \in RequestState
           /\ n.at = a /\ n.word = w /\ n.entry = s.entry
           /\ SameRequest(n, s) /\ SameWork(n, s)
<1>1. PICK m \in RequestState : /\ m = [s EXCEPT !.at = a]
                              /\ m.at = a /\ m.word = s.word /\ m.entry = s.entry
                              /\ SameRequest(m, s) /\ SameWork(m, s)
    BY MoveTo
<1>2. n = [m EXCEPT !.word = w]
    BY <1>1 DEF MovesToWord
<1>4. n \in RequestState
    BY <1>2, WithWord
<1>5. SameRequest(n, m)
    BY <1>2 DEF RequestState, SameRequest
<1>6. SameWork(n, m) /\ n.word = w /\ n.entry = m.entry /\ n.at = m.at
    BY <1>2 DEF RequestState, SameWork
<1>7. SameRequest(n, s)
    BY <1>1, <1>5 DEF SameRequest
<1>8. SameWork(n, s)
    BY <1>1, <1>6 DEF SameWork
<1>9. QED
    BY <1>1, <1>4, <1>6, <1>7, <1>8

MovesToEntry(n, s, a, e) == n = [s EXCEPT !.at = a, !.entry = e]

LEMMA MoveToEntry ==
    ASSUME NEW s \in RequestState, NEW a \in Ats, NEW e \in Entry,
           NEW n, MovesToEntry(n, s, a, e)
    PROVE  /\ n \in RequestState
           /\ n.at = a /\ n.word = s.word /\ n.entry = e
           /\ SameRequest(n, s) /\ SameWork(n, s)
<1>1. PICK m \in RequestState : /\ m = [s EXCEPT !.at = a]
                              /\ m.at = a /\ m.word = s.word /\ m.entry = s.entry
                              /\ SameRequest(m, s) /\ SameWork(m, s)
    BY MoveTo
<1>2. n = [m EXCEPT !.entry = e]
    BY <1>1 DEF MovesToEntry
<1>4. n \in RequestState
    BY <1>2, WithEntry
<1>5. SameRequest(n, m)
    BY <1>2 DEF RequestState, SameRequest
<1>6. SameWork(n, m) /\ n.word = m.word /\ n.entry = e /\ n.at = m.at
    BY <1>2 DEF RequestState, SameWork
<1>7. SameRequest(n, s)
    BY <1>1, <1>5 DEF SameRequest
<1>8. SameWork(n, s)
    BY <1>1, <1>6 DEF SameWork
<1>9. QED
    BY <1>1, <1>4, <1>6, <1>7, <1>8

MovesToFlush(n, s, found) == n = [s EXCEPT !.at = "flush", !.found = found]

LEMMA MoveToFlush ==
    ASSUME NEW s \in RequestState, NEW found \in SUBSET (Word \X WordRow),
           NEW n, MovesToFlush(n, s, found)
    PROVE  /\ n \in RequestState
           /\ n.at = "flush" /\ n.found = found
           /\ n.chunks = s.chunks /\ n.rows = s.rows /\ n.inserts = s.inserts
           /\ SameRequest(n, s)
<1>1. PICK m \in RequestState : /\ m = [s EXCEPT !.at = "flush"]
                              /\ m.at = "flush" /\ m.word = s.word /\ m.entry = s.entry
                              /\ SameRequest(m, s) /\ SameWork(m, s)
  <2>1. "flush" \in Ats
      BY DEF Ats
  <2>2. QED
      BY <2>1, MoveTo
<1>2. n = [m EXCEPT !.found = found]
    BY <1>1 DEF MovesToFlush
<1>4. n \in RequestState
    BY <1>2 DEF RequestState
<1>5. SameRequest(n, m)
    BY <1>2 DEF RequestState, SameRequest
<1>6. n.found = found /\ n.chunks = m.chunks /\ n.rows = m.rows /\ n.inserts = m.inserts /\ n.at = m.at
    BY <1>2 DEF RequestState, SameWork
<1>7. SameRequest(n, s)
    BY <1>1, <1>5 DEF SameRequest
<1>8. n.chunks = s.chunks /\ n.rows = s.rows /\ n.inserts = s.inserts
    BY <1>1, <1>6 DEF SameWork
<1>9. QED
    BY <1>1, <1>4, <1>6, <1>7, <1>8

LEMMA WithRows ==
    ASSUME NEW m \in RequestState, NEW v \in SUBSET (Word \X SUBSET Language)
    PROVE  [m EXCEPT !.rows = v] \in RequestState
<1>1. PICK n : n = [m EXCEPT !.rows = v]
    OBVIOUS
<1>2. n \in RequestState
    BY <1>1, SMTT(60) DEF RequestState
<1>3. QED
    BY <1>1, <1>2

LEMMA WithInserts ==
    ASSUME NEW m \in RequestState, NEW v \in SUBSET Key
    PROVE  [m EXCEPT !.inserts = v] \in RequestState
<1>1. PICK n : n = [m EXCEPT !.inserts = v]
    OBVIOUS
<1>2. n \in RequestState
    BY <1>1, SMTT(60) DEF RequestState
<1>3. QED
    BY <1>1, <1>2

MovesToChunk(n, s, rows, inserts) ==
    n = [s EXCEPT !.at = "chunk", !.chunks = Tail(@), !.found = {},
                  !.rows = @ \cup rows, !.inserts = @ \cup inserts]

LEMMA MoveToChunk ==
    ASSUME NEW s \in RequestState, s.chunks # <<>>,
           NEW rows \in SUBSET (Word \X SUBSET Language), NEW inserts \in SUBSET Key,
           NEW n, MovesToChunk(n, s, rows, inserts)
    PROVE  /\ n \in RequestState
           /\ n.at = "chunk" /\ n.chunks = Tail(s.chunks) /\ n.found = {}
           /\ n.rows = s.rows \cup rows /\ n.inserts = s.inserts \cup inserts
           /\ SameRequest(n, s)
<1>1. PICK m \in RequestState : /\ m = [s EXCEPT !.at = "chunk"]
                              /\ m.at = "chunk" /\ SameRequest(m, s) /\ SameWork(m, s)
  <2>1. "chunk" \in Ats
      BY DEF Ats
  <2>2. QED
      BY <2>1, MoveTo
<1>2. PICK c : c = [m EXCEPT !.chunks = Tail(@)]
    OBVIOUS
<1>3. PICK f : f = [c EXCEPT !.found = {}]
    OBVIOUS
<1>4. PICK g : g = [f EXCEPT !.rows = @ \cup rows]
    OBVIOUS
<1>5. n = [g EXCEPT !.inserts = @ \cup inserts]
  <2>1. PICK p : p = [g EXCEPT !.inserts = @ \cup inserts]
      OBVIOUS
  <2>2. p = [s EXCEPT !.at = "chunk", !.chunks = Tail(@), !.found = {},
                      !.rows = @ \cup rows, !.inserts = @ \cup inserts]
      BY <1>1, <1>2, <1>3, <1>4, <2>1, Zenon
  <2>3. QED
      BY <2>1, <2>2 DEF MovesToChunk
<1>7. c \in RequestState /\ c.chunks = Tail(s.chunks)
  <2>1. m.chunks = s.chunks
      BY <1>1 DEF SameWork
  <2>2. PICK rest \in Seq(SUBSET Key) : rest = Tail(m.chunks)
    <3>1. m.chunks \in Seq(SUBSET Key)
        BY DEF RequestState
    <3>2. QED
        BY <2>1, <3>1, HeadTailProperties
  <2>3. c = [m EXCEPT !.chunks = rest]
      BY <1>2, <2>2
  <2>4. c \in RequestState
      BY <2>3, WithChunks
  <2>5. c.chunks = rest
      BY <2>3 DEF RequestState
  <2>6. QED
      BY <2>1, <2>2, <2>4, <2>5
<1>8. SameRequest(c, m) /\ c.at = m.at /\ c.rows = m.rows /\ c.inserts = m.inserts
    BY <1>2 DEF RequestState, SameRequest
<1>9. f \in RequestState /\ f.found = {}
  <2>1. f \in RequestState
      BY <1>3, <1>7, WithFound
  <2>2. f.found = {}
      BY <1>3, <1>7 DEF RequestState
  <2>3. QED
      BY <2>1, <2>2
<1>10. SameRequest(f, c) /\ f.at = c.at /\ f.chunks = c.chunks /\ f.rows = c.rows /\ f.inserts = c.inserts
    BY <1>3, <1>7 DEF RequestState, SameRequest
<1>11. g \in RequestState /\ g.rows = f.rows \cup rows
  <2>1. PICK v \in SUBSET (Word \X SUBSET Language) : v = f.rows \cup rows
      BY <1>9 DEF RequestState
  <2>2. g = [f EXCEPT !.rows = v]
      BY <1>4, <2>1
  <2>3. g \in RequestState
      BY <1>9, <2>2, WithRows
  <2>4. g.rows = v
      BY <1>9, <2>2 DEF RequestState
  <2>5. QED
      BY <2>1, <2>3, <2>4
<1>12. SameRequest(g, f) /\ g.at = f.at /\ g.chunks = f.chunks /\ g.found = f.found /\ g.inserts = f.inserts
    BY <1>4, <1>9 DEF RequestState, SameRequest
<1>13. n \in RequestState /\ n.inserts = g.inserts \cup inserts
  <2>1. PICK v \in SUBSET Key : v = g.inserts \cup inserts
      BY <1>11 DEF RequestState
  <2>2. n = [g EXCEPT !.inserts = v]
      BY <1>5, <2>1
  <2>3. n \in RequestState
      BY <1>11, <2>2, WithInserts
  <2>4. n.inserts = v
      BY <1>11, <2>2 DEF RequestState
  <2>5. QED
      BY <2>1, <2>3, <2>4
<1>14. SameRequest(n, g) /\ n.at = g.at /\ n.chunks = g.chunks /\ n.found = g.found /\ n.rows = g.rows
    BY <1>5, <1>11 DEF RequestState, SameRequest
<1>15. n.at = "chunk" /\ n.chunks = Tail(s.chunks) /\ n.found = {}
    BY <1>1, <1>7, <1>8, <1>9, <1>10, <1>12, <1>14
<1>16. n.rows = s.rows \cup rows /\ n.inserts = s.inserts \cup inserts
    BY <1>1, <1>8, <1>10, <1>11, <1>12, <1>13, <1>14 DEF SameWork
<1>17. SameRequest(n, s)
    BY <1>1, <1>8, <1>10, <1>12, <1>14 DEF SameRequest
<1>18. QED
    BY <1>13, <1>15, <1>16, <1>17

LEMMA IdleSound ==
    /\ Idle \in RequestState
    /\ Idle.at = "idle" /\ Idle.rows = {} /\ Idle.inserts = {}
    /\ Sound(Idle)
<1>1. <<>> \in Seq(SUBSET Key)
    BY EmptySeq
<1>2. Idle \in RequestState /\ Idle.at = "idle" /\ Idle.rows = {} /\ Idle.inserts = {}
    BY <1>1 DEF Idle, RequestState
<1>3. QED
    BY <1>2 DEF Sound, Importing

-----------------------------------------------------------------------------
(* How requests start *)

\* What a request knows before its first statement.
Begun(n) ==
    /\ n.at \in {"target", "word", "remove_sentences", "rewrite", "chunk"}
    /\ n.rows = {} /\ n.inserts = {}
    /\ n.at = "remove_sentences" => user_words[n.entry] = [user |-> n.user, word |-> n.word]
    /\ n.at = "chunk" => UNION {n.chunks[i] : i \in DOMAIN n.chunks} = n.entries

Begins(r) == \E n \in RequestState : Start(r, n) /\ Sound(n) /\ Begun(n)

LEMMA CaptureBegins ==
    ASSUME NEW r \in Request, capture_word(r)
    PROVE  Begins(r)
<1>1. PICK u \in User, k \in Key, url \in Url \cup {None}, sentence \in BOOLEAN : Capture(r, u, k, url, sentence)
    BY DEF capture_word
<1>2. PICK a \in {"target", "word"} : a = IF target[u] = None THEN "target" ELSE "word"
    OBVIOUS
<1>3. PICK n : n = [Idle EXCEPT !.at = a, !.op = "capture", !.user = u, !.key = k,
                                !.url = url, !.sentence = sentence]
    OBVIOUS
<1>4. Start(r, n)
    BY <1>1, <1>2, <1>3 DEF Capture
<1>5. /\ n \in RequestState
      /\ n.at = a /\ n.op = "capture" /\ n.user = u /\ n.key = k /\ n.rows = {} /\ n.inserts = {}
  <2>1. a \in Ats /\ u \in User \cup {None} /\ k \in Key \cup {None}
      BY <1>2 DEF Ats
  <2>2. PICK m1 \in RequestState : m1 = [Idle EXCEPT !.at = a]
      BY <2>1, IdleSound, WithAt
  <2>3. PICK m2 \in RequestState : m2 = [m1 EXCEPT !.op = "capture"]
      BY <2>1, WithOp
  <2>4. PICK m3 \in RequestState : m3 = [m2 EXCEPT !.user = u]
      BY <2>1, WithUser
  <2>5. PICK m4 \in RequestState : m4 = [m3 EXCEPT !.key = k]
      BY <2>1, WithKey
  <2>6. PICK m5 \in RequestState : m5 = [m4 EXCEPT !.url = url]
      BY <2>1, WithUrl
  <2>7. PICK m6 \in RequestState : m6 = [m5 EXCEPT !.sentence = sentence]
      BY <2>1, WithSentence
  <2>8. n = m6
      BY <1>3, <2>2, <2>3, <2>4, <2>5, <2>6, <2>7
  <2>9. QED
      BY <1>3, <2>8 DEF Idle
<1>6. Sound(n) /\ Begun(n)
    BY <1>5 DEF Sound, Begun, Importing
<1>7. QED
    BY <1>4, <1>5, <1>6 DEF Begins

LEMMA AddBegins ==
    ASSUME NEW r \in Request, NEW u \in User, NEW k \in Key, AddVocabulary(r, u, k)
    PROVE  Begins(r)
<1>1. PICK n : n = [Idle EXCEPT !.at = "word", !.op = "add", !.user = u, !.key = k]
    OBVIOUS
<1>2. Start(r, n)
    BY <1>1 DEF AddVocabulary
<1>3. /\ n \in RequestState
      /\ n.at = "word" /\ n.op = "add" /\ n.user = u /\ n.key = k /\ n.rows = {} /\ n.inserts = {}
  <2>1. u \in User \cup {None} /\ k \in Key \cup {None}
      OBVIOUS
  <2>2. PICK m1 \in RequestState : m1 = [Idle EXCEPT !.at = "word"]
      BY IdleSound, WithAt DEF Ats
  <2>3. PICK m2 \in RequestState : m2 = [m1 EXCEPT !.op = "add"]
      BY <2>1, WithOp
  <2>4. PICK m3 \in RequestState : m3 = [m2 EXCEPT !.user = u]
      BY <2>1, WithUser
  <2>5. PICK m4 \in RequestState : m4 = [m3 EXCEPT !.key = k]
      BY <2>1, WithKey
  <2>6. n = m4
      BY <1>1, <2>2, <2>3, <2>4, <2>5
  <2>7. QED
      BY <1>1, <2>6 DEF Idle
<1>4. Sound(n) /\ Begun(n)
    BY <1>3 DEF Sound, Begun, Importing
<1>5. QED
    BY <1>2, <1>3, <1>4 DEF Begins

LEMMA CreateBegins ==
    ASSUME NEW r \in Request, NEW k \in Key, NEW definitions \in SUBSET Language,
           CreateWord(r, k, definitions)
    PROVE  Begins(r)
<1>1. PICK row \in WordRow : row = [key |-> k, definitions |-> definitions]
    BY DEF WordRow
<1>2. PICK n : n = [Idle EXCEPT !.at = "word", !.op = "create", !.key = k, !.new = row]
    OBVIOUS
<1>3. Start(r, n)
    BY <1>1, <1>2 DEF CreateWord
<1>4. /\ n \in RequestState
      /\ n.at = "word" /\ n.op = "create" /\ n.key = k /\ n.new = row /\ n.rows = {} /\ n.inserts = {}
  <2>1. k \in Key \cup {None} /\ row \in WordRow \cup {None}
      OBVIOUS
  <2>2. PICK m1 \in RequestState : m1 = [Idle EXCEPT !.at = "word"]
      BY IdleSound, WithAt DEF Ats
  <2>3. PICK m2 \in RequestState : m2 = [m1 EXCEPT !.op = "create"]
      BY <2>1, WithOp
  <2>4. PICK m3 \in RequestState : m3 = [m2 EXCEPT !.key = k]
      BY <2>1, WithKey
  <2>5. PICK m4 \in RequestState : m4 = [m3 EXCEPT !.new = row]
      BY <2>1, WithNew
  <2>6. n = m4
      BY <1>2, <2>2, <2>3, <2>4, <2>5
  <2>7. QED
      BY <1>2, <2>6 DEF Idle
<1>5. Sound(n) /\ Begun(n)
    BY <1>1, <1>4 DEF Sound, Begun, Importing
<1>6. QED
    BY <1>3, <1>4, <1>5 DEF Begins

LEMMA RemoveBegins ==
    ASSUME TInv, NEW r \in Request, NEW e \in Entry, Remove(r, e)
    PROVE  Begins(r)
<1>1. PICK row \in UserWord : row = user_words[e]
    BY DEF TInv, Tables, Remove
<1>2. PICK n : n = [Idle EXCEPT !.at = "remove_sentences", !.op = "remove", !.entry = e,
                                !.user = row.user, !.word = row.word]
    OBVIOUS
<1>3. Start(r, n)
    BY <1>1, <1>2 DEF Remove
<1>4. row.user \in User /\ row.word \in Word /\ row = [user |-> row.user, word |-> row.word]
    BY DEF UserWord
<1>5. /\ n \in RequestState
      /\ n.at = "remove_sentences" /\ n.op = "remove" /\ n.entry = e
      /\ n.user = row.user /\ n.word = row.word /\ n.rows = {} /\ n.inserts = {}
  <2>1. e \in Entry \cup {None} /\ row.user \in User \cup {None} /\ row.word \in Word \cup {None}
      BY <1>2, <1>4 DEF Ats
  <2>2. PICK m1 \in RequestState : m1 = [Idle EXCEPT !.at = "remove_sentences"]
      BY IdleSound, WithAt DEF Ats
  <2>3. PICK m2 \in RequestState : m2 = [m1 EXCEPT !.op = "remove"]
      BY <2>1, WithOp
  <2>4. PICK m3 \in RequestState : m3 = [m2 EXCEPT !.entry = e]
      BY <2>1, WithEntry
  <2>5. PICK m4 \in RequestState : m4 = [m3 EXCEPT !.user = row.user]
      BY <2>1, WithUser
  <2>6. PICK m5 \in RequestState : m5 = [m4 EXCEPT !.word = row.word]
      BY <2>1, WithWord
  <2>7. n = m5
      BY <1>2, <2>2, <2>3, <2>4, <2>5, <2>6
  <2>8. QED
      BY <1>2, <2>7 DEF Idle
<1>6. Sound(n)
    BY <1>4, <1>5 DEF Sound, Importing
<1>7. Begun(n)
    BY <1>1, <1>4, <1>5 DEF Begun
<1>8. QED
    BY <1>3, <1>5, <1>6, <1>7 DEF Begins

\* A request that read the row of w and writes `row` back, `keeps` as they were.
LEMMA RewriteBegins ==
    ASSUME TInv, NEW r \in Request, NEW w \in Word, NEW row \in WordRow, NEW keeps \in SUBSET Language,
           Stored(w), row.definitions \cap keeps = words[w].definitions \cap keeps,
           Start(r, [Idle EXCEPT !.at = "rewrite", !.op = "rewrite", !.word = w, !.read = words[w],
                                 !.new = row, !.keeps = keeps])
    PROVE  Begins(r)
<1>1. PICK read \in WordRow : read = words[w]
    BY DEF TInv, Tables, Stored
<1>2. PICK n : n = [Idle EXCEPT !.at = "rewrite", !.op = "rewrite", !.word = w, !.read = read,
                                !.new = row, !.keeps = keeps]
    OBVIOUS
<1>3. Start(r, n)
    BY <1>1, <1>2
<1>4. /\ n \in RequestState
      /\ n.at = "rewrite" /\ n.op = "rewrite" /\ n.word = w /\ n.read = read /\ n.new = row
      /\ n.keeps = keeps /\ n.rows = {} /\ n.inserts = {}
  <2>1. w \in Word \cup {None} /\ row \in WordRow \cup {None} /\ read \in WordRow \cup {None}
      OBVIOUS
  <2>2. PICK m1 \in RequestState : m1 = [Idle EXCEPT !.at = "rewrite"]
      BY IdleSound, WithAt DEF Ats
  <2>3. PICK m2 \in RequestState : m2 = [m1 EXCEPT !.op = "rewrite"]
      BY <2>1, WithOp
  <2>4. PICK m3 \in RequestState : m3 = [m2 EXCEPT !.word = w]
      BY <2>1, WithWord
  <2>5. PICK m4 \in RequestState : m4 = [m3 EXCEPT !.read = read]
      BY <2>1, WithRead
  <2>6. PICK m5 \in RequestState : m5 = [m4 EXCEPT !.new = row]
      BY <2>1, WithNew
  <2>7. PICK m6 \in RequestState : m6 = [m5 EXCEPT !.keeps = keeps]
      BY <2>1, WithKeeps
  <2>8. n = m6
      BY <1>2, <2>2, <2>3, <2>4, <2>5, <2>6, <2>7
  <2>9. QED
      BY <1>2, <2>8 DEF Idle
<1>5. Sound(n)
    BY <1>1, <1>4 DEF Sound, Importing
<1>6. Begun(n)
    BY <1>4 DEF Begun
<1>7. QED
    BY <1>3, <1>4, <1>5, <1>6 DEF Begins

\* Merging a translation into a list changes that language and no other.
LEMMA MergedIs ==
    ASSUME NEW D \in SUBSET Language, NEW lang, NEW blank \in BOOLEAN, lang \in Language
    PROVE  /\ Merged(D, lang, blank) \in SUBSET Language
           /\ Merged(D, lang, blank) \cap (Language \ {lang}) = D \cap (Language \ {lang})
BY DEF Merged

LEMMA UpdateBegins ==
    ASSUME TInv, NEW r \in Request, NEW w \in Word, NEW definitions \in SUBSET Language,
           UpdateWord(r, w, definitions)
    PROVE  Begins(r)
<1>1. PICK read \in WordRow : read = words[w]
    BY DEF TInv, Tables, Stored, UpdateWord
<1>2. PICK row \in WordRow : row = [key |-> read.key, definitions |-> definitions]
    BY DEF WordRow
<1>3. PICK keeps \in SUBSET Language : keeps = Idle.keeps /\ keeps = {}
    BY DEF Idle
<1>4. [Idle EXCEPT !.at = "rewrite", !.op = "rewrite", !.word = w, !.read = words[w], !.new = row]
          = [Idle EXCEPT !.at = "rewrite", !.op = "rewrite", !.word = w, !.read = words[w], !.new = row,
                         !.keeps = keeps]
    BY <1>3 DEF Idle
<1>5. Stored(w) /\ Start(r, [Idle EXCEPT !.at = "rewrite", !.op = "rewrite", !.word = w, !.read = words[w],
                                          !.new = row])
    BY <1>1, <1>2 DEF UpdateWord
<1>6. row.definitions \cap keeps = words[w].definitions \cap keeps
    BY <1>3
<1>7. Stored(w) /\ Start(r, [Idle EXCEPT !.at = "rewrite", !.op = "rewrite", !.word = w, !.read = words[w],
                                          !.new = row, !.keeps = keeps])
    BY <1>4, <1>5
<1>8. QED
    BY <1>6, <1>7, RewriteBegins

LEMMA AdminUpdateBegins ==
    ASSUME TInv, NEW r \in Request, NEW w \in Word, NEW k \in Key, NEW lang \in Language \cup {None},
           NEW blank \in BOOLEAN, AdminUpdateWord(r, w, k, lang, blank)
    PROVE  Begins(r)
<1>1. PICK read \in WordRow : read = words[w]
    BY DEF TInv, Tables, Stored, AdminUpdateWord
<1>2. read.definitions \in SUBSET Language
    BY DEF WordRow
<1>3. PICK D \in SUBSET Language :
          /\ D = IF lang = None THEN read.definitions ELSE Merged(read.definitions, lang, blank)
          /\ D \cap (Language \ {lang}) = read.definitions \cap (Language \ {lang})
    BY <1>2, MergedIs
<1>4. PICK row \in WordRow : row = [key |-> k, definitions |-> D]
    BY DEF WordRow
<1>5. row.definitions = D
    BY <1>4
<1>6. Stored(w) /\ Start(r, [Idle EXCEPT !.at = "rewrite", !.op = "rewrite", !.word = w, !.read = words[w],
                                          !.new = row, !.keeps = Language \ {lang}])
    BY <1>1, <1>3, <1>4 DEF AdminUpdateWord
<1>7. QED
    BY <1>1, <1>3, <1>5, <1>6, RewriteBegins

LEMMA TranslateBegins ==
    ASSUME TInv, NEW r \in Request, NEW w \in Word, NEW lang \in Language, TranslateWord(r, w, lang)
    PROVE  Begins(r)
<1>1. PICK read \in WordRow : read = words[w]
    BY DEF TInv, Tables, Stored, TranslateWord
<1>2. read.definitions \in SUBSET Language
    BY DEF WordRow
<1>3. PICK D \in SUBSET Language :
          /\ D = Merged(read.definitions, lang, FALSE)
          /\ D \cap (Language \ {lang}) = read.definitions \cap (Language \ {lang})
    BY <1>2, MergedIs
<1>4. PICK row \in WordRow : row = [key |-> read.key, definitions |-> D]
    BY DEF WordRow
<1>5. row.definitions = D
    BY <1>4
<1>6. Stored(w) /\ Start(r, [Idle EXCEPT !.at = "rewrite", !.op = "rewrite", !.word = w, !.read = words[w],
                                          !.new = row, !.keeps = Language \ {lang}])
    BY <1>1, <1>3, <1>4 DEF TranslateWord
<1>7. QED
    BY <1>1, <1>3, <1>5, <1>6, RewriteBegins

LEMMA EntriesBegin ==
    ASSUME NEW r \in Request, NEW entries \in Seq(Key), NEW lang \in Language, ImportEntries(r, entries, lang)
    PROVE  Begins(r)
<1>1. PICK chunks \in Seq(SUBSET Key) :
          chunks = Chunks(entries) /\ UNION {chunks[i] : i \in DOMAIN chunks} = {entries[i] : i \in DOMAIN entries}
    BY ChunksIs
<1>2. PICK all \in SUBSET Key : all = {entries[i] : i \in DOMAIN entries}
  <2>1. DOMAIN entries = 1..Len(entries) /\ \A i \in 1..Len(entries) : entries[i] \in Key
      BY LenProperties, ElementOfSeq
  <2>2. QED
      BY <2>1
<1>3. PICK keeps \in SUBSET Language : keeps = Language \ {lang}
    OBVIOUS
<1>4. PICK n : n = [Idle EXCEPT !.at = "chunk", !.op = "import", !.chunks = chunks, !.keeps = keeps,
                                !.entries = all]
    OBVIOUS
<1>5. Start(r, n)
    BY <1>1, <1>2, <1>3, <1>4 DEF ImportEntries
<1>6. /\ n \in RequestState
      /\ n.at = "chunk" /\ n.op = "import" /\ n.chunks = chunks /\ n.keeps = keeps
      /\ n.entries = all /\ n.rows = {} /\ n.inserts = {}
  <2>1. chunks \in Seq(SUBSET Key) /\ keeps \in SUBSET Language /\ all \in SUBSET Key
      OBVIOUS
  <2>2. PICK m1 \in RequestState : m1 = [Idle EXCEPT !.at = "chunk"]
      BY IdleSound, WithAt DEF Ats
  <2>3. PICK m2 \in RequestState : m2 = [m1 EXCEPT !.op = "import"]
      BY <2>1, WithOp
  <2>4. PICK m3 \in RequestState : m3 = [m2 EXCEPT !.chunks = chunks]
      BY <2>1, WithChunks
  <2>5. PICK m4 \in RequestState : m4 = [m3 EXCEPT !.keeps = keeps]
      BY <2>1, WithKeeps
  <2>6. PICK m5 \in RequestState : m5 = [m4 EXCEPT !.entries = all]
      BY <2>1, WithEntries
  <2>7. n = m5
      BY <1>4, <2>2, <2>3, <2>4, <2>5, <2>6
  <2>8. QED
      BY <1>4, <2>7 DEF Idle
<1>7. Sound(n)
    BY <1>3, <1>6 DEF Sound, Importing
<1>8. Begun(n)
    BY <1>1, <1>2, <1>6 DEF Begun
<1>9. QED
    BY <1>5, <1>6, <1>7, <1>8 DEF Begins

LEMMA ImportBegins ==
    ASSUME NEW r \in Request, import_dictionary(r)
    PROVE  Begins(r)
<1>1. PICK lines \in Imports, lang \in Language :
          \/ ImportEntries(r, Parsed(lines), lang)
          \/ \E answered : ImportEntries(r, Normalized(lines, answered), lang)
    BY DEF import_dictionary
<1>2. lines \in Seq(Key \cup {None})
    BY VocabularyAssumption
<1>3. QED
    BY <1>1, <1>2, ParsedIs, NormalizedIs, EntriesBegin

-----------------------------------------------------------------------------
(* How requests go on *)

Removing == {"remove_sentences", "remove_entry"}

\* The request goes on to `n`, neither in a removal nor in an import.
Passes(r, n) ==
    /\ req' = [req EXCEPT ![r] = n]
    /\ Sound(n)
    /\ n.rows = {} /\ n.inserts = {}
    /\ n.at \notin Removing \cup Importing

LEMMA FinishPasses ==
    ASSUME NEW r \in Request, Finish(r)
    PROVE  Passes(r, Idle) /\ Idle \in RequestState
BY IdleSound DEF Finish, Goto, Passes, Removing, Importing

LEMMA SlotIs ==
    ASSUME TInv, NEW r \in Request
    PROVE  req[r] \in RequestState /\ Sound(req[r])
BY DEF TInv

LEMMA SetTargetPasses ==
    ASSUME TInv, NEW r \in Request, SetTarget(r)
    PROVE  \E n \in RequestState : Passes(r, n)
<1>1. req[r].at = "target" /\ req[r] \in RequestState /\ Sound(req[r])
    BY SlotIs DEF SetTarget
<1>2. "word" \in Ats
    BY DEF Ats
<1>3. PICK n \in RequestState : /\ n = [req[r] EXCEPT !.at = "word"] /\ n.at = "word"
                               /\ SameRequest(n, req[r]) /\ SameWork(n, req[r])
    BY <1>1, <1>2, MoveTo
<1>4. req' = [req EXCEPT ![r] = n]
    BY <1>3 DEF SetTarget, Goto
<1>5. n.op = "capture" /\ n.user \in User /\ n.key \in Key /\ n.rows = {} /\ n.inserts = {}
    BY <1>1, <1>3 DEF Sound, Importing, SameRequest, SameWork
<1>6. Sound(n)
    BY <1>3, <1>5 DEF Sound, Importing
<1>7. QED
    BY <1>3, <1>4, <1>5, <1>6 DEF Passes, Removing, Importing

\* Where a request goes once it knows its word.
LEMMA AfterWordIs ==
    ASSUME TInv, NEW r \in Request, req[r].at \in {"word", "new_word"}, req[r].op # "create",
           NEW w \in Word, Goto(r, [req[r] EXCEPT !.at = AfterWord(req[r]), !.word = w])
    PROVE  \E n \in RequestState : Passes(r, n)
<1>1. req[r] \in RequestState /\ Sound(req[r])
    BY SlotIs
<1>2. PICK a : a = AfterWord(req[r])
    OBVIOUS
<1>3. a \in {"source", "context", "entry"}
    BY <1>2 DEF AfterWord
<1>4. PICK n \in RequestState : /\ n = [req[r] EXCEPT !.at = a, !.word = w] /\ n.at = a /\ n.word = w
                               /\ SameRequest(n, req[r]) /\ SameWork(n, req[r])
  <2>1. a \in Ats
      BY <1>3 DEF Ats
  <2>2. PICK s \in RequestState : s = req[r]
      BY <1>1
  <2>3. PICK n : MovesToWord(n, s, a, w)
      BY DEF MovesToWord
  <2>4. n \in RequestState /\ n.at = a /\ n.word = w /\ SameRequest(n, s) /\ SameWork(n, s)
      BY <2>1, <2>3, MoveToWord
  <2>5. n = [req[r] EXCEPT !.at = a, !.word = w]
      BY <2>2, <2>3 DEF MovesToWord
  <2>6. QED
      BY <2>2, <2>4, <2>5
<1>5. req' = [req EXCEPT ![r] = n]
    BY <1>2, <1>4 DEF Goto
<1>6. n.op \in {"capture", "add"} /\ n.user \in User /\ n.rows = {} /\ n.inserts = {}
    BY <1>1, <1>4 DEF Sound, Importing, SameRequest, SameWork
<1>7. n.at # "entry" => n.op = "capture"
    BY <1>2, <1>4, <1>6 DEF AfterWord, SameRequest
<1>8. n.at = "source" => n.url \in Url
  <2>1. n.url \in Url \cup {None} /\ n.url = req[r].url
      BY <1>4 DEF RequestState, SameRequest
  <2>2. n.at = "source" => req[r].url # None
      BY <1>2, <1>4 DEF AfterWord
  <2>3. QED
      BY <2>1, <2>2
<1>9. Sound(n)
    BY <1>3, <1>4, <1>6, <1>7, <1>8 DEF Sound, Importing
<1>10. QED
    BY <1>3, <1>4, <1>5, <1>6, <1>9 DEF Passes, Removing, Importing

LEMMA GetWordPasses ==
    ASSUME TInv, NEW r \in Request, GetWord(r)
    PROVE  \E n \in RequestState : Passes(r, n)
<1>1. req[r].at = "word" /\ req[r] \in RequestState /\ Sound(req[r])
    BY SlotIs DEF GetWord
<1>2. CASE Goto(r, [req[r] EXCEPT !.at = "new_word"])
  <2>1. "new_word" \in Ats
      BY DEF Ats
  <2>2. PICK n \in RequestState : /\ n = [req[r] EXCEPT !.at = "new_word"] /\ n.at = "new_word"
                                 /\ SameRequest(n, req[r]) /\ SameWork(n, req[r])
      BY <1>1, <2>1, MoveTo
  <2>3. req' = [req EXCEPT ![r] = n]
      BY <1>2, <2>2 DEF Goto
  <2>4. /\ n.key \in Key /\ n.op \in {"capture", "add", "create"}
        /\ (n.op = "create" => n.new \in WordRow /\ n.new.key = n.key) /\ (n.op # "create" => n.user \in User)
        /\ n.rows = {} /\ n.inserts = {}
      BY <1>1, <2>2 DEF Sound, Importing, SameRequest, SameWork
  <2>5. Sound(n)
      BY <2>2, <2>4 DEF Sound, Importing
  <2>6. QED
      BY <2>2, <2>3, <2>4, <2>5 DEF Passes, Removing, Importing
<1>3. CASE Finish(r)
    BY <1>3, FinishPasses
<1>4. CASE /\ req[r].op # "create"
           /\ \E w \in Word : Goto(r, [req[r] EXCEPT !.at = AfterWord(req[r]), !.word = w])
    BY <1>1, <1>4, AfterWordIs
<1>5. QED
    BY <1>2, <1>3, <1>4 DEF GetWord, RowsOf

LEMMA AfterSourceIs ==
    ASSUME TInv, NEW r \in Request, req[r].at \in {"source", "new_source"},
           NEW a \in {AfterSource(req[r]), "new_source"}, Goto(r, [req[r] EXCEPT !.at = a])
    PROVE  \E n \in RequestState : Passes(r, n)
<1>1. req[r] \in RequestState /\ Sound(req[r])
    BY SlotIs
<1>2. a \in {"new_source", "context", "entry"}
    BY DEF AfterSource
<1>3. PICK n \in RequestState : /\ n = [req[r] EXCEPT !.at = a] /\ n.at = a /\ n.word = req[r].word
                               /\ SameRequest(n, req[r]) /\ SameWork(n, req[r])
  <2>1. a \in Ats
      BY <1>2 DEF Ats
  <2>2. QED
      BY <1>1, <2>1, MoveTo
<1>4. req' = [req EXCEPT ![r] = n]
    BY <1>3 DEF Goto
<1>5. /\ n.op = "capture" /\ n.user \in User /\ n.url \in Url /\ n.word \in Word
      /\ n.rows = {} /\ n.inserts = {}
    BY <1>1, <1>3 DEF Sound, Importing, SameRequest, SameWork
<1>6. Sound(n)
    BY <1>2, <1>3, <1>5 DEF Sound, Importing
<1>7. QED
    BY <1>2, <1>3, <1>4, <1>5, <1>6 DEF Passes, Removing, Importing

LEMMA GetSourcePasses ==
    ASSUME TInv, NEW r \in Request, GetSource(r)
    PROVE  \E n \in RequestState : Passes(r, n)
<1>1. PICK a \in {AfterSource(req[r]), "new_source"} : Goto(r, [req[r] EXCEPT !.at = a])
    BY DEF GetSource
<1>2. QED
    BY <1>1, AfterSourceIs DEF GetSource

LEMMA NewSourcePasses ==
    ASSUME TInv, NEW r \in Request, NewSource(r)
    PROVE  \E n \in RequestState : Passes(r, n)
<1>1. CASE Finish(r)
    BY <1>1, FinishPasses
<1>2. CASE Goto(r, [req[r] EXCEPT !.at = AfterSource(req[r])])
    BY <1>2, AfterSourceIs DEF NewSource
<1>3. QED
    BY <1>1, <1>2 DEF NewSource

\* From a sentence or a missing entry to the entry of the same user and word.
LEMMA ToEntryIs ==
    ASSUME TInv, NEW r \in Request,
           \/ req[r].at = "context" /\ Goto(r, [req[r] EXCEPT !.at = "entry"])
           \/ req[r].at = "entry" /\ Goto(r, [req[r] EXCEPT !.at = "new_entry"])
    PROVE  \E n \in RequestState :
              /\ Passes(r, n) /\ n.at \in {"entry", "new_entry"}
              /\ n.op = req[r].op /\ n.user = req[r].user /\ n.word = req[r].word
<1>1. req[r] \in RequestState /\ Sound(req[r])
    BY SlotIs
<1>2. PICK a \in {"entry", "new_entry"} : Goto(r, [req[r] EXCEPT !.at = a])
    OBVIOUS
<1>3. PICK n \in RequestState : /\ n = [req[r] EXCEPT !.at = a] /\ n.at = a /\ n.word = req[r].word
                               /\ SameRequest(n, req[r]) /\ SameWork(n, req[r])
  <2>1. a \in Ats
      BY <1>2 DEF Ats
  <2>2. QED
      BY <1>1, <2>1, MoveTo
<1>4. req' = [req EXCEPT ![r] = n]
    BY <1>2, <1>3 DEF Goto
<1>5. /\ n.op = req[r].op /\ n.user = req[r].user /\ n.word = req[r].word
      /\ n.op \in {"capture", "add"} /\ n.user \in User /\ n.word \in Word
      /\ n.rows = {} /\ n.inserts = {}
    BY <1>1, <1>3 DEF Sound, Importing, SameRequest, SameWork
<1>6. Sound(n)
    BY <1>2, <1>3, <1>5 DEF Sound, Importing
<1>7. QED
    BY <1>2, <1>3, <1>4, <1>5, <1>6 DEF Passes, Removing, Importing

LEMMA ToReloadIs ==
    ASSUME TInv, NEW r \in Request, req[r].at \in {"entry", "new_entry"}, NEW e \in Entry,
           Goto(r, [req[r] EXCEPT !.at = "reload", !.entry = e])
    PROVE  \E n \in RequestState : Passes(r, n)
<1>1. req[r] \in RequestState /\ Sound(req[r])
    BY SlotIs
<1>2. "reload" \in Ats
    BY DEF Ats
<1>3. PICK n \in RequestState : /\ n = [req[r] EXCEPT !.at = "reload", !.entry = e] /\ n.at = "reload"
                               /\ SameRequest(n, req[r]) /\ SameWork(n, req[r])
  <2>1. PICK s \in RequestState : s = req[r]
      BY <1>1
  <2>2. PICK n : MovesToEntry(n, s, "reload", e)
      BY DEF MovesToEntry
  <2>3. n \in RequestState /\ n.at = "reload" /\ SameRequest(n, s) /\ SameWork(n, s)
      BY <1>2, <2>2, MoveToEntry
  <2>4. n = [req[r] EXCEPT !.at = "reload", !.entry = e]
      BY <2>1, <2>2 DEF MovesToEntry
  <2>5. QED
      BY <2>1, <2>3, <2>4
<1>4. req' = [req EXCEPT ![r] = n]
    BY <1>3 DEF Goto
<1>5. n.rows = {} /\ n.inserts = {}
    BY <1>1, <1>3 DEF Sound, Importing, SameWork
<1>6. Sound(n)
    BY <1>3, <1>5 DEF Sound, Importing
<1>7. QED
    BY <1>3, <1>4, <1>5, <1>6 DEF Passes, Removing, Importing

LEMMA GetEntryPasses ==
    ASSUME TInv, NEW r \in Request, GetEntry(r)
    PROVE  \E n \in RequestState :
              /\ Passes(r, n)
              /\ \/ EntriesOf(req[r].user, req[r].word) # {}
                 \/ /\ n.at = "new_entry" /\ n.op = req[r].op
                    /\ n.user = req[r].user /\ n.word = req[r].word
<1>1. req[r].at = "entry"
    BY DEF GetEntry
<1>2. CASE Goto(r, [req[r] EXCEPT !.at = "new_entry"])
  <2>1. "new_entry" \in Ats /\ req[r] \in RequestState
      BY SlotIs DEF Ats
  <2>2. [req[r] EXCEPT !.at = "new_entry"].at = "new_entry"
      BY <2>1, MoveTo
  <2>3. PICK n \in RequestState : /\ Passes(r, n) /\ n.at \in {"entry", "new_entry"}
              /\ n.op = req[r].op /\ n.user = req[r].user /\ n.word = req[r].word
      BY <1>1, <1>2, ToEntryIs
  <2>4. n = [req[r] EXCEPT !.at = "new_entry"]
      BY <1>2, <2>3 DEF Passes, Goto, TInv
  <2>5. QED
      BY <2>2, <2>3, <2>4
<1>3. CASE Finish(r) /\ EntriesOf(req[r].user, req[r].word) # {}
    BY <1>3, FinishPasses
<1>4. CASE /\ EntriesOf(req[r].user, req[r].word) # {}
           /\ \E e \in Entry : Goto(r, [req[r] EXCEPT !.at = "reload", !.entry = e])
    BY <1>1, <1>4, ToReloadIs
<1>5. QED
    BY <1>2, <1>3, <1>4 DEF GetEntry, EntriesOf

LEMMA NewWordPasses ==
    ASSUME TInv, NEW r \in Request, NewWord(r)
    PROVE  \E n \in RequestState : Passes(r, n)
<1>1. req[r].at = "new_word"
    BY DEF NewWord
<1>2. CASE Finish(r)
    BY <1>2, FinishPasses
<1>3. CASE /\ req[r].op # "create"
           /\ \E w \in Word : Goto(r, [req[r] EXCEPT !.at = AfterWord(req[r]), !.word = w])
    BY <1>1, <1>3, AfterWordIs
<1>4. CASE ~Finish(r)
  <2>1. PICK w : w = CHOOSE v \in Word : FreshWord(v)
      OBVIOUS
  <2>2. (\E v \in Word : FreshWord(v)) => w \in Word
      BY <2>1
  <2>3. QED
      BY <1>3, <1>4, <2>1, <2>2 DEF NewWord
<1>5. QED
    BY <1>2, <1>4

LEMMA NewContextPasses ==
    ASSUME TInv, NEW r \in Request, NewContext(r)
    PROVE  \E n \in RequestState :
              /\ Passes(r, n)
              /\ contexts' # contexts =>
                    /\ n.at \in {"entry", "new_entry"}
                    /\ n.op = "capture" /\ n.user = req[r].user /\ n.word = req[r].word
<1>1. req[r].at = "context" /\ req[r].op = "capture"
    BY SlotIs DEF NewContext, Sound
<1>2. CASE Finish(r) /\ contexts' = contexts
    BY <1>2, FinishPasses
<1>3. CASE Goto(r, [req[r] EXCEPT !.at = "entry"])
    BY <1>1, <1>3, ToEntryIs
<1>4. QED
    BY <1>2, <1>3 DEF NewContext

LEMMA NewEntryPasses ==
    ASSUME TInv, NEW r \in Request, NewEntry(r)
    PROVE  \E n \in RequestState : Passes(r, n)
<1>1. req[r].at = "new_entry"
    BY DEF NewEntry
<1>2. CASE Finish(r)
    BY <1>2, FinishPasses
<1>3. CASE \E e \in Entry : Goto(r, [req[r] EXCEPT !.at = "reload", !.entry = e])
    BY <1>1, <1>3, ToReloadIs
<1>4. CASE ~Finish(r)
  <2>1. PICK e : e = CHOOSE d \in Entry : FreshEntry(d)
      OBVIOUS
  <2>2. (\E d \in Entry : FreshEntry(d)) => e \in Entry
      BY <2>1
  <2>3. QED
      BY <1>3, <1>4, <2>1, <2>2 DEF NewEntry
<1>5. QED
    BY <1>2, <1>4

\* The request goes on to `n` and takes no new lock.
Takes(r, n) ==
    /\ req' = [req EXCEPT ![r] = n]
    /\ Sound(n)
    /\ n.rows \subseteq req[r].rows /\ n.inserts \subseteq req[r].inserts

LEMMA PassesTakes ==
    ASSUME NEW r, NEW n, Passes(r, n)
    PROVE  Takes(r, n)
BY DEF Passes, Takes

LEMMA BeginsTakes ==
    ASSUME NEW r, NEW n, Start(r, n), Sound(n), Begun(n)
    PROVE  Takes(r, n)
BY DEF Start, Goto, Begun, Takes

LEMMA RemoveSentencesTakes ==
    ASSUME TInv, NEW r \in Request, RemoveSentences(r)
    PROVE  \E n \in RequestState :
              /\ Takes(r, n)
              /\ n.at = "remove_entry" /\ n.op = req[r].op /\ n.user = req[r].user
              /\ n.word = req[r].word /\ n.entry = req[r].entry
              /\ n.rows = {} /\ n.inserts = {}
<1>1. req[r].at = "remove_sentences" /\ req[r] \in RequestState /\ Sound(req[r])
    BY SlotIs DEF RemoveSentences
<1>2. "remove_entry" \in Ats
    BY DEF Ats
<1>3. PICK n \in RequestState : /\ n = [req[r] EXCEPT !.at = "remove_entry"]
                               /\ n.at = "remove_entry" /\ n.word = req[r].word /\ n.entry = req[r].entry
                               /\ SameRequest(n, req[r]) /\ SameWork(n, req[r])
    BY <1>1, <1>2, MoveTo
<1>4. req' = [req EXCEPT ![r] = n]
    BY <1>3 DEF RemoveSentences, Goto
<1>5. /\ n.op = req[r].op /\ n.user = req[r].user /\ n.op = "remove"
      /\ n.user \in User /\ n.word \in Word /\ n.entry \in Entry /\ n.rows = {} /\ n.inserts = {}
    BY <1>1, <1>3 DEF Sound, Importing, SameRequest, SameWork
<1>6. Sound(n)
    BY <1>3, <1>5 DEF Sound, Importing
<1>7. QED
    BY <1>3, <1>4, <1>5, <1>6 DEF Takes

LEMMA ReadChunkTakes ==
    ASSUME TInv, NEW r \in Request, ReadChunk(r)
    PROVE  \E n \in RequestState :
              /\ Takes(r, n)
              /\ n.at \in {"flush", "commit"}
              /\ n.chunks = req[r].chunks /\ n.rows = req[r].rows /\ n.inserts = req[r].inserts
              /\ n.keeps = req[r].keeps /\ n.entries = req[r].entries
              /\ n.at = "flush" => n.found = {<<w, words[w]>> : w \in RowsOf(Head(req[r].chunks))}
<1>1. req[r].at = "chunk" /\ req[r] \in RequestState /\ Sound(req[r])
    BY SlotIs DEF ReadChunk
<1>2. "commit" \in Ats
    BY DEF Ats
<1>3. CASE req[r].chunks = <<>>
  <2>1. PICK n \in RequestState : /\ n = [req[r] EXCEPT !.at = "commit"] /\ n.at = "commit"
                                 /\ SameRequest(n, req[r]) /\ SameWork(n, req[r])
      BY <1>1, <1>2, MoveTo
  <2>2. req' = [req EXCEPT ![r] = n]
      BY <1>3, <2>1 DEF ReadChunk, Goto
  <2>3. /\ n.op = "import" /\ (\E l \in Language : l \notin n.keeps) /\ n.chunks = <<>>
        /\ n.chunks = req[r].chunks /\ n.rows = req[r].rows /\ n.inserts = req[r].inserts
        /\ n.keeps = req[r].keeps /\ n.entries = req[r].entries
      BY <1>1, <1>3, <2>1 DEF Sound, Importing, SameRequest, SameWork
  <2>4. Sound(n)
      BY <2>1, <2>3 DEF Sound, Importing
  <2>5. QED
      BY <2>1, <2>2, <2>3, <2>4 DEF Takes
<1>4. CASE req[r].chunks # <<>>
  <2>1. PICK found : found = {<<w, words[w]>> : w \in RowsOf(Head(req[r].chunks))}
      OBVIOUS
  <2> found \in SUBSET (Word \X WordRow)
      BY <2>1 DEF RowsOf, Stored, TInv, Tables
  <2>2. PICK n \in RequestState : /\ n = [req[r] EXCEPT !.at = "flush", !.found = found]
                                 /\ n.at = "flush" /\ n.found = found
                                 /\ n.chunks = req[r].chunks /\ n.rows = req[r].rows /\ n.inserts = req[r].inserts
                                 /\ SameRequest(n, req[r])
    <3>1. PICK s \in RequestState : s = req[r]
        BY <1>1
    <3>2. PICK n : MovesToFlush(n, s, found)
        BY DEF MovesToFlush
    <3>3. /\ n \in RequestState /\ n.at = "flush" /\ n.found = found
          /\ n.chunks = s.chunks /\ n.rows = s.rows /\ n.inserts = s.inserts
          /\ SameRequest(n, s)
        BY <3>2, MoveToFlush
    <3>4. n = [req[r] EXCEPT !.at = "flush", !.found = found]
        BY <3>1, <3>2 DEF MovesToFlush
    <3>5. QED
        BY <3>1, <3>3, <3>4
  <2>3. req' = [req EXCEPT ![r] = n]
      BY <1>4, <2>1, <2>2 DEF ReadChunk, Goto
  <2>4. /\ n.op = "import" /\ (\E l \in Language : l \notin n.keeps) /\ n.chunks # <<>>
        /\ n.keeps = req[r].keeps /\ n.entries = req[r].entries
      BY <1>1, <1>4, <2>2 DEF Sound, Importing, SameRequest
  <2>5. Sound(n)
      BY <2>2, <2>4 DEF Sound, Importing
  <2>6. QED
      BY <2>1, <2>2, <2>3, <2>4, <2>5 DEF Takes
<1>5. QED
    BY <1>3, <1>4

LEMMA LangIs ==
    ASSUME NEW s, \E l \in Language : l \notin s.keeps
    PROVE  Lang(s) \in Language /\ Lang(s) \notin s.keeps
BY DEF Lang

\* What a flush writes to the words it found.
Updates(state) ==
    {<<row[1], Merged(row[2].definitions, Lang(state), FALSE)>> : row \in state.found}

\* The flush succeeds and takes its locks.
Flushes(r, n) ==
    /\ req' = [req EXCEPT ![r] = n]
    /\ Sound(n)
    /\ n.at = "chunk" /\ n.chunks = Tail(req[r].chunks)
    /\ n.rows = req[r].rows \cup Updates(req[r]) /\ n.inserts = req[r].inserts \cup NewKeys(req[r])
    /\ n.keeps = req[r].keeps /\ n.entries = req[r].entries
    /\ \A row \in req[r].found : Stored(row[1])
    /\ RowsOf(NewKeys(req[r])) = {}
    /\ raced' = raced \cup {row[1] : row \in {row \in req[r].found : row[2] # words[row[1]]}}

LEMMA FlushIs ==
    ASSUME TInv, NEW r \in Request, Flush(r)
    PROVE  \/ Passes(r, Idle) /\ raced' = raced
           \/ \E n \in RequestState : Flushes(r, n)
<1>1. req[r].at = "flush" /\ req[r] \in RequestState /\ Sound(req[r])
    BY SlotIs DEF Flush
<1>2. CASE Finish(r) /\ raced' = raced
    BY <1>2, FinishPasses
<1>3. CASE ~(Finish(r) /\ raced' = raced)
  <2>1. req[r].chunks # <<>> /\ req[r].op = "import" /\ \E l \in Language : l \notin req[r].keeps
      BY <1>1 DEF Sound, Importing
  <2>2. PICK keys : keys = NewKeys(req[r])
      OBVIOUS
  <2> keys \in SUBSET Key
    <3>1. req[r].chunks \in Seq(SUBSET Key)
        BY <1>1 DEF RequestState
    <3>2. Head(req[r].chunks) \in SUBSET Key
        BY <2>1, <3>1, HeadTailProperties
    <3>3. QED
        BY <2>2, <3>2 DEF NewKeys
  <2>3. PICK updates : updates = Updates(req[r])
      OBVIOUS
  <2> updates \in SUBSET (Word \X SUBSET Language)
    <3>1. req[r].found \in SUBSET (Word \X WordRow)
        BY <1>1 DEF RequestState
    <3>2. ASSUME NEW row \in req[r].found
          PROVE  <<row[1], Merged(row[2].definitions, Lang(req[r]), FALSE)>> \in Word \X SUBSET Language
      <4>1. row[1] \in Word /\ row[2].definitions \in SUBSET Language
          BY <3>1 DEF WordRow
      <4>2. Merged(row[2].definitions, Lang(req[r]), FALSE) \in SUBSET Language
          BY <2>1, <4>1, LangIs, MergedIs
      <4>3. QED
          BY <4>1, <4>2
    <3>3. QED
        BY <2>3, <3>2 DEF Updates
  <2>4. /\ \A row \in req[r].found : Stored(row[1])
        /\ RowsOf(keys) = {}
        /\ Goto(r, [req[r] EXCEPT !.at = "chunk", !.chunks = Tail(@), !.found = {},
                                  !.rows = @ \cup updates, !.inserts = @ \cup keys])
        /\ raced' = raced \cup {row[1] : row \in {row \in req[r].found : row[2] # words[row[1]]}}
      BY <1>3, <2>2, <2>3 DEF Flush, Updates, Lang
  <2>5. PICK s \in RequestState : s = req[r]
      BY <1>1
  <2>6. PICK n : MovesToChunk(n, s, updates, keys)
      BY DEF MovesToChunk
  <2>7. /\ n \in RequestState
        /\ n.at = "chunk" /\ n.chunks = Tail(s.chunks) /\ n.found = {}
        /\ n.rows = s.rows \cup updates /\ n.inserts = s.inserts \cup keys
        /\ SameRequest(n, s)
      BY <2>1, <2>5, <2>6, MoveToChunk
  <2>8. n = [req[r] EXCEPT !.at = "chunk", !.chunks = Tail(@), !.found = {},
                           !.rows = @ \cup updates, !.inserts = @ \cup keys]
      BY <2>5, <2>6 DEF MovesToChunk
  <2>9. req' = [req EXCEPT ![r] = n]
      BY <2>4, <2>8 DEF Goto
  <2>10. n.op = "import" /\ n.keeps = req[r].keeps /\ n.entries = req[r].entries
      BY <2>1, <2>5, <2>7 DEF SameRequest
  <2>11. Sound(n)
      BY <2>1, <2>7, <2>10 DEF Sound, Importing
  <2>12. QED
      BY <2>2, <2>3, <2>4, <2>5, <2>7, <2>9, <2>10, <2>11 DEF Flushes
<1>4. QED
    BY <1>2, <1>3

-----------------------------------------------------------------------------
(* TypeOK is invariant *)

LEMMA SlotsNext ==
    ASSUME TInv, NEW r \in Request, NEW n \in RequestState, req' = [req EXCEPT ![r] = n], Sound(n)
    PROVE  /\ (req \in [Request -> RequestState])'
           /\ req'[r] = n /\ \A s \in Request \ {r} : req'[s] = req[s]
           /\ \A s \in Request : Sound(req'[s])
BY DEF TInv

LEMMA LocksStay ==
    ASSUME TInv, NEW r \in Request, NEW n \in RequestState, Takes(r, n), words' = words
    PROVE  LocksSound'
<1>1. /\ req'[r] = n /\ \A s \in Request \ {r} : req'[s] = req[s]
      /\ n.rows \subseteq req[r].rows /\ n.inserts \subseteq req[r].inserts
    BY SlotsNext DEF Takes
<1>2. \A s \in Request : req'[s].rows \subseteq req[s].rows /\ req'[s].inserts \subseteq req[s].inserts
    BY <1>1
<1>3. LocksSound
    BY DEF TInv
<1>4. \A s \in Request : \A row \in req'[s].rows : words'[row[1]] # None
    BY <1>2, <1>3 DEF LocksSound, Stored
<1>5. \A s \in Request : \A w \in Word : words'[w] # None => words'[w].key \notin req'[s].inserts
    BY <1>2, <1>3 DEF LocksSound, RowsOf, Stored
<1>6. \A q, s \in Request : q # s =>
          /\ req'[q].inserts \cap req'[s].inserts = {}
          /\ \A a \in req'[q].rows, b \in req'[s].rows : a[1] # b[1]
  <2> SUFFICES ASSUME NEW q \in Request, NEW s \in Request, q # s
               PROVE  /\ req'[q].inserts \cap req'[s].inserts = {}
                      /\ \A a \in req'[q].rows, b \in req'[s].rows : a[1] # b[1]
      OBVIOUS
  <2>1. /\ req[q].inserts \cap req[s].inserts = {}
        /\ \A a \in req[q].rows, b \in req[s].rows : a[1] # b[1]
      BY <1>3 DEF LocksSound
  <2>2. QED
      BY <1>2, <2>1
<1>7. QED
    BY <1>4, <1>5, <1>6 DEF LocksSound, RowsOf, Stored

LEMMA LocksMove ==
    ASSUME TInv, NEW r \in Request, NEW n \in RequestState, Passes(r, n),
           \A w \in Word : Stored(w) => words'[w] # None,
           \A s \in Request \ {r} : \A w \in Word : words'[w] # None => words'[w].key \notin req[s].inserts
    PROVE  LocksSound'
<1>1. /\ req'[r] = n /\ \A s \in Request \ {r} : req'[s] = req[s]
      /\ n.rows = {} /\ n.inserts = {}
    BY SlotsNext DEF Passes
<1>2. LocksSound
    BY DEF TInv
<1>3. \A s \in Request \ {r} : req[s].rows \in SUBSET (Word \X SUBSET Language)
    BY DEF TInv, RequestState
<1>4. \A s \in Request : \A row \in req'[s].rows : words'[row[1]] # None
  <2> SUFFICES ASSUME NEW s \in Request, NEW row \in req'[s].rows
               PROVE  words'[row[1]] # None
      OBVIOUS
  <2>1. s # r /\ row \in req[s].rows
      BY <1>1
  <2>2. Stored(row[1]) /\ row[1] \in Word
      BY <1>2, <1>3, <2>1 DEF LocksSound
  <2>3. QED
      BY <2>2
<1>5. \A s \in Request : \A w \in Word : words'[w] # None => words'[w].key \notin req'[s].inserts
    BY <1>1
<1>6. \A q, s \in Request : q # s =>
          /\ req'[q].inserts \cap req'[s].inserts = {}
          /\ \A a \in req'[q].rows, b \in req'[s].rows : a[1] # b[1]
  <2> SUFFICES ASSUME NEW q \in Request, NEW s \in Request, q # s
               PROVE  /\ req'[q].inserts \cap req'[s].inserts = {}
                      /\ \A a \in req'[q].rows, b \in req'[s].rows : a[1] # b[1]
      OBVIOUS
  <2>1. /\ req[q].inserts \cap req[s].inserts = {}
        /\ \A a \in req[q].rows, b \in req[s].rows : a[1] # b[1]
      BY <1>2 DEF LocksSound
  <2>2. QED
      BY <1>1, <2>1
<1>7. QED
    BY <1>4, <1>5, <1>6 DEF LocksSound, RowsOf, Stored

\* A step of a request that leaves the three tables alone and takes no lock.
LEMMA TypeOfMove ==
    ASSUME TInv, NEW r \in Request, NEW n \in RequestState, Takes(r, n),
           UNCHANGED <<words, user_words, contexts>>, Notes'
    PROVE  TInv'
<1>1. LocksSound'
    BY LocksStay
<1>2. (req \in [Request -> RequestState])' /\ (\A s \in Request : Sound(req[s]))'
    BY SlotsNext DEF Takes
<1>3. Tables'
    BY DEF TInv, Tables, Stored
<1>4. QED
    BY <1>1, <1>2, <1>3 DEF TInv

\* The same, with the tables of users and sentences checked apart.
LEMMA TypeOfTables ==
    ASSUME TInv, NEW r \in Request, NEW n \in RequestState, Takes(r, n),
           words' = words, Tables', Notes'
    PROVE  TInv'
<1>1. LocksSound'
    BY LocksStay
<1>2. (req \in [Request -> RequestState])' /\ (\A s \in Request : Sound(req[s]))'
    BY SlotsNext DEF Takes
<1>3. QED
    BY <1>1, <1>2 DEF TInv

LEMMA TypeInit == Init => TInv
<1> SUFFICES ASSUME Init PROVE TInv
    OBVIOUS
<1>1. <<>> \in Seq(Context)
    BY EmptySeq
<1>2. Tables
    BY <1>1 DEF Init, Tables, Stored
<1>3. Notes
    BY VocabularyAssumption DEF Init, Notes
<1>4. req \in [Request -> RequestState] /\ \A r \in Request : Sound(req[r])
    BY IdleSound DEF Init
<1>5. LocksSound
    BY IdleSound DEF Init, LocksSound, RowsOf
<1>6. QED
    BY <1>2, <1>3, <1>4, <1>5 DEF TInv

LEMMA TypeOfBegins ==
    ASSUME TInv, NEW r \in Request, Begins(r)
    PROVE  TInv'
<1>1. PICK n \in RequestState : Start(r, n) /\ Sound(n) /\ Begun(n)
    BY DEF Begins
<1>2. Takes(r, n)
    BY <1>1, BeginsTakes
<1>3. Notes'
    BY <1>1, VocabularyAssumption DEF Start, history, TInv, Notes
<1>4. UNCHANGED <<words, user_words, contexts>>
    BY <1>1 DEF Start
<1>5. QED
    BY <1>2, <1>3, <1>4, TypeOfMove

LEMMA TypeOfReads ==
    ASSUME TInv, NEW r \in Request,
           \/ SetTarget(r) \/ GetWord(r) \/ GetSource(r) \/ NewSource(r)
           \/ GetEntry(r) \/ Reload(r) \/ ReadChunk(r) \/ BreakDeadlock(r) \/ Abort(r)
    PROVE  TInv'
<1>1. Sound(req[r]) /\ req[r] \in RequestState
    BY SlotIs
<1>2. CASE SetTarget(r)
  <2>1. PICK n \in RequestState : Takes(r, n)
      BY <1>2, SetTargetPasses, PassesTakes
  <2>2. req[r].user \in User /\ LanguageOf[req[r].key] \in Language
      BY <1>1, <1>2, VocabularyAssumption DEF SetTarget, Sound
  <2>3. Notes'
      BY <1>2, <2>2 DEF SetTarget, history, TInv, Notes
  <2>4. UNCHANGED <<words, user_words, contexts>>
      BY <1>2 DEF SetTarget
  <2>5. QED
      BY <2>1, <2>3, <2>4, TypeOfMove
<1>3. CASE NewSource(r)
  <2>1. PICK n \in RequestState : Takes(r, n)
      BY <1>3, NewSourcePasses, PassesTakes
  <2>2. req[r].user \in User /\ req[r].url \in Url
      BY <1>1, <1>3 DEF NewSource, Sound
  <2>3. Notes'
      BY <1>3, <2>2 DEF NewSource, history, TInv, Notes
  <2>4. UNCHANGED <<words, user_words, contexts>>
      BY <1>3 DEF NewSource
  <2>5. QED
      BY <2>1, <2>3, <2>4, TypeOfMove
<1>4. CASE Abort(r)
  <2>1. Takes(r, Idle) /\ Idle \in RequestState
      BY <1>4, FinishPasses, PassesTakes DEF Abort
  <2>2. torn' \in SUBSET (User \X Word)
    <3>1. req[r].at \in {"entry", "new_entry"} => req[r].user \in User /\ req[r].word \in Word
        BY <1>1 DEF Sound
    <3>2. torn \in SUBSET (User \X Word)
        BY DEF TInv, Notes
    <3>3. QED
        BY <1>4, <3>1, <3>2 DEF Abort
  <2>3. Notes'
      BY <1>4, <2>2 DEF Abort, TInv, Notes
  <2>4. UNCHANGED <<words, user_words, contexts>>
      BY <1>4 DEF Abort
  <2>5. QED
      BY <2>1, <2>3, <2>4, TypeOfMove
<1>5. CASE GetWord(r) \/ GetSource(r) \/ GetEntry(r) \/ Reload(r) \/ ReadChunk(r) \/ BreakDeadlock(r)
  <2>1. \E n \in RequestState : Takes(r, n)
    <3>1. CASE GetWord(r)
        BY <3>1, GetWordPasses, PassesTakes
    <3>2. CASE GetSource(r)
        BY <3>2, GetSourcePasses, PassesTakes
    <3>3. CASE GetEntry(r)
        BY <3>3, GetEntryPasses, PassesTakes
    <3>4. CASE ReadChunk(r)
        BY <3>4, ReadChunkTakes
    <3>5. CASE Reload(r) \/ BreakDeadlock(r)
        BY <3>5, FinishPasses, PassesTakes DEF Reload, BreakDeadlock
    <3>6. QED
        BY <1>5, <3>1, <3>2, <3>3, <3>4, <3>5
  <2>2. UNCHANGED <<words, user_words, contexts, sources, target, started, history>>
      BY <1>5 DEF GetWord, GetSource, GetEntry, Reload, ReadChunk, BreakDeadlock
  <2>3. Notes'
      BY <2>2 DEF history, TInv, Notes
  <2>4. QED
      BY <2>1, <2>2, <2>3, TypeOfMove
<1>6. QED
    BY <1>2, <1>3, <1>4, <1>5

\* A capture or a create puts a new row under its key, in a free place.
Creates(r, w, row) ==
    /\ FreshWord(w) /\ RowsOf({row.key}) = {} /\ ~LockedKey(r, row.key)
    /\ words' = [words EXCEPT ![w] = row]
    /\ known' = [known EXCEPT ![w] = row.definitions]
    /\ raced' = raced \ {w}
    /\ torn' = {t \in torn : t[2] # w}

LEMMA NewWordIs ==
    ASSUME TInv, NEW r \in Request, NewWord(r)
    PROVE  \/ UNCHANGED <<words, history>>
           \/ \E w \in Word, row \in WordRow : Creates(r, w, row)
<1>1. Sound(req[r]) /\ req[r].at = "new_word"
    BY SlotIs DEF NewWord
<1>2. CASE RowsOf({req[r].key}) # {}
    BY <1>2 DEF NewWord
<1>3. CASE RowsOf({req[r].key}) = {}
  <2>1. PICK w \in Word : w = (CHOOSE v \in Word : FreshWord(v)) /\ FreshWord(w)
      BY <1>3 DEF NewWord
  <2>2. PICK row : row = IF req[r].op = "create" THEN req[r].new
                         ELSE [key |-> req[r].key, definitions |-> {}]
      OBVIOUS
  <2>3. row \in WordRow /\ row.key = req[r].key
    <3>1. req[r].op = "create" => req[r].new \in WordRow /\ req[r].new.key = req[r].key
        BY <1>1 DEF Sound
    <3>2. /\ [key |-> req[r].key, definitions |-> {}] \in WordRow
          /\ [key |-> req[r].key, definitions |-> {}].key = req[r].key
        BY <1>1 DEF Sound, WordRow
    <3>3. QED
        BY <2>2, <3>1, <3>2
  <2>4. Creates(r, w, row)
      BY <1>3, <2>1, <2>2, <2>3 DEF NewWord, Creates
  <2>5. QED
      BY <2>3, <2>4
<1>4. QED
    BY <1>2, <1>3

LEMMA TypeOfNewWord ==
    ASSUME TInv, NEW r \in Request, NewWord(r)
    PROVE  TInv'
<1>1. PICK n \in RequestState : Passes(r, n)
    BY NewWordPasses
<1>2. UNCHANGED <<user_words, contexts, sources, target, started>>
    BY DEF NewWord
<1>3. CASE UNCHANGED <<words, history>>
  <2>1. Notes'
      BY <1>2, <1>3 DEF history, TInv, Notes
  <2>2. QED
      BY <1>1, <1>2, <1>3, <2>1, PassesTakes, TypeOfMove
<1>4. CASE \E w \in Word, row \in WordRow : Creates(r, w, row)
  <2>1. PICK w \in Word, row \in WordRow : Creates(r, w, row)
      BY <1>4
  <2>2. /\ words' = [words EXCEPT ![w] = row] /\ ~Stored(w)
        /\ \A v \in Word : Stored(v) => words[v].key # row.key
        /\ words \in [Word -> WordRow \cup {None}]
      BY <2>1 DEF Creates, FreshWord, RowsOf, TInv, Tables
  <2>3. words' \in [Word -> WordRow \cup {None}]
      BY <2>2
  <2>4. /\ words'[w] = row /\ \A v \in Word \ {w} : words'[v] = words[v]
        /\ \A v \in Word : Stored(v) => words'[v] # None
      BY <2>2 DEF Stored
  <2>5. Tables'
    <3>1. \A v, x \in Word : (words'[v] # None /\ words'[x] # None /\ words'[v].key = words'[x].key) => v = x
      <4>1. \A v, x \in Word : (Stored(v) /\ Stored(x) /\ words[v].key = words[x].key) => v = x
          BY DEF TInv, Tables
      <4>2. \A v \in Word \ {w} : words'[v] # None => words'[v].key # row.key
          BY <2>2, <2>4 DEF Stored
      <4>3. QED
          BY <2>4, <4>1, <4>2 DEF Stored
    <3>2. \A e \in Entry : user_words[e] # None => words'[user_words[e].word] # None
        BY <2>4 DEF TInv, Tables, UserWord
    <3>3. \A i \in DOMAIN contexts : words'[contexts[i].word] # None
      <4>1. \A i \in DOMAIN contexts : Stored(contexts[i].word) /\ contexts[i] \in Context
          BY ElementOfSeq, LenProperties DEF TInv, Tables
      <4>2. QED
          BY <2>4, <4>1 DEF Context
    <3>4. QED
        BY <1>2, <2>3, <3>1, <3>2, <3>3 DEF TInv, Tables, Stored
  <2>6. Notes'
    <3>1. row.definitions \in SUBSET Language
        BY DEF WordRow
    <3>2. known' \in [Word -> SUBSET Language] /\ raced' \in SUBSET Word /\ torn' \in SUBSET (User \X Word)
        BY <2>1, <3>1 DEF Creates, TInv, Notes
    <3>3. QED
        BY <1>2, <3>2 DEF TInv, Notes
  <2>7. \A s \in Request \ {r} : \A v \in Word : words'[v] # None => words'[v].key \notin req[s].inserts
    <3>1. \A s \in Request \ {r} : row.key \notin req[s].inserts
        BY <2>1 DEF Creates, LockedKey
    <3>2. \A s \in Request : \A v \in Word : Stored(v) => words[v].key \notin req[s].inserts
        BY DEF TInv, LocksSound, RowsOf
    <3>3. QED
        BY <2>4, <3>1, <3>2 DEF Stored
  <2>8. LocksSound'
      BY <1>1, <2>4, <2>7, LocksMove
  <2>9. (req \in [Request -> RequestState])' /\ (\A s \in Request : Sound(req[s]))'
      BY <1>1, SlotsNext DEF Passes
  <2>10. QED
      BY <2>5, <2>6, <2>8, <2>9 DEF TInv
<1>5. QED
    BY <1>3, <1>4, NewWordIs

LEMMA TypeOfNewContext ==
    ASSUME TInv, NEW r \in Request, NewContext(r)
    PROVE  TInv'
<1>1. PICK n \in RequestState : Takes(r, n)
    BY NewContextPasses, PassesTakes
<1>2. /\ req[r].user \in User /\ req[r].word \in Word
      /\ UNCHANGED <<words, user_words, sources, target, started, known, raced>>
    BY SlotIs DEF NewContext, Sound
<1>3. torn' \in SUBSET (User \X Word)
    BY <1>2 DEF NewContext, TInv, Notes
<1>4. Notes'
    BY <1>2, <1>3 DEF TInv, Notes
<1>5. CASE contexts' = contexts
    BY <1>1, <1>2, <1>4, <1>5, TypeOfMove
<1>6. CASE contexts' # contexts
  <2>1. PICK c \in Context : /\ c = [user |-> req[r].user, word |-> req[r].word]
                            /\ contexts' = Append(contexts, c) /\ Stored(c.word)
      BY <1>2, <1>6 DEF NewContext, Context
  <2>2. contexts \in Seq(Context) /\ \A i \in DOMAIN contexts : Stored(contexts[i].word)
      BY DEF TInv, Tables
  <2>3. PICK added : added = Append(contexts, c)
      OBVIOUS
  <2>4. /\ added \in Seq(Context)
        /\ \A i \in DOMAIN added : Stored(added[i].word)
    <3>1. /\ added \in Seq(Context) /\ Len(added) = Len(contexts) + 1 /\ Len(contexts) \in Nat
          /\ \A i \in 1..Len(contexts) : added[i] = contexts[i]
          /\ added[Len(contexts) + 1] = c
          /\ DOMAIN added = 1..Len(added) /\ DOMAIN contexts = 1..Len(contexts)
        BY <2>2, <2>3, AppendProperties, LenProperties
    <3>2. QED
        BY <2>1, <2>2, <3>1
  <2>5. Tables'
      BY <1>2, <2>1, <2>3, <2>4 DEF TInv, Tables, Stored
  <2>6. QED
      BY <1>1, <1>2, <1>4, <2>5, TypeOfTables
<1>7. QED
    BY <1>5, <1>6

LEMMA NewEntryIs ==
    ASSUME TInv, NEW r \in Request, NewEntry(r)
    PROVE  \/ /\ UNCHANGED <<user_words, torn>>
              /\ EntriesOf(req[r].user, req[r].word) # {} \/ ~Stored(req[r].word)
           \/ \E e \in Entry :
                 /\ FreshEntry(e) /\ EntriesOf(req[r].user, req[r].word) = {} /\ Stored(req[r].word)
                 /\ user_words' = [user_words EXCEPT ![e] = [user |-> req[r].user, word |-> req[r].word]]
                 /\ torn' = torn \ {<<req[r].user, req[r].word>>}
<1>1. CASE EntriesOf(req[r].user, req[r].word) # {} \/ ~Stored(req[r].word)
    BY <1>1 DEF NewEntry
<1>2. CASE EntriesOf(req[r].user, req[r].word) = {} /\ Stored(req[r].word)
  <2>1. PICK e \in Entry : e = (CHOOSE d \in Entry : FreshEntry(d)) /\ FreshEntry(e)
      BY <1>2 DEF NewEntry
  <2>2. QED
      BY <1>2, <2>1 DEF NewEntry
<1>3. QED
    BY <1>1, <1>2

LEMMA TypeOfNewEntry ==
    ASSUME TInv, NEW r \in Request, NewEntry(r)
    PROVE  TInv'
<1>1. PICK n \in RequestState : Takes(r, n)
    BY NewEntryPasses, PassesTakes
<1>2. /\ req[r].user \in User /\ req[r].word \in Word
      /\ UNCHANGED <<words, contexts, sources, target, started, known, raced>>
    BY SlotIs DEF NewEntry, Sound
<1>3. CASE UNCHANGED <<user_words, torn>>
  <2>1. Notes'
      BY <1>2, <1>3 DEF TInv, Notes
  <2>2. QED
      BY <1>1, <1>2, <1>3, <2>1, TypeOfMove
<1>4. CASE ~UNCHANGED <<user_words, torn>>
  <2>1. PICK e \in Entry, row \in UserWord :
            /\ row = [user |-> req[r].user, word |-> req[r].word]
            /\ EntriesOf(req[r].user, req[r].word) = {} /\ Stored(req[r].word)
            /\ user_words' = [user_words EXCEPT ![e] = row]
            /\ torn' = torn \ {<<req[r].user, req[r].word>>}
      BY <1>2, <1>4, NewEntryIs DEF UserWord
  <2>2. \A d \in Entry : user_words[d] # row
      BY <2>1 DEF EntriesOf
  <2>3. user_words' \in [Entry -> UserWord \cup {None}]
      BY <2>1 DEF TInv, Tables
  <2>4. user_words'[e] = row /\ \A d \in Entry \ {e} : user_words'[d] = user_words[d]
      BY <2>1 DEF TInv, Tables
  <2>5. \A d, f \in Entry : (user_words'[d] # None /\ user_words'[d] = user_words'[f]) => d = f
    <3>1. \A d, f \in Entry : (user_words[d] # None /\ user_words[d] = user_words[f]) => d = f
        BY DEF TInv, Tables
    <3>2. QED
        BY <2>2, <2>4, <3>1
  <2>6. \A d \in Entry : user_words'[d] # None => Stored(user_words'[d].word)
    <3>1. Stored(row.word)
        BY <2>1
    <3>2. \A d \in Entry : user_words[d] # None => Stored(user_words[d].word)
        BY DEF TInv, Tables
    <3>3. QED
        BY <2>4, <3>1, <3>2
  <2>7. Tables'
      BY <1>2, <2>3, <2>5, <2>6 DEF TInv, Tables, Stored
  <2>8. Notes'
      BY <1>2, <2>1 DEF TInv, Notes
  <2>9. QED
      BY <1>1, <1>2, <2>7, <2>8, TypeOfTables
<1>5. QED
    BY <1>3, <1>4

LEMMA SentenceIs ==
    ASSUME TInv, NEW i \in DOMAIN contexts
    PROVE  /\ contexts[i].user \in User /\ contexts[i].word \in Word /\ Stored(contexts[i].word)
           /\ contexts[i] = [user |-> contexts[i].user, word |-> contexts[i].word]
<1>1. contexts \in Seq(Context) /\ DOMAIN contexts = 1..Len(contexts)
    BY LenProperties DEF TInv, Tables
<1>2. contexts[i] \in Context
    BY <1>1, ElementOfSeq
<1>3. QED
    BY <1>2 DEF Context, TInv, Tables

\* What is left of the sentences: some of those there were, and none of `gone`.
LEMMA SentencesLeft ==
    ASSUME TInv, NEW gone, contexts' = Without(contexts, gone)
    PROVE  /\ contexts' \in Seq(Context)
           /\ \A i \in DOMAIN contexts' :
                 contexts'[i] \notin gone /\ \E j \in DOMAIN contexts : contexts'[i] = contexts[j]
<1>1. contexts \in Seq(Context)
    BY DEF TInv, Tables
<1>2. PICK left : left = Without(contexts, gone)
    OBVIOUS
<1>3. /\ left \in Seq(Context)
      /\ \A i \in 1..Len(left) : left[i] \notin gone /\ \E j \in 1..Len(contexts) : left[i] = contexts[j]
    BY <1>1, <1>2, WithoutIs
<1>4. DOMAIN left = 1..Len(left) /\ DOMAIN contexts = 1..Len(contexts)
    BY <1>1, <1>3, LenProperties
<1>5. QED
    BY <1>2, <1>3, <1>4

LEMMA TypeOfRemoveSentences ==
    ASSUME TInv, NEW r \in Request, RemoveSentences(r)
    PROVE  TInv'
<1>1. PICK n \in RequestState : Takes(r, n)
    BY RemoveSentencesTakes
<1>2. UNCHANGED <<words, user_words, sources, target, started, known, raced>>
    BY DEF RemoveSentences
<1>3. /\ contexts' \in Seq(Context)
      /\ \A i \in DOMAIN contexts' : \E j \in DOMAIN contexts : contexts'[i] = contexts[j]
    BY SentencesLeft DEF RemoveSentences
<1>4. \A i \in DOMAIN contexts' : Stored(contexts'[i].word)
    BY <1>3 DEF TInv, Tables
<1>5. Tables'
    BY <1>2, <1>3, <1>4 DEF TInv, Tables, Stored
<1>6. Notes'
    BY <1>2 DEF RemoveSentences, TInv, Notes
<1>7. QED
    BY <1>1, <1>2, <1>5, <1>6, TypeOfTables

\* An entry less.
LEMMA TablesWithoutEntry ==
    ASSUME TInv, NEW e \in Entry, user_words' = [user_words EXCEPT ![e] = None],
           UNCHANGED <<words, contexts>>
    PROVE  Tables'
<1>1. user_words' \in [Entry -> UserWord \cup {None}]
    BY DEF TInv, Tables
<1>2. user_words'[e] = None /\ \A d \in Entry \ {e} : user_words'[d] = user_words[d]
    BY DEF TInv, Tables
<1>3. \A d, f \in Entry : (user_words'[d] # None /\ user_words'[d] = user_words'[f]) => d = f
  <2>1. \A d, f \in Entry : (user_words[d] # None /\ user_words[d] = user_words[f]) => d = f
      BY DEF TInv, Tables
  <2>2. QED
      BY <1>2, <2>1
<1>4. \A d \in Entry : user_words'[d] # None => Stored(user_words'[d].word)
    BY <1>2 DEF TInv, Tables
<1>5. QED
    BY <1>1, <1>3, <1>4 DEF TInv, Tables, Stored

LEMMA TypeOfRemoveEntry ==
    ASSUME TInv, NEW r \in Request, RemoveEntry(r)
    PROVE  TInv'
<1>1. Takes(r, Idle) /\ Idle \in RequestState
    BY FinishPasses, PassesTakes DEF RemoveEntry
<1>2. req[r].entry \in Entry
    BY SlotIs DEF RemoveEntry, Sound
<1>3. Tables'
    BY <1>2, TablesWithoutEntry DEF RemoveEntry
<1>4. Notes' /\ words' = words
    BY DEF RemoveEntry, history, TInv, Notes
<1>5. QED
    BY <1>1, <1>3, <1>4, TypeOfTables

LEMMA TypeOfRemoveVocabulary ==
    ASSUME TInv, NEW e \in Entry, RemoveVocabulary(e)
    PROVE  TInv'
<1>1. UNCHANGED <<words, contexts, sources, target, known, raced, req>>
    BY DEF RemoveVocabulary
<1>2. Tables'
    BY <1>1, TablesWithoutEntry DEF RemoveVocabulary
<1>3. torn' \in SUBSET (User \X Word)
    BY DEF RemoveVocabulary, TInv, Tables, Notes, UserWord
<1>4. started' \in 0..MaxStarted
    BY VocabularyAssumption DEF RemoveVocabulary, TInv, Notes
<1>5. Notes'
    BY <1>1, <1>3, <1>4 DEF TInv, Notes
<1>6. LocksSound'
    BY <1>1 DEF TInv, LocksSound, RowsOf, Stored
<1>7. QED
    BY <1>1, <1>2, <1>5, <1>6 DEF TInv

\* A deletion takes the word, its entries and its sentences, and nothing an import holds.
LEMMA DeleteWordIs ==
    ASSUME TInv, NEW w \in Word, DeleteWord(w)
    PROVE  /\ words' \in [Word -> WordRow \cup {None}]
           /\ words'[w] = None /\ \A v \in Word \ {w} : words'[v] = words[v]
           /\ user_words' \in [Entry -> UserWord \cup {None}]
           /\ \A e \in Entry :
                 IF user_words[e] # None /\ user_words[e].word = w THEN user_words'[e] = None
                 ELSE user_words'[e] = user_words[e]
           /\ contexts' \in Seq(Context)
           /\ \A i \in DOMAIN contexts' :
                 contexts'[i].word # w /\ \E j \in DOMAIN contexts : contexts'[i] = contexts[j]
           /\ \A s \in Request : \A row \in req[s].rows : row[1] # w
<1>1. words' \in [Word -> WordRow \cup {None}] /\ words'[w] = None /\ \A v \in Word \ {w} : words'[v] = words[v]
    BY DEF DeleteWord, TInv, Tables
<1>2. \A e \in Entry :
          IF user_words[e] # None /\ user_words[e].word = w THEN user_words'[e] = None
          ELSE user_words'[e] = user_words[e]
    BY DEF DeleteWord
<1>3. user_words' \in [Entry -> UserWord \cup {None}]
    BY DEF DeleteWord, TInv, Tables
<1>4. /\ contexts' \in Seq(Context)
      /\ \A i \in DOMAIN contexts' :
            /\ contexts'[i] \notin {[user |-> u, word |-> w] : u \in User}
            /\ \E j \in DOMAIN contexts : contexts'[i] = contexts[j]
    BY SentencesLeft DEF DeleteWord
<1>5. \A i \in DOMAIN contexts' : contexts'[i] \in Context
    BY <1>4, ElementOfSeq, LenProperties
<1>6. \A i \in DOMAIN contexts' : contexts'[i].word # w
  <2> SUFFICES ASSUME NEW i \in DOMAIN contexts', contexts'[i].word = w PROVE FALSE
      OBVIOUS
  <2>1. PICK c \in Context : c = contexts'[i]
      BY <1>5
  <2>2. c = [user |-> c.user, word |-> w] /\ c.user \in User
      BY <2>1 DEF Context
  <2>3. QED
      BY <1>4, <2>1, <2>2
<1>7. \A s \in Request : \A row \in req[s].rows : row[1] # w
    BY VocabularyAssumption DEF DeleteWord, LockedWord
<1>8. QED
    BY <1>1, <1>2, <1>3, <1>4, <1>6, <1>7

LEMMA TypeOfDeleteWord ==
    ASSUME TInv, NEW w \in Word, DeleteWord(w)
    PROVE  TInv'
<1>1. UNCHANGED <<sources, target, history, req>>
    BY DEF DeleteWord
<1>2. \A v, x \in Word : (words'[v] # None /\ words'[x] # None /\ words'[v].key = words'[x].key) => v = x
  <2>1. \A v, x \in Word : (words[v] # None /\ words[x] # None /\ words[v].key = words[x].key) => v = x
      BY DEF TInv, Tables, Stored
  <2>2. QED
      BY <2>1, DeleteWordIs
<1>3. \A d, e \in Entry : (user_words'[d] # None /\ user_words'[d] = user_words'[e]) => d = e
  <2>1. \A d, e \in Entry : (user_words[d] # None /\ user_words[d] = user_words[e]) => d = e
      BY DEF TInv, Tables
  <2>2. \A e \in Entry : user_words'[e] # None => user_words'[e] = user_words[e]
      BY DeleteWordIs
  <2>3. QED
      BY <2>1, <2>2
<1>4. \A e \in Entry : user_words'[e] # None => words'[user_words'[e].word] # None
  <2>1. \A e \in Entry : user_words'[e] # None => user_words'[e] = user_words[e] /\ user_words[e].word # w
      BY DeleteWordIs
  <2>2. \A e \in Entry : user_words[e] # None => words[user_words[e].word] # None /\ user_words[e].word \in Word
      BY DEF TInv, Tables, Stored, UserWord
  <2>3. \A v \in Word \ {w} : words'[v] = words[v]
      BY DeleteWordIs
  <2>4. QED
      BY <2>1, <2>2, <2>3
<1>5. \A i \in DOMAIN contexts' : words'[contexts'[i].word] # None
  <2>1. \A i \in DOMAIN contexts : contexts[i].word \in Word /\ words[contexts[i].word] # None
      BY SentenceIs DEF Stored
  <2>2. QED
      BY <2>1, DeleteWordIs
<1>6. Tables'
    BY <1>2, <1>3, <1>4, <1>5, DeleteWordIs DEF Tables, Stored
<1>7. started' \in 0..MaxStarted
    BY VocabularyAssumption DEF DeleteWord, TInv, Notes
<1>8. Notes'
    BY <1>1, <1>7 DEF history, TInv, Notes
<1>9. LocksSound'
  <2>1. \A s \in Request : req[s].rows \in SUBSET (Word \X SUBSET Language)
      BY DEF TInv, RequestState
  <2>2. \A s \in Request : \A row \in req[s].rows : words'[row[1]] # None
    <3> SUFFICES ASSUME NEW s \in Request, NEW row \in req[s].rows PROVE words'[row[1]] # None
        OBVIOUS
    <3>1. row[1] \in Word /\ row[1] # w
        BY <2>1, DeleteWordIs
    <3>2. words[row[1]] # None
        BY DEF TInv, LocksSound, Stored
    <3>3. QED
        BY <3>1, <3>2, DeleteWordIs
  <2>3. \A s \in Request : \A v \in Word : words'[v] # None => words'[v].key \notin req[s].inserts
    <3>1. \A s \in Request : \A v \in Word : words[v] # None => words[v].key \notin req[s].inserts
        BY DEF TInv, LocksSound, RowsOf, Stored
    <3>2. QED
        BY <3>1, DeleteWordIs
  <2>4. QED
      BY <1>1, <2>2, <2>3 DEF TInv, LocksSound, RowsOf, Stored
<1>10. QED
    BY <1>1, <1>6, <1>8, <1>9 DEF TInv

\* What a rewrite does to a row that still stands.
Rewrites(r, w, row) ==
    /\ Stored(w) /\ w = req[r].word /\ ~LockedWord(r, w) /\ ~LockedKey(r, row.key)
    /\ RowsOf({row.key}) \subseteq {w}
    /\ row.definitions = IF req[r].keeps = Language THEN words[w].definitions ELSE req[r].new.definitions
    /\ words' = [words EXCEPT ![w] = row]
    /\ known' = [known EXCEPT ![w] = (@ \cap req[r].keeps) \cup (req[r].new.definitions \ req[r].keeps)]
    /\ raced' = IF words[w].definitions = req[r].read.definitions \/ req[r].keeps = Language
                THEN raced ELSE raced \cup {w}
    /\ UNCHANGED torn

LEMMA RewriteIs ==
    ASSUME TInv, NEW r \in Request, Rewrite(r)
    PROVE  \/ UNCHANGED <<words, history>>
           \/ \E w \in Word, row \in WordRow : Rewrites(r, w, row)
<1>1. Sound(req[r]) /\ req[r].at = "rewrite"
    BY SlotIs DEF Rewrite
<1>2. PICK w \in Word, new \in WordRow : w = req[r].word /\ new = req[r].new
    BY <1>1 DEF Sound
<1>3. CASE ~Stored(w)
    BY <1>2, <1>3 DEF Rewrite
<1>4. CASE Stored(w)
  <2>1. words[w] \in WordRow
      BY <1>4 DEF Stored, TInv, Tables
  <2>2. PICK key \in Key : key = IF new.key # req[r].read.key THEN new.key ELSE words[w].key
      BY <2>1 DEF WordRow
  <2>3. PICK D \in SUBSET Language : D = IF req[r].keeps = Language THEN words[w].definitions ELSE new.definitions
      BY <2>1 DEF WordRow
  <2>4. PICK row \in WordRow : row = [key |-> key, definitions |-> D]
      BY DEF WordRow
  <2>5. row.key = key /\ row.definitions = D
      BY <2>4
  <2>6. CASE RowsOf({key}) \subseteq {w}
      BY <1>2, <1>4, <2>2, <2>3, <2>4, <2>5, <2>6 DEF Rewrite, Rewrites
  <2>7. CASE ~(RowsOf({key}) \subseteq {w})
      BY <1>2, <1>4, <2>2, <2>7 DEF Rewrite
  <2>8. QED
      BY <2>6, <2>7
<1>5. QED
    BY <1>3, <1>4

LEMMA TypeOfRewrite ==
    ASSUME TInv, NEW r \in Request, Rewrite(r)
    PROVE  TInv'
<1>1. Passes(r, Idle) /\ Idle \in RequestState
    BY FinishPasses DEF Rewrite
<1>2. UNCHANGED <<user_words, contexts, sources, target, started>>
    BY DEF Rewrite
<1>3. CASE UNCHANGED <<words, history>>
  <2>1. Notes'
      BY <1>2, <1>3 DEF history, TInv, Notes
  <2>2. QED
      BY <1>1, <1>2, <1>3, <2>1, PassesTakes, TypeOfMove
<1>4. CASE \E w \in Word, row \in WordRow : Rewrites(r, w, row)
  <2>1. PICK w \in Word, row \in WordRow : Rewrites(r, w, row)
      BY <1>4
  <2>2. /\ words' = [words EXCEPT ![w] = row] /\ Stored(w) /\ row # None
        /\ \A v \in Word : Stored(v) /\ words[v].key = row.key => v = w
        /\ words \in [Word -> WordRow \cup {None}]
      BY <2>1, RowAssumption DEF Rewrites, RowsOf, TInv, Tables
  <2>3. words' \in [Word -> WordRow \cup {None}]
      BY <2>2
  <2>4. /\ words'[w] = row /\ \A v \in Word \ {w} : words'[v] = words[v]
        /\ \A v \in Word : Stored(v) => words'[v] # None
      BY <2>2 DEF Stored
  <2>5. Tables'
    <3>1. \A v, x \in Word : (words'[v] # None /\ words'[x] # None /\ words'[v].key = words'[x].key) => v = x
      <4>1. \A v, x \in Word : (Stored(v) /\ Stored(x) /\ words[v].key = words[x].key) => v = x
          BY DEF TInv, Tables
      <4>2. \A v \in Word \ {w} : words'[v] # None => words'[v].key # row.key
          BY <2>2, <2>4 DEF Stored
      <4>3. QED
          BY <2>4, <4>1, <4>2 DEF Stored
    <3>2. \A e \in Entry : user_words[e] # None => words'[user_words[e].word] # None
        BY <2>4 DEF TInv, Tables, UserWord
    <3>3. \A i \in DOMAIN contexts : words'[contexts[i].word] # None
      <4>1. \A i \in DOMAIN contexts : Stored(contexts[i].word) /\ contexts[i] \in Context
          BY ElementOfSeq, LenProperties DEF TInv, Tables
      <4>2. QED
          BY <2>4, <4>1 DEF Context
    <3>4. QED
        BY <1>2, <2>3, <3>1, <3>2, <3>3 DEF TInv, Tables, Stored
  <2>6. Notes'
    <3>1. req[r].new.definitions \in SUBSET Language
        BY SlotIs DEF Rewrite, Sound, WordRow
    <3>2. known' \in [Word -> SUBSET Language] /\ raced' \in SUBSET Word /\ torn' \in SUBSET (User \X Word)
        BY <2>1, <3>1 DEF Rewrites, TInv, Notes
    <3>3. QED
        BY <1>2, <3>2 DEF TInv, Notes
  <2>7. \A s \in Request \ {r} : \A v \in Word : words'[v] # None => words'[v].key \notin req[s].inserts
    <3>1. \A s \in Request \ {r} : row.key \notin req[s].inserts
        BY <2>1 DEF Rewrites, LockedKey
    <3>2. \A s \in Request : \A v \in Word : Stored(v) => words[v].key \notin req[s].inserts
        BY DEF TInv, LocksSound, RowsOf
    <3>3. QED
        BY <2>4, <3>1, <3>2 DEF Stored
  <2>8. LocksSound'
      BY <1>1, <2>4, <2>7, LocksMove
  <2>9. (req \in [Request -> RequestState])' /\ (\A s \in Request : Sound(req[s]))'
      BY <1>1, SlotsNext DEF Passes
  <2>10. QED
      BY <2>5, <2>6, <2>8, <2>9 DEF TInv
<1>5. QED
    BY <1>3, <1>4, RewriteIs

LEMMA TypeOfFlush ==
    ASSUME TInv, NEW r \in Request, Flush(r)
    PROVE  TInv'
<1>1. UNCHANGED <<words, user_words, contexts, sources, target, started, torn, known>>
    BY DEF Flush
<1>2. CASE Passes(r, Idle) /\ raced' = raced
  <2>1. Notes'
      BY <1>1, <1>2 DEF TInv, Notes
  <2>2. QED
      BY <1>1, <1>2, <2>1, IdleSound, PassesTakes, TypeOfMove
<1>3. ASSUME NEW n \in RequestState, Flushes(r, n) PROVE TInv'
  <2>1. req[r].found \in SUBSET (Word \X WordRow)
      BY SlotIs DEF RequestState
  <2>2. raced' \in SUBSET Word
      BY <1>3, <2>1 DEF Flushes, TInv, Notes
  <2>3. Notes'
      BY <1>1, <2>2 DEF TInv, Notes
  <2>4. Tables'
      BY <1>1 DEF TInv, Tables, Stored
  <2>5. /\ (req \in [Request -> RequestState])' /\ (\A s \in Request : Sound(req[s]))'
        /\ req'[r] = n /\ \A s \in Request \ {r} : req'[s] = req[s]
      BY <1>3, SlotsNext DEF Flushes
  <2>6. /\ \A row \in Updates(req[r]) : Stored(row[1])
        /\ \A s \in Request \ {r} : \A a \in Updates(req[r]), b \in req[s].rows : a[1] # b[1]
    <3>1. \A row \in Updates(req[r]) : \E f \in req[r].found : row[1] = f[1]
      <4> SUFFICES ASSUME NEW row \in Updates(req[r]) PROVE \E f \in req[r].found : row[1] = f[1]
          OBVIOUS
      <4>1. PICK f \in req[r].found :
                row = <<f[1], Merged(f[2].definitions, Lang(req[r]), FALSE)>>
          BY Zenon DEF Updates
      <4>2. row[1] = f[1]
          BY <4>1
      <4>3. QED
          BY <4>2
    <3>2. \A f \in req[r].found : Stored(f[1]) /\ ~LockedWord(r, f[1])
        BY <1>3 DEF Flushes, Flush
    <3>3. QED
        BY <3>1, <3>2 DEF LockedWord
  <2>7. \A s \in Request \ {r} : NewKeys(req[r]) \cap req[s].inserts = {}
      BY DEF Flush, LockedKey
  <2>8. \A s \in Request : \A row \in req'[s].rows : Stored(row[1])
      BY <1>3, <2>5, <2>6 DEF Flushes, TInv, LocksSound
  <2>9. \A s \in Request : RowsOf(req'[s].inserts) = {}
    <3>1. \A s \in Request : RowsOf(req[s].inserts) = {}
        BY DEF TInv, LocksSound
    <3>2. RowsOf(req[r].inserts \cup NewKeys(req[r])) = {}
        BY <1>3, <3>1 DEF Flushes, RowsOf
    <3>3. QED
        BY <1>3, <2>5, <3>1, <3>2 DEF Flushes
  <2>10. \A q, s \in Request : q # s =>
            /\ req'[q].inserts \cap req'[s].inserts = {}
            /\ \A a \in req'[q].rows, b \in req'[s].rows : a[1] # b[1]
    <3>1. \A q, s \in Request : q # s =>
              /\ req[q].inserts \cap req[s].inserts = {}
              /\ \A a \in req[q].rows, b \in req[s].rows : a[1] # b[1]
        BY DEF TInv, LocksSound
    <3>2. ASSUME NEW s \in Request \ {r}
          PROVE  /\ req'[r].inserts \cap req'[s].inserts = {}
                 /\ \A a \in req'[r].rows, b \in req'[s].rows : a[1] # b[1]
      <4>1. /\ req[r].inserts \cap req[s].inserts = {}
            /\ \A a \in req[r].rows, b \in req[s].rows : a[1] # b[1]
          BY <3>1
      <4>2. req'[s] = req[s] /\ req'[r].inserts = req[r].inserts \cup NewKeys(req[r])
          BY <1>3, <2>5 DEF Flushes
      <4>3. req'[r].rows = req[r].rows \cup Updates(req[r])
          BY <1>3, <2>5 DEF Flushes
      <4>4. req'[r].inserts \cap req'[s].inserts = {}
          BY <2>7, <4>1, <4>2
      <4>5. \A a \in req'[r].rows, b \in req'[s].rows : a[1] # b[1]
          BY <2>6, <4>1, <4>2, <4>3
      <4>6. QED
          BY <4>4, <4>5
    <3>3. QED
      <4> SUFFICES ASSUME NEW q \in Request, NEW s \in Request, q # s
                   PROVE  /\ req'[q].inserts \cap req'[s].inserts = {}
                          /\ \A a \in req'[q].rows, b \in req'[s].rows : a[1] # b[1]
          OBVIOUS
      <4>1. CASE q = r
          BY <3>2, <4>1
      <4>2. CASE s = r
        <5>1. /\ req'[s].inserts \cap req'[q].inserts = {}
              /\ \A a \in req'[s].rows, b \in req'[q].rows : a[1] # b[1]
            BY <3>2, <4>2
        <5>2. QED
            BY <5>1
      <4>3. CASE q # r /\ s # r
          BY <2>5, <3>1, <4>3
      <4>4. QED
          BY <4>1, <4>2, <4>3
  <2>11. LocksSound'
      BY <1>1, <2>8, <2>9, <2>10 DEF LocksSound, RowsOf, Stored
  <2>12. QED
      BY <2>3, <2>4, <2>5, <2>11 DEF TInv
<1>4. QED
    BY <1>2, <1>3, FlushIs

\* What a commit writes: the rows the import flushed, and a new row for each of its
\* new keys, id[k] for k.
Commits(r, id) ==
    /\ id \in [req[r].inserts -> Word]
    /\ \A k \in req[r].inserts : FreshWord(id[k])
    /\ \A j, k \in req[r].inserts : id[j] = id[k] => j = k
    /\ words' \in [Word -> WordRow \cup {None}]
    /\ \A w \in Word :
          \/ \E row \in req[r].rows :
                /\ row[1] = w /\ words'[w] \in WordRow
                /\ words'[w].key = words[w].key /\ words'[w].definitions = row[2]
                /\ known'[w] = known[w] \cup {Lang(req[r])}
          \/ \E k \in req[r].inserts :
                /\ id[k] = w /\ words'[w] \in WordRow
                /\ words'[w].key = k /\ words'[w].definitions = {Lang(req[r])}
                /\ known'[w] = {Lang(req[r])}
          \/ /\ \A row \in req[r].rows : row[1] # w
             /\ \A k \in req[r].inserts : id[k] # w
             /\ words'[w] = words[w] /\ known'[w] = known[w]
    /\ known' \in [Word -> SUBSET Language]
    /\ raced' = raced \ {id[k] : k \in req[r].inserts}
    /\ torn' = {t \in torn : t[2] \notin {id[k] : k \in req[r].inserts}}

LEMMA CommitIs ==
    ASSUME TInv, NEW r \in Request, Commit(r)
    PROVE  \E id : Commits(r, id)
<1>1. Sound(req[r]) /\ req[r] \in RequestState /\ req[r].at = "commit"
    BY SlotIs DEF Commit
<1>2. PICK id : id = CHOOSE f \in NewIds(req[r].inserts) : TRUE
    OBVIOUS
<1>3. id \in NewIds(req[r].inserts)
    BY <1>2 DEF Commit
<1>4. /\ id \in [req[r].inserts -> Word]
      /\ \A k \in req[r].inserts : FreshWord(id[k])
      /\ \A j, k \in req[r].inserts : id[j] = id[k] => j = k
    BY <1>3 DEF NewIds, Injection, IsInjective
<1>5. PICK lang \in Language : lang = Lang(req[r])
    BY <1>1, LangIs DEF Sound, Importing
<1>6. PICK updated : updated = {row[1] : row \in req[r].rows}
    OBVIOUS
<1>7. PICK inserted : inserted = {id[k] : k \in req[r].inserts}
    OBVIOUS
<1>8. /\ words' = [w \in Word |->
            IF w \in updated
            THEN [words[w] EXCEPT !.definitions = (CHOOSE row \in req[r].rows : row[1] = w)[2]]
            ELSE IF w \in inserted
            THEN [key |-> CHOOSE k \in req[r].inserts : id[k] = w, definitions |-> {lang}]
            ELSE words[w]]
      /\ known' = [w \in Word |-> IF w \in updated THEN known[w] \cup {lang}
                                 ELSE IF w \in inserted THEN {lang} ELSE known[w]]
      /\ raced' = raced \ inserted
      /\ torn' = {t \in torn : t[2] \notin inserted}
    BY <1>2, <1>5, <1>6, <1>7 DEF Commit, Lang
<1>9. ASSUME NEW w \in Word
      PROVE  /\ words'[w] \in WordRow \cup {None} /\ known'[w] \in SUBSET Language
             /\ \/ \E row \in req[r].rows :
                      /\ row[1] = w /\ words'[w] \in WordRow
                      /\ words'[w].key = words[w].key /\ words'[w].definitions = row[2]
                      /\ known'[w] = known[w] \cup {lang}
                \/ \E k \in req[r].inserts :
                      /\ id[k] = w /\ words'[w] \in WordRow
                      /\ words'[w].key = k /\ words'[w].definitions = {lang}
                      /\ known'[w] = {lang}
                \/ /\ \A row \in req[r].rows : row[1] # w
                   /\ \A k \in req[r].inserts : id[k] # w
                   /\ words'[w] = words[w] /\ known'[w] = known[w]
  <2>1. words[w] \in WordRow \cup {None} /\ known[w] \in SUBSET Language
      BY DEF TInv, Tables, Notes
  <2>2. CASE w \in updated
    <3>1. PICK row \in req[r].rows : row = (CHOOSE x \in req[r].rows : x[1] = w) /\ row[1] = w
        BY <1>6, <2>2
    <3>2. PICK old \in WordRow : old = words[w]
        BY <2>1, <3>1 DEF TInv, LocksSound, Stored
    <3>3. row[2] \in SUBSET Language
        BY <1>1 DEF RequestState
    <3>4. words'[w] = [old EXCEPT !.definitions = row[2]]
        BY <1>8, <2>2, <3>1, <3>2
    <3>5. words'[w] \in WordRow /\ words'[w].key = old.key /\ words'[w].definitions = row[2]
        BY <3>3, <3>4 DEF WordRow
    <3>6. known'[w] = known[w] \cup {lang}
        BY <1>8, <2>2
    <3>7. QED
        BY <2>1, <3>1, <3>2, <3>5, <3>6
  <2>3. CASE w \notin updated /\ w \in inserted
    <3>1. PICK k \in req[r].inserts : id[k] = w /\ k = CHOOSE j \in req[r].inserts : id[j] = w
        BY <1>7, <2>3
    <3>2. k \in Key
        BY <1>1 DEF RequestState
    <3>3. words'[w] = [key |-> k, definitions |-> {lang}] /\ known'[w] = {lang}
        BY <1>8, <2>3, <3>1
    <3>4. words'[w] \in WordRow /\ words'[w].key = k /\ words'[w].definitions = {lang}
        BY <3>2, <3>3 DEF WordRow
    <3>5. QED
        BY <3>1, <3>3, <3>4
  <2>4. CASE w \notin updated /\ w \notin inserted
    <3>1. words'[w] = words[w] /\ known'[w] = known[w]
        BY <1>8, <2>4
    <3>2. QED
        BY <1>6, <1>7, <2>1, <2>4, <3>1
  <2>5. QED
      BY <2>2, <2>3, <2>4
<1>10. words' \in [Word -> WordRow \cup {None}] /\ known' \in [Word -> SUBSET Language]
    BY <1>8, <1>9
<1>11. /\ raced' = raced \ {id[k] : k \in req[r].inserts}
       /\ torn' = {t \in torn : t[2] \notin {id[k] : k \in req[r].inserts}}
    BY <1>7, <1>8
<1>12. \A w \in Word :
          \/ \E row \in req[r].rows :
                /\ row[1] = w /\ words'[w] \in WordRow
                /\ words'[w].key = words[w].key /\ words'[w].definitions = row[2]
                /\ known'[w] = known[w] \cup {Lang(req[r])}
          \/ \E k \in req[r].inserts :
                /\ id[k] = w /\ words'[w] \in WordRow
                /\ words'[w].key = k /\ words'[w].definitions = {Lang(req[r])}
                /\ known'[w] = {Lang(req[r])}
          \/ /\ \A row \in req[r].rows : row[1] # w
             /\ \A k \in req[r].inserts : id[k] # w
             /\ words'[w] = words[w] /\ known'[w] = known[w]
    BY <1>5, <1>9
<1>13. Commits(r, id)
    BY <1>4, <1>10, <1>11, <1>12 DEF Commits
<1>14. QED
    BY <1>13

LEMMA TypeOfCommit ==
    ASSUME TInv, NEW r \in Request, Commit(r)
    PROVE  TInv'
<1>1. Passes(r, Idle) /\ Idle \in RequestState
    BY FinishPasses DEF Commit
<1>2. UNCHANGED <<user_words, contexts, sources, target, started>>
    BY DEF Commit
<1>3. PICK id : Commits(r, id)
    BY CommitIs
<1>4. \A k \in req[r].inserts : id[k] \in Word /\ ~Stored(id[k])
    BY <1>3 DEF Commits, FreshWord
<1>5. /\ RowsOf(req[r].inserts) = {}
      /\ \A row \in req[r].rows : Stored(row[1])
      /\ \A v, x \in Word : (Stored(v) /\ Stored(x) /\ words[v].key = words[x].key) => v = x
    BY DEF TInv, LocksSound, Tables
<1>6. \A w \in Word : words'[w] # None =>
          \/ \E k \in req[r].inserts : id[k] = w /\ words'[w].key = k
          \/ Stored(w) /\ words'[w].key = words[w].key
    BY <1>3, <1>5 DEF Commits, Stored
<1>7. \A w \in Word : Stored(w) => words'[w] # None
    BY <1>3, <1>4, RowAssumption DEF Commits, Stored
<1>8. ASSUME NEW v \in Word, NEW x \in Word, words'[v] # None, words'[x] # None, words'[v].key = words'[x].key
      PROVE  v = x
  <2>1. \A k \in req[r].inserts : \A w \in Word : Stored(w) => words[w].key # k
      BY <1>5 DEF RowsOf
  <2>2. \A j, k \in req[r].inserts : id[j] = id[k] => j = k
      BY <1>3 DEF Commits
  <2>3. CASE \E k \in req[r].inserts : id[k] = v /\ words'[v].key = k
      BY <1>6, <1>8, <2>1, <2>2, <2>3
  <2>4. CASE Stored(v) /\ words'[v].key = words[v].key
    <3>1. CASE \E k \in req[r].inserts : id[k] = x /\ words'[x].key = k
        BY <1>8, <2>1, <2>4, <3>1
    <3>2. CASE Stored(x) /\ words'[x].key = words[x].key
        BY <1>5, <1>8, <2>4, <3>2
    <3>3. QED
        BY <1>6, <1>8, <3>1, <3>2
  <2>5. QED
      BY <1>6, <1>8, <2>3, <2>4
<1>9. Tables'
  <2>1. words' \in [Word -> WordRow \cup {None}]
      BY <1>3 DEF Commits
  <2>2. \A e \in Entry : user_words[e] # None => words'[user_words[e].word] # None
      BY <1>7 DEF TInv, Tables, UserWord
  <2>3. \A i \in DOMAIN contexts : words'[contexts[i].word] # None
      BY <1>7, SentenceIs
  <2>4. QED
      BY <1>2, <1>8, <2>1, <2>2, <2>3 DEF TInv, Tables, Stored
<1>10. Notes'
  <2>1. known' \in [Word -> SUBSET Language] /\ raced' \in SUBSET Word /\ torn' \in SUBSET (User \X Word)
      BY <1>3 DEF Commits, TInv, Notes
  <2>2. QED
      BY <1>2, <2>1 DEF TInv, Notes
<1>11. \A s \in Request \ {r} : \A w \in Word : words'[w] # None => words'[w].key \notin req[s].inserts
  <2>1. \A s \in Request \ {r} : req[r].inserts \cap req[s].inserts = {}
      BY DEF TInv, LocksSound
  <2>2. \A s \in Request : \A w \in Word : Stored(w) => words[w].key \notin req[s].inserts
      BY DEF TInv, LocksSound, RowsOf
  <2>3. QED
      BY <1>6, <2>1, <2>2
<1>12. LocksSound'
    BY <1>1, <1>7, <1>11, LocksMove
<1>13. (req \in [Request -> RequestState])' /\ (\A s \in Request : Sound(req[s]))'
    BY <1>1, SlotsNext DEF Passes
<1>14. QED
    BY <1>9, <1>10, <1>12, <1>13 DEF TInv

-----------------------------------------------------------------------------
(* The steps *)

\* Steps of a request that leave the three tables alone.
Reads(r) ==
    \/ SetTarget(r) \/ GetWord(r) \/ GetSource(r) \/ NewSource(r)
    \/ GetEntry(r) \/ Reload(r) \/ ReadChunk(r) \/ BreakDeadlock(r) \/ Abort(r)

\* A request starts or goes on, or the admin or a learner takes a row out at once.
Step ==
    \/ \E r \in Request :
          \/ Begins(r) \/ Reads(r)
          \/ NewWord(r) \/ NewContext(r) \/ NewEntry(r) \/ RemoveSentences(r) \/ RemoveEntry(r)
          \/ Rewrite(r) \/ Flush(r) \/ Commit(r)
    \/ \E e \in Entry : RemoveVocabulary(e)
    \/ \E w \in Word : DeleteWord(w)

\* The requests of the routes and of the jobs, and what the admin does in one statement.
LEMMA StepIs ==
    ASSUME TInv, [Next]_vars
    PROVE  Step \/ UNCHANGED vars
<1> SUFFICES ASSUME Next PROVE Step
    OBVIOUS
<1>1. PICK r \in Request :
        \/ capture_word(r) \/ remove_word(r) \/ admin_vocabulary(r) \/ admin_words(r)
        \/ words_create(r) \/ words_update(r) \/ import_dictionary(r) \/ translate(r)
        \/ SetTarget(r) \/ GetWord(r) \/ NewWord(r) \/ GetSource(r) \/ NewSource(r)
        \/ NewContext(r) \/ GetEntry(r) \/ NewEntry(r) \/ Reload(r)
        \/ RemoveSentences(r) \/ RemoveEntry(r) \/ Rewrite(r)
        \/ ReadChunk(r) \/ Flush(r) \/ Commit(r) \/ BreakDeadlock(r) \/ Abort(r)
    BY Zenon DEF Next
<1>2. CASE capture_word(r) \/ import_dictionary(r)
    BY <1>2, CaptureBegins, ImportBegins DEF Step
<1>3. CASE remove_word(r)
    BY <1>3, RemoveBegins DEF Step, remove_word
<1>4. CASE admin_vocabulary(r)
    BY <1>4, AddBegins DEF Step, admin_vocabulary
<1>5. CASE admin_words(r)
  <2>1. CASE \E k \in Key, lang \in Language \cup {None} : AdminCreateWord(r, k, lang)
    <3>1. PICK k \in Key, lang \in Language \cup {None} : CreateWord(r, k, {lang} \ {None})
        BY <2>1 DEF AdminCreateWord
    <3>2. {lang} \ {None} \in SUBSET Language
        OBVIOUS
    <3>3. QED
        BY <3>1, <3>2, CreateBegins DEF Step
  <2>2. CASE \E w \in Word : DeleteWord(w)
      BY <2>2 DEF Step
  <2>3. CASE \E w \in Word, k \in Key, lang \in Language \cup {None}, blank \in BOOLEAN :
                AdminUpdateWord(r, w, k, lang, blank)
      BY <2>3, AdminUpdateBegins DEF Step
  <2>4. QED
      BY <1>5, <2>1, <2>2, <2>3 DEF admin_words
<1>6. CASE words_create(r)
    BY <1>6, CreateBegins DEF Step, words_create
<1>7. CASE words_update(r)
    BY <1>7, UpdateBegins DEF Step, words_update
<1>8. CASE translate(r)
    BY <1>8, TranslateBegins DEF Step, translate
<1>9. CASE Reads(r)
    BY <1>9 DEF Step
<1>10. CASE \/ NewWord(r) \/ NewContext(r) \/ NewEntry(r) \/ RemoveSentences(r) \/ RemoveEntry(r)
            \/ Rewrite(r) \/ Flush(r) \/ Commit(r)
    BY <1>10 DEF Step
<1>11. QED
    BY <1>1, <1>2, <1>3, <1>4, <1>5, <1>6, <1>7, <1>8, <1>9, <1>10 DEF Reads

LEMMA TypeNext ==
    ASSUME TInv, [Next]_vars
    PROVE  TInv'
<1>1. CASE UNCHANGED vars
  <2>1. UNCHANGED <<words, user_words, contexts, sources, target, started, torn, known, raced, req>>
      BY <1>1 DEF vars
  <2>2. Tables' /\ Notes'
      BY <2>1 DEF TInv, Tables, Notes, Stored
  <2>3. LocksSound'
      BY <2>1 DEF TInv, LocksSound, RowsOf, Stored
  <2>4. QED
      BY <2>1, <2>2, <2>3 DEF TInv
<1>2. CASE Step
    BY <1>2, TypeOfBegins, TypeOfReads, TypeOfNewWord, TypeOfNewContext, TypeOfNewEntry, TypeOfRemoveSentences,
       TypeOfRemoveEntry, TypeOfRewrite, TypeOfFlush, TypeOfCommit, TypeOfRemoveVocabulary, TypeOfDeleteWord
       DEF Step, Reads
<1>3. QED
    BY <1>1, <1>2, StepIs

\* The columns keep their types and the dictionary its keys: a (lemma, language) pair has one row,
\* a learner one entry per word, and an entry or a sentence a word that stands.
THEOREM TypeCorrect == Spec => []TypeOK
<1>1. TInv /\ [Next]_vars => TInv'
    BY TypeNext
<1>2. TInv => TypeOK
    BY TypeParts DEF TInv
<1>3. QED
    BY TypeInit, <1>1, <1>2, PTL DEF Spec

-----------------------------------------------------------------------------
(* No translation is lost *)

\* What an import is about to write to a word is the word's list with its translation,
\* while the word has not changed since the import read it.
RowsFresh ==
    \A r \in Request : \A row \in req[r].rows :
        row[1] \notin raced => row[2] = words[row[1]].definitions \cup {Lang(req[r])}

\* The inductive invariant of TranslationsKept.
KInv == TInv /\ TranslationsKept /\ RowsFresh

\* The request goes on to `n` with the rows it had, or with none.
Holds(r, n) ==
    /\ req' = [req EXCEPT ![r] = n]
    /\ Sound(n)
    /\ n.rows = {} \/ (n.rows = req[r].rows /\ n.keeps = req[r].keeps)

LEMMA PassesHolds ==
    ASSUME NEW r, NEW n, Passes(r, n)
    PROVE  Holds(r, n)
BY DEF Passes, Holds

LEMMA ReadsHold ==
    ASSUME TInv, NEW r \in Request, Reads(r)
    PROVE  /\ \E n \in RequestState : Holds(r, n)
           /\ UNCHANGED <<words, user_words, contexts, known, raced>>
<1>1. \E n \in RequestState : Holds(r, n)
  <2>1. CASE SetTarget(r)
      BY <2>1, SetTargetPasses, PassesHolds
  <2>2. CASE GetWord(r)
      BY <2>2, GetWordPasses, PassesHolds
  <2>3. CASE GetSource(r)
      BY <2>3, GetSourcePasses, PassesHolds
  <2>4. CASE NewSource(r)
      BY <2>4, NewSourcePasses, PassesHolds
  <2>5. CASE GetEntry(r)
      BY <2>5, GetEntryPasses, PassesHolds
  <2>6. CASE ReadChunk(r)
      BY <2>6, ReadChunkTakes DEF Takes, Holds
  <2>7. CASE Reload(r) \/ BreakDeadlock(r) \/ Abort(r)
      BY <2>7, FinishPasses, PassesHolds DEF Reload, BreakDeadlock, Abort
  <2>8. QED
      BY <2>1, <2>2, <2>3, <2>4, <2>5, <2>6, <2>7 DEF Reads
<1>2. UNCHANGED <<words, user_words, contexts, known, raced>>
    BY DEF Reads, SetTarget, GetWord, GetSource, NewSource, GetEntry, Reload, ReadChunk, BreakDeadlock, Abort,
           history
<1>3. QED
    BY <1>1, <1>2

LEMMA RowsOfHolds ==
    ASSUME KInv, NEW r \in Request, NEW n \in RequestState, Holds(r, n), words' = words, raced \subseteq raced'
    PROVE  RowsFresh'
<1>1. req'[r] = n /\ \A s \in Request \ {r} : req'[s] = req[s]
    BY SlotsNext DEF KInv, Holds
<1>2. n.keeps = req[r].keeps => Lang(n) = Lang(req[r])
    BY DEF Lang
<1>3. \A s \in Request : \A row \in req'[s].rows : row \in req[s].rows /\ Lang(req'[s]) = Lang(req[s])
    BY <1>1, <1>2 DEF Holds
<1>4. \A s \in Request : \A row \in req[s].rows :
          row[1] \notin raced => row[2] = words[row[1]].definitions \cup {Lang(req[s])}
    BY DEF KInv, RowsFresh
<1>5. \A s \in Request : \A row \in req'[s].rows :
          row[1] \notin raced' => row[2] = words'[row[1]].definitions \cup {Lang(req'[s])}
    BY <1>3, <1>4
<1>6. QED
    BY <1>5 DEF RowsFresh, Lang

\* The same when a word changes: no other import has written to it.
LEMMA RowsOfPasses ==
    ASSUME KInv, NEW r \in Request, NEW n \in RequestState, Passes(r, n),
           \A s \in Request \ {r} : \A row \in req[s].rows :
               words'[row[1]] = words[row[1]] /\ (row[1] \in raced => row[1] \in raced')
    PROVE  RowsFresh'
<1>1. req'[r] = n /\ n.rows = {} /\ \A s \in Request \ {r} : req'[s] = req[s]
    BY SlotsNext DEF KInv, Passes
<1>2. \A s \in Request : \A row \in req[s].rows :
          row[1] \notin raced => row[2] = words[row[1]].definitions \cup {Lang(req[s])}
    BY DEF KInv, RowsFresh
<1>3. \A s \in Request : \A row \in req'[s].rows :
          row[1] \notin raced' => row[2] = words'[row[1]].definitions \cup {Lang(req'[s])}
    BY <1>1, <1>2
<1>4. QED
    BY <1>3 DEF RowsFresh, Lang

LEMMA KeptStays ==
    ASSUME TranslationsKept, words' = words, known' = known, raced \subseteq raced'
    PROVE  TranslationsKept'
BY DEF TranslationsKept, Stored

LEMMA KeptOfFlush ==
    ASSUME KInv, NEW r \in Request, Flush(r)
    PROVE  TranslationsKept' /\ RowsFresh'
<1>1. words' = words /\ known' = known
    BY DEF Flush
<1>2. CASE Passes(r, Idle) /\ raced' = raced
    BY <1>1, <1>2, IdleSound, PassesHolds, RowsOfHolds, KeptStays DEF KInv
<1>3. ASSUME NEW n \in RequestState, Flushes(r, n) PROVE TranslationsKept' /\ RowsFresh'
  <2>1. /\ req'[r] = n /\ n.keeps = req[r].keeps /\ n.rows = req[r].rows \cup Updates(req[r])
        /\ \A s \in Request \ {r} : req'[s] = req[s]
      BY <1>3, SlotsNext DEF KInv, Flushes
  <2>2. Lang(n) = Lang(req[r])
      BY <2>1 DEF Lang
  <2>3. /\ raced \subseteq raced'
        /\ \A f \in req[r].found : f[1] \notin raced' => f[2] = words[f[1]]
      BY <1>3 DEF Flushes
  <2>4. ASSUME NEW row \in Updates(req[r]), row[1] \notin raced'
        PROVE  row[2] = words[row[1]].definitions \cup {Lang(req[r])}
    <3>1. PICK f \in req[r].found : row = <<f[1], Merged(f[2].definitions, Lang(req[r]), FALSE)>>
        BY Zenon DEF Updates
    <3>2. f[2] = words[row[1]] /\ row[2] = Merged(f[2].definitions, Lang(req[r]), FALSE)
        BY <2>3, <2>4, <3>1
    <3>3. row[2] = Merged(words[row[1]].definitions, Lang(req[r]), FALSE)
        BY <3>2
    <3>4. QED
        BY <3>3 DEF Merged
  <2>5. \A s \in Request : \A row \in req[s].rows :
            row[1] \notin raced => row[2] = words[row[1]].definitions \cup {Lang(req[s])}
      BY DEF KInv, RowsFresh
  <2>6. \A s \in Request : \A row \in req'[s].rows :
            row[1] \notin raced' => row[2] = words'[row[1]].definitions \cup {Lang(req'[s])}
    <3> SUFFICES ASSUME NEW s \in Request, NEW row \in req'[s].rows, row[1] \notin raced'
                 PROVE  row[2] = words[row[1]].definitions \cup {Lang(req'[s])}
        BY <1>1
    <3>1. CASE s = r
        BY <2>1, <2>2, <2>3, <2>4, <2>5, <3>1
    <3>2. CASE s # r
        BY <2>1, <2>3, <2>5, <3>2
    <3>3. QED
        BY <3>1, <3>2
  <2>7. RowsFresh'
      BY <2>6 DEF RowsFresh, Lang
  <2>8. QED
      BY <1>1, <2>3, <2>7, KeptStays DEF KInv
<1>4. QED
    BY <1>2, <1>3, FlushIs DEF KInv

\* Who writes to a word leaves what an import has flushed alone.
LEMMA RowsAside ==
    ASSUME TInv, NEW r \in Request, NewWord(r) \/ Rewrite(r) \/ Commit(r)
    PROVE  \A s \in Request \ {r} : \A row \in req[s].rows :
               words'[row[1]] = words[row[1]] /\ (row[1] \in raced => row[1] \in raced')
<1>1. /\ \A s \in Request : \A row \in req[s].rows : Stored(row[1]) /\ row[1] \in Word
      /\ \A s \in Request \ {r} : \A p \in req[s].rows, q \in req[r].rows : p[1] # q[1]
  <2>1. \A s \in Request : \A row \in req[s].rows : row[1] \in Word
      BY DEF TInv, RequestState
  <2>2. QED
      BY <2>1 DEF TInv, LocksSound
<1>2. CASE UNCHANGED <<words, raced>>
    BY <1>2
<1>3. ASSUME NEW w \in Word, NEW row \in WordRow, Creates(r, w, row)
      PROVE  \A s \in Request \ {r} : \A p \in req[s].rows :
                 words'[p[1]] = words[p[1]] /\ (p[1] \in raced => p[1] \in raced')
  <2>1. /\ \A v \in Word \ {w} : words'[v] = words[v]
        /\ raced' = raced \ {w} /\ ~Stored(w)
      BY <1>3 DEF Creates, FreshWord, TInv, Tables
  <2>2. QED
      BY <1>1, <2>1
<1>4. ASSUME NEW w \in Word, NEW row \in WordRow, Rewrites(r, w, row)
      PROVE  \A s \in Request \ {r} : \A p \in req[s].rows :
                 words'[p[1]] = words[p[1]] /\ (p[1] \in raced => p[1] \in raced')
  <2>1. (\A v \in Word \ {w} : words'[v] = words[v]) /\ raced \subseteq raced' /\ ~LockedWord(r, w)
      BY <1>4 DEF Rewrites, TInv, Tables
  <2>2. QED
      BY <1>1, <2>1 DEF LockedWord
<1>5. ASSUME NEW id, Commits(r, id)
      PROVE  \A s \in Request \ {r} : \A p \in req[s].rows :
                 words'[p[1]] = words[p[1]] /\ (p[1] \in raced => p[1] \in raced')
  <2> SUFFICES ASSUME NEW s \in Request \ {r}, NEW p \in req[s].rows
               PROVE  words'[p[1]] = words[p[1]] /\ (p[1] \in raced => p[1] \in raced')
      OBVIOUS
  <2>1. p[1] \in Word /\ Stored(p[1]) /\ \A q \in req[r].rows : p[1] # q[1]
      BY <1>1
  <2>2. /\ \A k \in req[r].inserts : id[k] # p[1]
        /\ raced' = raced \ {id[k] : k \in req[r].inserts}
      BY <1>5, <2>1 DEF Commits, FreshWord
  <2>3. words'[p[1]] = words[p[1]]
      BY <1>5, <2>1, <2>2 DEF Commits
  <2>4. QED
      BY <2>2, <2>3
<1>6. QED
    BY <1>2, <1>3, <1>4, <1>5, NewWordIs, RewriteIs, CommitIs DEF history

LEMMA KeptOfNewWord ==
    ASSUME KInv, NEW r \in Request, NewWord(r)
    PROVE  TranslationsKept' /\ RowsFresh'
<1>1. PICK n \in RequestState : Passes(r, n)
    BY NewWordPasses DEF KInv
<1>2. CASE UNCHANGED <<words, history>>
  <2>1. words' = words /\ known' = known /\ raced' = raced
      BY <1>2 DEF history
  <2>2. QED
      BY <1>1, <2>1, PassesHolds, RowsOfHolds, KeptStays DEF KInv
<1>3. ASSUME NEW w \in Word, NEW row \in WordRow, Creates(r, w, row)
      PROVE  TranslationsKept' /\ RowsFresh'
  <2>1. /\ words'[w] = row /\ known'[w] = row.definitions /\ raced' = raced \ {w} /\ ~Stored(w)
        /\ \A v \in Word \ {w} : words'[v] = words[v] /\ known'[v] = known[v]
      BY <1>3 DEF Creates, FreshWord, KInv, TInv, Tables, Notes
  <2>2. TranslationsKept'
      BY <2>1 DEF KInv, TranslationsKept, Stored
  <2>3. RowsFresh'
      BY <1>1, RowsAside, RowsOfPasses DEF KInv
  <2>4. QED
      BY <2>2, <2>3
<1>4. QED
    BY <1>2, <1>3, NewWordIs DEF KInv

LEMMA KeptOfRewrite ==
    ASSUME KInv, NEW r \in Request, Rewrite(r)
    PROVE  TranslationsKept' /\ RowsFresh'
<1>1. Passes(r, Idle) /\ Idle \in RequestState
    BY FinishPasses DEF Rewrite
<1>2. CASE UNCHANGED <<words, history>>
  <2>1. words' = words /\ known' = known /\ raced' = raced
      BY <1>2 DEF history
  <2>2. QED
      BY <1>1, <2>1, PassesHolds, RowsOfHolds, KeptStays DEF KInv
<1>3. ASSUME NEW w \in Word, NEW row \in WordRow, Rewrites(r, w, row)
      PROVE  TranslationsKept' /\ RowsFresh'
  <2>1. PICK keeps : keeps = req[r].keeps
      OBVIOUS
  <2>2. PICK read \in WordRow, new \in WordRow :
            /\ read = req[r].read /\ new = req[r].new
            /\ new.definitions \cap keeps = read.definitions \cap keeps
      BY <2>1, SlotIs DEF KInv, Rewrite, Sound
  <2>3. new.definitions \in SUBSET Language /\ known[w] \in SUBSET Language
      BY DEF WordRow, KInv, TInv, Notes
  <2>4. /\ words'[w] = row /\ known'[w] = (known[w] \cap keeps) \cup (new.definitions \ keeps)
        /\ \A v \in Word \ {w} : words'[v] = words[v] /\ known'[v] = known[v]
      BY <1>3, <2>1, <2>2 DEF Rewrites, KInv, TInv, Tables, Notes
  <2>5. /\ row.definitions = IF keeps = Language THEN words[w].definitions ELSE new.definitions
        /\ raced' = IF words[w].definitions = read.definitions \/ keeps = Language
                    THEN raced ELSE raced \cup {w}
        /\ Stored(w)
      BY <1>3, <2>1, <2>2 DEF Rewrites
  <2>6. ASSUME w \notin raced' PROVE row.definitions = known'[w]
    <3>1. w \notin raced /\ words[w].definitions = known[w]
        BY <2>5, <2>6 DEF KInv, TranslationsKept
    <3>2. CASE keeps = Language
        BY <2>3, <2>4, <2>5, <3>1, <3>2
    <3>3. CASE keeps # Language
      <4>1. known[w] = read.definitions /\ row.definitions = new.definitions
          BY <2>5, <2>6, <3>1, <3>3
      <4>2. known'[w] = (read.definitions \cap keeps) \cup (new.definitions \ keeps)
          BY <2>4, <4>1
      <4>3. QED
          BY <2>2, <4>1, <4>2
    <3>4. QED
        BY <3>2, <3>3
  <2>7. raced \subseteq raced'
      BY <2>5
  <2>8. TranslationsKept'
      BY <2>4, <2>6, <2>7 DEF KInv, TranslationsKept, Stored
  <2>9. RowsFresh'
      BY <1>1, RowsAside, RowsOfPasses DEF KInv
  <2>10. QED
      BY <2>8, <2>9
<1>4. QED
    BY <1>2, <1>3, RewriteIs DEF KInv

LEMMA KeptOfCommit ==
    ASSUME KInv, NEW r \in Request, Commit(r)
    PROVE  TranslationsKept' /\ RowsFresh'
<1>1. Passes(r, Idle) /\ Idle \in RequestState
    BY FinishPasses DEF Commit
<1>2. PICK id : Commits(r, id)
    BY CommitIs DEF KInv
<1>3. /\ \A k \in req[r].inserts : id[k] \in Word /\ ~Stored(id[k])
      /\ raced' = raced \ {id[k] : k \in req[r].inserts}
    BY <1>2 DEF Commits, FreshWord
<1>4. \A row \in req[r].rows : Stored(row[1])
    BY DEF KInv, TInv, LocksSound
<1>5. ASSUME NEW w \in Word, w \notin raced', words'[w] # None
      PROVE  words'[w].definitions = known'[w]
  <2>1. CASE \E row \in req[r].rows :
                /\ row[1] = w /\ words'[w] \in WordRow
                /\ words'[w].key = words[w].key /\ words'[w].definitions = row[2]
                /\ known'[w] = known[w] \cup {Lang(req[r])}
    <3>1. PICK row \in req[r].rows : /\ row[1] = w /\ words'[w].definitions = row[2]
                                     /\ known'[w] = known[w] \cup {Lang(req[r])}
        BY <2>1
    <3>2. w \notin raced /\ Stored(w)
        BY <1>3, <1>4, <1>5, <3>1
    <3>3. row[2] = words[w].definitions \cup {Lang(req[r])} /\ words[w].definitions = known[w]
        BY <3>1, <3>2 DEF KInv, RowsFresh, TranslationsKept
    <3>4. QED
        BY <3>1, <3>3
  <2>2. CASE \E k \in req[r].inserts :
                /\ id[k] = w /\ words'[w] \in WordRow
                /\ words'[w].key = k /\ words'[w].definitions = {Lang(req[r])}
                /\ known'[w] = {Lang(req[r])}
      BY <2>2
  <2>3. CASE /\ \A row \in req[r].rows : row[1] # w
             /\ \A k \in req[r].inserts : id[k] # w
             /\ words'[w] = words[w] /\ known'[w] = known[w]
    <3>1. w \notin raced /\ Stored(w)
        BY <1>3, <1>5, <2>3 DEF Stored
    <3>2. QED
        BY <2>3, <3>1 DEF KInv, TranslationsKept
  <2>4. QED
      BY <1>2, <2>1, <2>2, <2>3 DEF Commits
<1>6. TranslationsKept'
    BY <1>5 DEF TranslationsKept, Stored
<1>7. RowsFresh'
    BY <1>1, RowsAside, RowsOfPasses DEF KInv
<1>8. QED
    BY <1>6, <1>7

LEMMA KeptOfDeleteWord ==
    ASSUME KInv, NEW w \in Word, DeleteWord(w)
    PROVE  TranslationsKept' /\ RowsFresh'
<1>1. known' = known /\ raced' = raced /\ req' = req
    BY DEF DeleteWord, history
<1>2. /\ words'[w] = None /\ \A v \in Word \ {w} : words'[v] = words[v]
      /\ \A s \in Request : \A row \in req[s].rows : row[1] # w
    BY DeleteWordIs DEF KInv
<1>3. \A s \in Request : \A row \in req[s].rows : words'[row[1]] = words[row[1]]
  <2>1. \A s \in Request : \A row \in req[s].rows : row[1] \in Word
      BY DEF KInv, TInv, RequestState
  <2>2. QED
      BY <1>2, <2>1
<1>4. TranslationsKept'
    BY <1>1, <1>2 DEF KInv, TranslationsKept, Stored
<1>5. RowsFresh'
    BY <1>1, <1>3 DEF KInv, RowsFresh, Lang
<1>6. QED
    BY <1>4, <1>5

\* Steps that write to no word.
LEMMA KeptOfOthers ==
    ASSUME KInv, NEW r \in Request,
           \/ Begins(r) \/ Reads(r) \/ NewContext(r) \/ NewEntry(r) \/ RemoveSentences(r) \/ RemoveEntry(r)
    PROVE  TranslationsKept' /\ RowsFresh'
<1>1. (\E n \in RequestState : Holds(r, n)) /\ UNCHANGED <<words, known, raced>>
  <2>1. CASE Begins(r)
    <3>1. PICK n \in RequestState : Start(r, n) /\ Sound(n) /\ Begun(n)
        BY <2>1 DEF Begins
    <3>2. QED
        BY <3>1 DEF Start, Goto, Begun, Holds, history
  <2>2. CASE Reads(r)
      BY <2>2, ReadsHold DEF KInv
  <2>3. CASE NewContext(r)
      BY <2>3, NewContextPasses, PassesHolds DEF KInv, NewContext
  <2>4. CASE NewEntry(r)
      BY <2>4, NewEntryPasses, PassesHolds DEF KInv, NewEntry
  <2>5. CASE RemoveSentences(r)
    <3>1. PICK n \in RequestState : Takes(r, n) /\ n.rows = {}
        BY <2>5, RemoveSentencesTakes DEF KInv
    <3>2. QED
        BY <2>5, <3>1 DEF RemoveSentences, Takes, Holds
  <2>6. CASE RemoveEntry(r)
    <3>1. Holds(r, Idle) /\ Idle \in RequestState
        BY <2>6, FinishPasses, PassesHolds DEF RemoveEntry
    <3>2. QED
        BY <2>6, <3>1 DEF RemoveEntry, history
  <2>7. QED
      BY <2>1, <2>2, <2>3, <2>4, <2>5, <2>6
<1>2. QED
    BY <1>1, RowsOfHolds, KeptStays DEF KInv

LEMMA KeptNext ==
    ASSUME KInv, [Next]_vars
    PROVE  KInv'
<1>1. TInv'
    BY TypeNext DEF KInv
<1>2. TranslationsKept' /\ RowsFresh'
  <2>1. CASE UNCHANGED vars
    <3>1. words' = words /\ known' = known /\ raced' = raced /\ req' = req
        BY <2>1 DEF vars
    <3>2. QED
        BY <3>1 DEF KInv, TranslationsKept, RowsFresh, Stored, Lang
  <2>2. CASE \E e \in Entry : RemoveVocabulary(e)
    <3>1. words' = words /\ known' = known /\ raced' = raced /\ req' = req
        BY <2>2 DEF RemoveVocabulary
    <3>2. QED
        BY <3>1 DEF KInv, TranslationsKept, RowsFresh, Stored, Lang
  <2>3. CASE Step /\ ~\E e \in Entry : RemoveVocabulary(e)
      BY <2>3, KeptOfOthers, KeptOfNewWord, KeptOfRewrite, KeptOfFlush, KeptOfCommit, KeptOfDeleteWord DEF Step
  <2>4. QED
      BY <2>1, <2>2, <2>3, StepIs DEF KInv
<1>3. QED
    BY <1>1, <1>2 DEF KInv

\* However captures, exercises, the admin and imports rewrite a word's list of translations, a
\* word none of them wrote to from a stale row has every translation it was given.
THEOREM NoTranslationIsLost == Spec => []TranslationsKept
<1>1. Init => KInv
  <2>1. Init => TranslationsKept /\ RowsFresh
      BY IdleSound DEF Init, TranslationsKept, RowsFresh, Stored
  <2>2. QED
      BY <2>1, TypeInit DEF KInv
<1>2. KInv /\ [Next]_vars => KInv'
    BY KeptNext
<1>3. KInv => TranslationsKept
    BY DEF KInv
<1>4. QED
    BY <1>1, <1>2, <1>3, PTL DEF Spec

-----------------------------------------------------------------------------
(* Every sentence belongs to an entry *)

\* A capture that has stored the sentence and is about to store its entry.
Awaited(s, u, w) ==
    s.op = "capture" /\ s.user = u /\ s.word = w /\ s.at \in {"entry", "new_entry"}

Belongs(u, w) ==
    EntriesOf(u, w) # {} \/ <<u, w>> \in torn \/ \E r \in Request : Awaited(req[r], u, w)

LEMMA BelongParts ==
    SentencesBelong <=> \A i \in DOMAIN contexts : Belongs(contexts[i].user, contexts[i].word)
BY DEF SentencesBelong, Belongs, Awaited

LEMMA BelongPartsNext ==
    SentencesBelong' <=> (\A i \in DOMAIN contexts : Belongs(contexts[i].user, contexts[i].word))'
BY DEF SentencesBelong, Belongs, Awaited

\* A removal takes the entry it was asked to, if that is still there; a sentence stored
\* since it took the others has another entry, or is one of the incidents.
RemovalSound ==
    \A r \in Request : req[r].at \in Removing =>
        /\ user_words[req[r].entry] \in {None, [user |-> req[r].user, word |-> req[r].word]}
        /\ req[r].at = "remove_entry" =>
              \A i \in DOMAIN contexts :
                 (contexts[i].user = req[r].user /\ contexts[i].word = req[r].word) =>
                    \/ <<req[r].user, req[r].word>> \in torn
                    \/ \E e \in EntriesOf(req[r].user, req[r].word) : e # req[r].entry

\* The inductive invariant of SentencesBelong.
SInv == TInv /\ SentencesBelong /\ RemovalSound

\* A step of a request that leaves entries and sentences alone.
LEMMA SentencesStay ==
    ASSUME SInv, NEW r \in Request, NEW n \in RequestState, req' = [req EXCEPT ![r] = n],
           UNCHANGED <<user_words, contexts>>,
           \A i \in DOMAIN contexts :
               <<contexts[i].user, contexts[i].word>> \in torn
                   => <<contexts[i].user, contexts[i].word>> \in torn',
           \A i \in DOMAIN contexts :
               Awaited(req[r], contexts[i].user, contexts[i].word) =>
                   \/ EntriesOf(contexts[i].user, contexts[i].word) # {}
                   \/ <<contexts[i].user, contexts[i].word>> \in torn'
                   \/ Awaited(n, contexts[i].user, contexts[i].word),
           n.at # "remove_entry",
           n.at = "remove_sentences" => user_words[n.entry] = [user |-> n.user, word |-> n.word]
    PROVE  SentencesBelong' /\ RemovalSound'
<1>1. req'[r] = n /\ \A s \in Request \ {r} : req'[s] = req[s]
    BY DEF SInv, TInv
<1>2. ASSUME NEW i \in DOMAIN contexts
      PROVE  \/ EntriesOf(contexts[i].user, contexts[i].word) # {}
             \/ <<contexts[i].user, contexts[i].word>> \in torn'
             \/ \E s \in Request : Awaited(req'[s], contexts[i].user, contexts[i].word)
  <2>1. Belongs(contexts[i].user, contexts[i].word)
      BY BelongParts DEF SInv
  <2>2. QED
      BY <1>1, <2>1 DEF Belongs
<1>3. SentencesBelong'
    BY <1>2, BelongPartsNext DEF Belongs, EntriesOf, Awaited
<1>4. ASSUME NEW s \in Request, req'[s].at \in Removing
      PROVE  /\ user_words[req'[s].entry] \in {None, [user |-> req'[s].user, word |-> req'[s].word]}
             /\ req'[s].at = "remove_entry" =>
                   \A i \in DOMAIN contexts :
                      (contexts[i].user = req'[s].user /\ contexts[i].word = req'[s].word) =>
                         \/ <<req'[s].user, req'[s].word>> \in torn'
                         \/ \E e \in EntriesOf(req'[s].user, req'[s].word) : e # req'[s].entry
  <2>1. CASE s = r
      BY <1>1, <1>4, <2>1 DEF Removing
  <2>2. CASE s # r
    <3>1. req'[s] = req[s]
        BY <1>1, <2>2
    <3>2. QED
        BY <1>4, <3>1 DEF SInv, RemovalSound
  <2>3. QED
      BY <2>1, <2>2
<1>5. RemovalSound'
    BY <1>4 DEF RemovalSound, EntriesOf
<1>6. QED
    BY <1>3, <1>5

LEMMA SentencesOfBegins ==
    ASSUME SInv, NEW r \in Request, Begins(r)
    PROVE  SentencesBelong' /\ RemovalSound'
<1>1. PICK n \in RequestState : Start(r, n) /\ Begun(n)
    BY DEF Begins
<1>2. /\ req' = [req EXCEPT ![r] = n] /\ UNCHANGED <<user_words, contexts, torn>>
      /\ req[r].at = "idle"
    BY <1>1 DEF Start, Goto, history
<1>3. /\ n.at # "remove_entry"
      /\ n.at = "remove_sentences" => user_words[n.entry] = [user |-> n.user, word |-> n.word]
    BY <1>1 DEF Begun
<1>4. QED
    BY <1>2, <1>3, SentencesStay DEF Awaited

LEMMA SentencesOfReads ==
    ASSUME SInv, NEW r \in Request, Reads(r)
    PROVE  SentencesBelong' /\ RemovalSound'
<1>1. UNCHANGED <<user_words, contexts>>
    BY ReadsHold DEF SInv
<1>2. CASE Abort(r)
  <2>1. Passes(r, Idle) /\ Idle \in RequestState
      BY <1>2, FinishPasses DEF Abort
  <2>2. torn \subseteq torn' /\ (req[r].op = "capture" /\ req[r].at \in {"entry", "new_entry"}
                                   => <<req[r].user, req[r].word>> \in torn')
      BY <1>2 DEF Abort
  <2>3. QED
      BY <1>1, <2>1, <2>2, SentencesStay DEF Passes, Awaited, Removing
<1>3. CASE GetEntry(r)
  <2>1. PICK n \in RequestState :
              /\ Passes(r, n)
              /\ \/ EntriesOf(req[r].user, req[r].word) # {}
                 \/ /\ n.at = "new_entry" /\ n.op = req[r].op
                    /\ n.user = req[r].user /\ n.word = req[r].word
      BY <1>3, GetEntryPasses DEF SInv
  <2>2. torn' = torn
      BY <1>3 DEF GetEntry, history
  <2>3. req' = [req EXCEPT ![r] = n] /\ n.at \notin Removing
      BY <2>1 DEF Passes
  <2>4. ASSUME NEW u, NEW w, Awaited(req[r], u, w)
        PROVE  EntriesOf(u, w) # {} \/ Awaited(n, u, w)
      BY <2>1, <2>4 DEF Awaited
  <2>5. QED
      BY <1>1, <2>2, <2>3, <2>4, SentencesStay DEF Removing
<1>4. CASE SetTarget(r) \/ GetWord(r) \/ GetSource(r) \/ NewSource(r) \/ Reload(r) \/ ReadChunk(r) \/ BreakDeadlock(r)
  <2>1. \E n \in RequestState : req' = [req EXCEPT ![r] = n] /\ n.at \notin Removing
    <3>1. CASE SetTarget(r)
        BY <3>1, SetTargetPasses DEF SInv, Passes
    <3>2. CASE GetWord(r)
        BY <3>2, GetWordPasses DEF SInv, Passes
    <3>3. CASE GetSource(r)
        BY <3>3, GetSourcePasses DEF SInv, Passes
    <3>4. CASE NewSource(r)
        BY <3>4, NewSourcePasses DEF SInv, Passes
    <3>5. CASE ReadChunk(r)
        BY <3>5, ReadChunkTakes DEF SInv, Takes, Removing
    <3>6. CASE Reload(r) \/ BreakDeadlock(r)
        BY <3>6, FinishPasses DEF Reload, BreakDeadlock, Passes
    <3>7. QED
        BY <1>4, <3>1, <3>2, <3>3, <3>4, <3>5, <3>6
  <2>2. torn' = torn /\ req[r].at \notin {"entry", "new_entry"}
      BY <1>4 DEF SetTarget, GetWord, GetSource, NewSource, Reload, ReadChunk, BreakDeadlock, history
  <2>3. QED
      BY <1>1, <2>1, <2>2, SentencesStay DEF Awaited, Removing
<1>5. QED
    BY <1>2, <1>3, <1>4 DEF Reads

\* A step that rewrites words: what has no entry still counts as an incident, for a new
\* row of the dictionary has no sentences.
LEMMA SentencesOfWords ==
    ASSUME SInv, NEW r \in Request, NewWord(r) \/ Rewrite(r) \/ Flush(r) \/ Commit(r)
    PROVE  SentencesBelong' /\ RemovalSound'
<1>1. UNCHANGED <<user_words, contexts>> /\ req[r].at \in {"new_word", "rewrite", "flush", "commit"}
    BY DEF NewWord, Rewrite, Flush, Commit
<1>2. \E n \in RequestState : req' = [req EXCEPT ![r] = n] /\ n.at \notin Removing
  <2>1. CASE NewWord(r)
      BY <2>1, NewWordPasses DEF SInv, Passes
  <2>2. CASE Flush(r)
      BY <2>2, FlushIs, IdleSound DEF SInv, Passes, Flushes, Removing
  <2>3. CASE Rewrite(r) \/ Commit(r)
      BY <2>3, FinishPasses DEF Rewrite, Commit, Passes
  <2>4. QED
      BY <2>1, <2>2, <2>3
<1>3. \A t \in torn : Stored(t[2]) => t \in torn'
  <2>1. CASE NewWord(r)
    <3>1. CASE UNCHANGED <<words, history>>
        BY <3>1 DEF history
    <3>2. CASE \E w \in Word, row \in WordRow : Creates(r, w, row)
        BY <3>2 DEF Creates, FreshWord
    <3>3. QED
        BY <2>1, <3>1, <3>2, NewWordIs DEF SInv
  <2>2. CASE Rewrite(r)
      BY <2>2, RewriteIs DEF SInv, Rewrites, history
  <2>3. CASE Flush(r)
      BY <2>3 DEF Flush
  <2>4. CASE Commit(r)
    <3>1. PICK id : Commits(r, id)
        BY <2>4, CommitIs DEF SInv
    <3>2. QED
        BY <3>1 DEF Commits, FreshWord
  <2>5. QED
      BY <2>1, <2>2, <2>3, <2>4
<1>4. \A i \in DOMAIN contexts : Stored(contexts[i].word)
    BY SentenceIs DEF SInv
<1>5. \A i \in DOMAIN contexts :
          <<contexts[i].user, contexts[i].word>> \in torn => <<contexts[i].user, contexts[i].word>> \in torn'
    BY <1>3, <1>4
<1>6. QED
    BY <1>1, <1>2, <1>5, SentencesStay DEF Awaited, Removing

LEMMA SentencesOfNewContext ==
    ASSUME SInv, NEW r \in Request, NewContext(r)
    PROVE  SentencesBelong' /\ RemovalSound'
<1>1. PICK n \in RequestState :
          /\ Passes(r, n)
          /\ contexts' # contexts =>
                /\ n.at \in {"entry", "new_entry"}
                /\ n.op = "capture" /\ n.user = req[r].user /\ n.word = req[r].word
    BY NewContextPasses DEF SInv
<1>2. req[r].at = "context" /\ user_words' = user_words
    BY DEF NewContext
<1>3. /\ req' = [req EXCEPT ![r] = n] /\ n.at \notin Removing
      /\ req'[r] = n /\ \A s \in Request \ {r} : req'[s] = req[s]
    BY <1>1 DEF Passes, SInv, TInv
<1>4. CASE contexts' = contexts
  <2>1. torn \subseteq torn'
      BY DEF NewContext
  <2>2. QED
      BY <1>2, <1>3, <1>4, <2>1, SentencesStay DEF Awaited, Removing
<1>5. CASE contexts' # contexts
  <2>1. PICK u \in User, w \in Word : u = req[r].user /\ w = req[r].word
      BY <1>2, SlotIs DEF SInv, Sound
  <2>2. /\ contexts' = Append(contexts, [user |-> u, word |-> w])
        /\ torn' = IF \E s \in Request : req[s].at = "remove_entry" /\ req[s].user = u /\ req[s].word = w
                   THEN torn \cup {<<u, w>>} ELSE torn
      BY <1>5, <2>1 DEF NewContext
  <2>3. /\ DOMAIN contexts' = 1..(Len(contexts) + 1) /\ DOMAIN contexts = 1..Len(contexts) /\ Len(contexts) \in Nat
        /\ \A i \in 1..Len(contexts) : contexts'[i] = contexts[i]
        /\ contexts'[Len(contexts) + 1].user = u /\ contexts'[Len(contexts) + 1].word = w
    <3>1. PICK c \in Context : c = [user |-> u, word |-> w]
        BY DEF Context
    <3>2. contexts \in Seq(Context)
        BY DEF SInv, TInv, Tables
    <3>3. PICK added : added = Append(contexts, c)
        OBVIOUS
    <3>4. /\ DOMAIN added = 1..(Len(contexts) + 1) /\ DOMAIN contexts = 1..Len(contexts) /\ Len(contexts) \in Nat
          /\ \A i \in 1..Len(contexts) : added[i] = contexts[i]
          /\ added[Len(contexts) + 1] = c
        BY <3>2, <3>3, AppendProperties, LenProperties
    <3>5. QED
        BY <2>2, <3>1, <3>3, <3>4
  <2>4. \A i \in DOMAIN contexts' :
            \/ i \in DOMAIN contexts /\ contexts'[i] = contexts[i]
            \/ contexts'[i].user = u /\ contexts'[i].word = w
      BY <2>3
  <2>5. Awaited(n, u, w) /\ ~Awaited(req[r], u, w) /\ \A v, x : ~Awaited(req[r], v, x)
      BY <1>1, <1>2, <1>5, <2>1 DEF Awaited
  <2>6. ASSUME NEW i \in DOMAIN contexts'
        PROVE  \/ EntriesOf(contexts'[i].user, contexts'[i].word) # {}
               \/ <<contexts'[i].user, contexts'[i].word>> \in torn'
               \/ \E s \in Request : Awaited(req'[s], contexts'[i].user, contexts'[i].word)
    <3>1. CASE contexts'[i].user = u /\ contexts'[i].word = w
        BY <1>3, <2>5, <3>1
    <3>2. CASE i \in DOMAIN contexts /\ contexts'[i] = contexts[i]
      <4>1. Belongs(contexts[i].user, contexts[i].word)
          BY <3>2, BelongParts DEF SInv
      <4>2. torn \subseteq torn'
          BY <2>2
      <4>3. CASE \E s \in Request : Awaited(req[s], contexts[i].user, contexts[i].word)
          BY <1>3, <2>5, <3>2, <4>3
      <4>4. QED
          BY <3>2, <4>1, <4>2, <4>3 DEF Belongs
    <3>3. QED
        BY <2>4, <3>1, <3>2
  <2>7. SentencesBelong'
      BY <1>2, <2>6, BelongPartsNext DEF Belongs, EntriesOf, Awaited
  <2>8. ASSUME NEW s \in Request, req'[s].at \in Removing
        PROVE  /\ user_words[req'[s].entry] \in {None, [user |-> req'[s].user, word |-> req'[s].word]}
               /\ req'[s].at = "remove_entry" =>
                     \A i \in DOMAIN contexts' :
                        (contexts'[i].user = req'[s].user /\ contexts'[i].word = req'[s].word) =>
                           \/ <<req'[s].user, req'[s].word>> \in torn'
                           \/ \E e \in EntriesOf(req'[s].user, req'[s].word) : e # req'[s].entry
    <3>1. s # r /\ req'[s] = req[s]
        BY <1>3, <2>8
    <3>2. /\ user_words[req[s].entry] \in {None, [user |-> req[s].user, word |-> req[s].word]}
          /\ req[s].at = "remove_entry" =>
              \A i \in DOMAIN contexts :
                 (contexts[i].user = req[s].user /\ contexts[i].word = req[s].word) =>
                    \/ <<req[s].user, req[s].word>> \in torn
                    \/ \E e \in EntriesOf(req[s].user, req[s].word) : e # req[s].entry
        BY <2>8, <3>1 DEF SInv, RemovalSound
    <3>3. req[s].at = "remove_entry" /\ req[s].user = u /\ req[s].word = w => <<u, w>> \in torn'
        BY <2>2
    <3>4. torn \subseteq torn'
        BY <2>2
    <3>5. QED
        BY <2>4, <3>1, <3>2, <3>3, <3>4
  <2>9. RemovalSound'
      BY <1>2, <2>8 DEF RemovalSound, EntriesOf
  <2>10. QED
      BY <2>7, <2>9
<1>6. QED
    BY <1>4, <1>5

LEMMA SentencesOfNewEntry ==
    ASSUME SInv, NEW r \in Request, NewEntry(r)
    PROVE  SentencesBelong' /\ RemovalSound'
<1>1. PICK n \in RequestState : Passes(r, n)
    BY NewEntryPasses DEF SInv
<1>2. PICK u \in User, w \in Word : u = req[r].user /\ w = req[r].word
    BY SlotIs DEF SInv, NewEntry, Sound
<1>3. /\ req' = [req EXCEPT ![r] = n] /\ n.at \notin Removing
      /\ req'[r] = n /\ \A s \in Request \ {r} : req'[s] = req[s]
    BY <1>1 DEF Passes, SInv, TInv
<1>4. contexts' = contexts
    BY DEF NewEntry
<1>5. CASE /\ UNCHANGED <<user_words, torn>>
           /\ EntriesOf(u, w) # {} \/ ~Stored(w)
  <2>1. \A i \in DOMAIN contexts : Stored(contexts[i].word)
      BY SentenceIs DEF SInv
  <2>2. ASSUME NEW v, NEW x, Awaited(req[r], v, x), Stored(x) PROVE EntriesOf(v, x) # {}
      BY <1>2, <1>5, <2>2 DEF Awaited
  <2>3. \A i \in DOMAIN contexts :
            Awaited(req[r], contexts[i].user, contexts[i].word) =>
                EntriesOf(contexts[i].user, contexts[i].word) # {}
      BY <2>1, <2>2
  <2>4. n.at \notin {"remove_sentences", "remove_entry"}
      BY <1>3 DEF Removing
  <2>5. UNCHANGED <<user_words, contexts>> /\ torn' = torn
      BY <1>4, <1>5
  <2>6. QED
      BY <1>3, <2>3, <2>4, <2>5, SentencesStay
<1>6. ASSUME NEW e \in Entry, FreshEntry(e),
             user_words' = [user_words EXCEPT ![e] = [user |-> u, word |-> w]],
             torn' = torn \ {<<u, w>>}
      PROVE  SentencesBelong' /\ RemovalSound'
  <2>1. /\ user_words[e] = None /\ user_words'[e] = [user |-> u, word |-> w]
        /\ \A d \in Entry \ {e} : user_words'[d] = user_words[d]
        /\ \A s \in Request : req[s].entry # e
      BY <1>6 DEF FreshEntry, SInv, TInv, Tables
  <2>2. ASSUME NEW v \in User, NEW x \in Word
        PROVE  /\ \A d \in EntriesOf(v, x) : d # e /\ d \in Entry /\ user_words'[d] = [user |-> v, word |-> x]
               /\ <<v, x>> # <<u, w>> => \A d \in Entry : user_words'[d] = [user |-> v, word |-> x] => d \in EntriesOf(v, x)
    <3>1. PICK row \in UserWord : row = [user |-> v, word |-> x]
        BY DEF UserWord
    <3>2. row # None /\ row.user = v /\ row.word = x
        BY <3>1, RowAssumption
    <3>3. <<v, x>> # <<u, w>> => user_words'[e] # row
        BY <2>1, <3>2
    <3>4. QED
        BY <2>1, <3>1, <3>2, <3>3 DEF EntriesOf
  <2>3. \A i \in DOMAIN contexts : contexts[i].user \in User /\ contexts[i].word \in Word
      BY SentenceIs DEF SInv
  <2>4. ASSUME NEW i \in DOMAIN contexts
        PROVE  \/ \E d \in Entry : user_words'[d] = [user |-> contexts[i].user, word |-> contexts[i].word]
               \/ <<contexts[i].user, contexts[i].word>> \in torn'
               \/ \E s \in Request : Awaited(req'[s], contexts[i].user, contexts[i].word)
    <3>1. PICK v \in User, x \in Word : v = contexts[i].user /\ x = contexts[i].word
        BY <2>3
    <3>2. Belongs(v, x)
        BY <3>1, BelongParts DEF SInv
    <3>3. CASE v = u /\ x = w
        BY <2>1, <3>1, <3>3
    <3>4. CASE ~(v = u /\ x = w)
      <4>1. CASE EntriesOf(v, x) # {}
          BY <2>2, <3>1, <4>1
      <4>2. CASE <<v, x>> \in torn
          BY <1>6, <3>1, <3>4, <4>2
      <4>3. CASE \E s \in Request : Awaited(req[s], v, x)
        <5>1. PICK s \in Request : Awaited(req[s], v, x)
            BY <4>3
        <5>2. s # r
            BY <1>2, <3>4, <5>1 DEF Awaited
        <5>3. QED
            BY <1>3, <3>1, <5>1, <5>2
      <4>4. QED
          BY <3>2, <4>1, <4>2, <4>3 DEF Belongs
    <3>5. QED
        BY <3>3, <3>4
  <2>5. SentencesBelong'
      BY <1>4, <2>4, BelongPartsNext DEF Belongs, EntriesOf, Awaited
  <2>6. ASSUME NEW s \in Request, req'[s].at \in Removing
        PROVE  /\ user_words'[req'[s].entry] \in {None, [user |-> req'[s].user, word |-> req'[s].word]}
               /\ req'[s].at = "remove_entry" =>
                     \A i \in DOMAIN contexts :
                        (contexts[i].user = req'[s].user /\ contexts[i].word = req'[s].word) =>
                           \/ <<req'[s].user, req'[s].word>> \in torn'
                           \/ \E d \in Entry : /\ d # req'[s].entry
                                              /\ user_words'[d] = [user |-> req'[s].user, word |-> req'[s].word]
    <3>1. s # r /\ req'[s] = req[s] /\ req[s].entry # e
        BY <1>3, <2>1, <2>6
    <3>2. req[s].entry \in Entry /\ req[s].user \in User /\ req[s].word \in Word
        BY <2>6, <3>1, SlotIs DEF SInv, Sound, Removing
    <3>3. user_words'[req[s].entry] = user_words[req[s].entry]
        BY <2>1, <3>1, <3>2
    <3>4. /\ user_words[req[s].entry] \in {None, [user |-> req[s].user, word |-> req[s].word]}
          /\ req[s].at = "remove_entry" =>
              \A i \in DOMAIN contexts :
                 (contexts[i].user = req[s].user /\ contexts[i].word = req[s].word) =>
                    \/ <<req[s].user, req[s].word>> \in torn
                    \/ \E d \in EntriesOf(req[s].user, req[s].word) : d # req[s].entry
        BY <2>6, <3>1 DEF SInv, RemovalSound
    <3>5. CASE req[s].user = u /\ req[s].word = w
        BY <2>1, <3>1, <3>3, <3>4, <3>5
    <3>6. CASE ~(req[s].user = u /\ req[s].word = w)
      <4>1. <<req[s].user, req[s].word>> \in torn => <<req[s].user, req[s].word>> \in torn'
          BY <1>6, <3>6
      <4>2. \A d \in EntriesOf(req[s].user, req[s].word) :
                d \in Entry /\ user_words'[d] = [user |-> req[s].user, word |-> req[s].word]
          BY <2>2, <3>2
      <4>3. QED
          BY <3>1, <3>3, <3>4, <4>1, <4>2
    <3>7. QED
        BY <3>5, <3>6
  <2>7. RemovalSound'
      BY <1>4, <2>6 DEF RemovalSound, EntriesOf
  <2>8. QED
      BY <2>5, <2>7
<1>7. QED
    BY <1>2, <1>5, <1>6, NewEntryIs DEF SInv

\* The step takes sentences away, or none; what has no entry still counts as an incident.
LEMMA SentencesOfRemoveSentences ==
    ASSUME SInv, NEW r \in Request, RemoveSentences(r)
    PROVE  SentencesBelong' /\ RemovalSound'
<1>1. PICK n \in RequestState :
          /\ Takes(r, n)
          /\ n.at = "remove_entry" /\ n.user = req[r].user /\ n.word = req[r].word /\ n.entry = req[r].entry
    BY RemoveSentencesTakes DEF SInv
<1>2. PICK u \in User, w \in Word : u = req[r].user /\ w = req[r].word
    BY SlotIs DEF SInv, RemoveSentences, Sound
<1>3. /\ req[r].at = "remove_sentences" /\ user_words' = user_words /\ torn' = torn \ {<<u, w>>}
      /\ req'[r] = n /\ \A s \in Request \ {r} : req'[s] = req[s]
    BY <1>1, <1>2 DEF RemoveSentences, Takes, SInv, TInv
<1>4. \A i \in DOMAIN contexts' :
          /\ ~(contexts'[i].user = u /\ contexts'[i].word = w)
          /\ \E j \in DOMAIN contexts : contexts'[i] = contexts[j]
  <2>1. /\ contexts' \in Seq(Context)
        /\ \A i \in DOMAIN contexts' :
              contexts'[i] # [user |-> u, word |-> w] /\ \E j \in DOMAIN contexts : contexts'[i] = contexts[j]
      BY <1>2, SentencesLeft DEF SInv, RemoveSentences
  <2>2. QED
      BY <2>1, SentenceIs DEF SInv
<1>5. ASSUME NEW i \in DOMAIN contexts'
      PROVE  \/ EntriesOf(contexts'[i].user, contexts'[i].word) # {}
             \/ <<contexts'[i].user, contexts'[i].word>> \in torn'
             \/ \E s \in Request : Awaited(req'[s], contexts'[i].user, contexts'[i].word)
  <2>1. PICK j \in DOMAIN contexts : contexts'[i] = contexts[j]
      BY <1>4
  <2>2. PICK v, x : v = contexts'[i].user /\ x = contexts'[i].word
      OBVIOUS
  <2>3. Belongs(v, x) /\ <<v, x>> # <<u, w>>
      BY <1>4, <2>1, <2>2, BelongParts DEF SInv
  <2>4. ASSUME NEW s \in Request, Awaited(req[s], v, x) PROVE s # r /\ Awaited(req'[s], v, x)
      BY <1>3, <2>4 DEF Awaited
  <2>5. QED
      BY <1>3, <2>2, <2>3, <2>4 DEF Belongs
<1>6. SentencesBelong'
    BY <1>3, <1>5, BelongPartsNext DEF Belongs, EntriesOf, Awaited
<1>7. ASSUME NEW s \in Request, req'[s].at \in Removing
      PROVE  /\ user_words[req'[s].entry] \in {None, [user |-> req'[s].user, word |-> req'[s].word]}
             /\ req'[s].at = "remove_entry" =>
                   \A i \in DOMAIN contexts' :
                      (contexts'[i].user = req'[s].user /\ contexts'[i].word = req'[s].word) =>
                         \/ <<req'[s].user, req'[s].word>> \in torn'
                         \/ \E e \in EntriesOf(req'[s].user, req'[s].word) : e # req'[s].entry
  <2>1. /\ req'[s].user = req[s].user /\ req'[s].word = req[s].word /\ req'[s].entry = req[s].entry
        /\ req[s].at \in Removing /\ (s # r => req'[s].at = req[s].at)
      BY <1>1, <1>3, <1>7 DEF Removing
  <2>2. /\ user_words[req[s].entry] \in {None, [user |-> req[s].user, word |-> req[s].word]}
        /\ req[s].at = "remove_entry" =>
              \A i \in DOMAIN contexts :
                 (contexts[i].user = req[s].user /\ contexts[i].word = req[s].word) =>
                    \/ <<req[s].user, req[s].word>> \in torn
                    \/ \E e \in EntriesOf(req[s].user, req[s].word) : e # req[s].entry
      BY <2>1 DEF SInv, RemovalSound
  <2>3. ASSUME req'[s].at = "remove_entry", NEW i \in DOMAIN contexts',
               contexts'[i].user = req[s].user, contexts'[i].word = req[s].word
        PROVE  \/ <<req[s].user, req[s].word>> \in torn'
               \/ \E e \in EntriesOf(req[s].user, req[s].word) : e # req[s].entry
    <3>1. <<req[s].user, req[s].word>> # <<u, w>>
        BY <1>4, <2>3
    <3>2. s # r
        BY <1>2, <3>1
    <3>3. PICK j \in DOMAIN contexts : contexts'[i] = contexts[j]
        BY <1>4
    <3>4. \/ <<req[s].user, req[s].word>> \in torn
          \/ \E e \in EntriesOf(req[s].user, req[s].word) : e # req[s].entry
        BY <2>1, <2>2, <2>3, <3>2, <3>3
    <3>5. QED
        BY <1>3, <3>1, <3>4
  <2>4. QED
      BY <2>1, <2>2, <2>3
<1>8. RemovalSound'
    BY <1>3, <1>7 DEF RemovalSound, EntriesOf
<1>9. QED
    BY <1>6, <1>8

\* An entry goes whose sentences, if it has any, count as an incident.
LEMMA SentencesWithoutEntry ==
    ASSUME SInv, NEW e \in Entry, user_words' = [user_words EXCEPT ![e] = None], contexts' = contexts,
           torn \subseteq torn',
           \A s \in Request : req'[s] = req[s] \/ (req[s].at = "remove_entry" /\ req'[s].at = "idle"),
           \A i \in DOMAIN contexts :
               user_words[e] = [user |-> contexts[i].user, word |-> contexts[i].word]
                   => <<contexts[i].user, contexts[i].word>> \in torn'
    PROVE  SentencesBelong' /\ RemovalSound'
<1>1. user_words'[e] = None /\ \A d \in Entry \ {e} : user_words'[d] = user_words[d]
    BY DEF SInv, TInv, Tables
<1>2. ASSUME NEW i \in DOMAIN contexts
      PROVE  \/ \E d \in Entry : user_words'[d] = [user |-> contexts[i].user, word |-> contexts[i].word]
             \/ <<contexts[i].user, contexts[i].word>> \in torn'
             \/ \E s \in Request : Awaited(req'[s], contexts[i].user, contexts[i].word)
  <2>1. Belongs(contexts[i].user, contexts[i].word)
      BY BelongParts DEF SInv
  <2>2. CASE EntriesOf(contexts[i].user, contexts[i].word) # {}
      BY <1>1, <2>2 DEF EntriesOf
  <2>3. CASE \E s \in Request : Awaited(req[s], contexts[i].user, contexts[i].word)
      BY <2>3 DEF Awaited
  <2>4. QED
      BY <2>1, <2>2, <2>3 DEF Belongs
<1>3. SentencesBelong'
    BY <1>2, BelongPartsNext DEF Belongs, EntriesOf, Awaited
<1>4. ASSUME NEW s \in Request, req'[s].at \in Removing
      PROVE  /\ user_words'[req'[s].entry] \in {None, [user |-> req'[s].user, word |-> req'[s].word]}
             /\ req'[s].at = "remove_entry" =>
                   \A i \in DOMAIN contexts :
                      (contexts[i].user = req'[s].user /\ contexts[i].word = req'[s].word) =>
                         \/ <<req'[s].user, req'[s].word>> \in torn'
                         \/ \E d \in Entry : /\ d # req'[s].entry
                                            /\ user_words'[d] = [user |-> req'[s].user, word |-> req'[s].word]
  <2>1. req'[s] = req[s] /\ req[s].at \in Removing
      BY <1>4 DEF Removing
  <2>2. req[s].entry \in Entry
      BY <2>1, SlotIs DEF SInv, Sound, Removing
  <2>3. /\ user_words[req[s].entry] \in {None, [user |-> req[s].user, word |-> req[s].word]}
        /\ req[s].at = "remove_entry" =>
              \A i \in DOMAIN contexts :
                 (contexts[i].user = req[s].user /\ contexts[i].word = req[s].word) =>
                    \/ <<req[s].user, req[s].word>> \in torn
                    \/ \E d \in EntriesOf(req[s].user, req[s].word) : d # req[s].entry
      BY <2>1 DEF SInv, RemovalSound
  <2>4. user_words'[req[s].entry] \in {None, [user |-> req[s].user, word |-> req[s].word]}
      BY <1>1, <2>2, <2>3
  <2>5. ASSUME req[s].at = "remove_entry", NEW i \in DOMAIN contexts,
               contexts[i].user = req[s].user, contexts[i].word = req[s].word
        PROVE  \/ <<req[s].user, req[s].word>> \in torn'
               \/ \E d \in Entry : /\ d # req[s].entry
                                  /\ user_words'[d] = [user |-> req[s].user, word |-> req[s].word]
    <3>1. CASE <<req[s].user, req[s].word>> \in torn
        BY <3>1
    <3>2. CASE \E d \in EntriesOf(req[s].user, req[s].word) : d # req[s].entry
      <4>1. PICK d \in Entry : d # req[s].entry /\ user_words[d] = [user |-> req[s].user, word |-> req[s].word]
          BY <3>2 DEF EntriesOf
      <4>2. CASE d = e
          BY <2>5, <4>1, <4>2
      <4>3. CASE d # e
          BY <1>1, <4>1, <4>3
      <4>4. QED
          BY <4>2, <4>3
    <3>3. QED
        BY <2>3, <2>5, <3>1, <3>2
  <2>6. QED
      BY <2>1, <2>4, <2>5
<1>5. RemovalSound'
    BY <1>4 DEF RemovalSound, EntriesOf
<1>6. QED
    BY <1>3, <1>5

LEMMA SentencesOfRemoveEntry ==
    ASSUME SInv, NEW r \in Request, RemoveEntry(r)
    PROVE  SentencesBelong' /\ RemovalSound'
<1>1. Passes(r, Idle)
    BY FinishPasses DEF RemoveEntry
<1>2. PICK e \in Entry, u \in User, w \in Word : e = req[r].entry /\ u = req[r].user /\ w = req[r].word
    BY SlotIs DEF SInv, RemoveEntry, Sound
<1>3. /\ req[r].at = "remove_entry" /\ user_words' = [user_words EXCEPT ![e] = None]
      /\ contexts' = contexts /\ torn' = torn
    BY <1>2 DEF RemoveEntry, history
<1>4. \A s \in Request : req'[s] = req[s] \/ (req[s].at = "remove_entry" /\ req'[s].at = "idle")
    BY <1>1, <1>3, IdleSound DEF Passes, SInv, TInv
<1>5. /\ user_words[e] \in {None, [user |-> u, word |-> w]}
      /\ \A i \in DOMAIN contexts :
            (contexts[i].user = u /\ contexts[i].word = w) =>
               \/ <<u, w>> \in torn
               \/ \E d \in EntriesOf(u, w) : d # e
    BY <1>2, <1>3 DEF SInv, RemovalSound, Removing
<1>6. ASSUME NEW i \in DOMAIN contexts, user_words[e] = [user |-> contexts[i].user, word |-> contexts[i].word]
      PROVE  <<contexts[i].user, contexts[i].word>> \in torn
  <2>1. PICK row \in UserWord : /\ row = [user |-> contexts[i].user, word |-> contexts[i].word]
                                /\ row.user = contexts[i].user /\ row.word = contexts[i].word
      BY SentenceIs DEF SInv, UserWord
  <2>2. row # None /\ user_words[e] = row
      BY <1>6, <2>1, RowAssumption
  <2>3. row.user = u /\ row.word = w
      BY <1>5, <2>2
  <2>4. \A d \in EntriesOf(u, w) : d = e
    <3>1. \A d \in Entry : (user_words[d] # None /\ user_words[d] = user_words[e]) => d = e
        BY DEF SInv, TInv, Tables
    <3>2. QED
        BY <2>1, <2>2, <2>3, <3>1 DEF EntriesOf
  <2>5. QED
      BY <1>5, <2>1, <2>3, <2>4
<1>7. QED
    BY <1>3, <1>4, <1>6, SentencesWithoutEntry

LEMMA SentencesOfRemoveVocabulary ==
    ASSUME SInv, NEW e \in Entry, RemoveVocabulary(e)
    PROVE  SentencesBelong' /\ RemovalSound'
<1>1. /\ user_words' = [user_words EXCEPT ![e] = None] /\ contexts' = contexts /\ req' = req
      /\ torn' = torn \cup {<<user_words[e].user, user_words[e].word>>}
    BY DEF RemoveVocabulary
<1>2. ASSUME NEW i \in DOMAIN contexts, user_words[e] = [user |-> contexts[i].user, word |-> contexts[i].word]
      PROVE  <<contexts[i].user, contexts[i].word>> \in torn'
    BY <1>1, <1>2
<1>3. QED
    BY <1>1, <1>2, SentencesWithoutEntry

LEMMA SentencesOfDeleteWord ==
    ASSUME SInv, NEW w \in Word, DeleteWord(w)
    PROVE  SentencesBelong' /\ RemovalSound'
<1>1. torn' = torn /\ req' = req
    BY DEF DeleteWord, history
<1>2. \A i \in DOMAIN contexts' :
          contexts'[i].word # w /\ \E j \in DOMAIN contexts : contexts'[i] = contexts[j]
    BY DeleteWordIs DEF SInv
<1>3. \A d \in Entry : /\ user_words'[d] \in {None, user_words[d]}
                      /\ \A v, x : (user_words[d] = [user |-> v, word |-> x] /\ x # w)
                                     => user_words'[d] = user_words[d]
    BY DeleteWordIs DEF SInv
<1>4. ASSUME NEW i \in DOMAIN contexts'
      PROVE  \/ \E d \in Entry : user_words'[d] = [user |-> contexts'[i].user, word |-> contexts'[i].word]
             \/ <<contexts'[i].user, contexts'[i].word>> \in torn
             \/ \E s \in Request : Awaited(req[s], contexts'[i].user, contexts'[i].word)
  <2>1. Belongs(contexts'[i].user, contexts'[i].word) /\ contexts'[i].word # w
      BY <1>2, BelongParts DEF SInv
  <2>2. QED
      BY <1>3, <2>1 DEF Belongs, EntriesOf
<1>5. SentencesBelong'
    BY <1>1, <1>4, BelongPartsNext DEF Belongs, EntriesOf, Awaited
<1>6. ASSUME NEW s \in Request, req[s].at \in Removing
      PROVE  /\ user_words'[req[s].entry] \in {None, [user |-> req[s].user, word |-> req[s].word]}
             /\ req[s].at = "remove_entry" =>
                   \A i \in DOMAIN contexts' :
                      (contexts'[i].user = req[s].user /\ contexts'[i].word = req[s].word) =>
                         \/ <<req[s].user, req[s].word>> \in torn
                         \/ \E d \in Entry : /\ d # req[s].entry
                                            /\ user_words'[d] = [user |-> req[s].user, word |-> req[s].word]
  <2>1. req[s].entry \in Entry
      BY <1>6, SlotIs DEF SInv, Sound, Removing
  <2>2. /\ user_words[req[s].entry] \in {None, [user |-> req[s].user, word |-> req[s].word]}
        /\ req[s].at = "remove_entry" =>
              \A i \in DOMAIN contexts :
                 (contexts[i].user = req[s].user /\ contexts[i].word = req[s].word) =>
                    \/ <<req[s].user, req[s].word>> \in torn
                    \/ \E d \in EntriesOf(req[s].user, req[s].word) : d # req[s].entry
      BY <1>6 DEF SInv, RemovalSound
  <2>3. user_words'[req[s].entry] \in {None, [user |-> req[s].user, word |-> req[s].word]}
      BY <1>3, <2>1, <2>2
  <2>4. ASSUME req[s].at = "remove_entry", NEW i \in DOMAIN contexts',
               contexts'[i].user = req[s].user, contexts'[i].word = req[s].word
        PROVE  \/ <<req[s].user, req[s].word>> \in torn
               \/ \E d \in Entry : /\ d # req[s].entry
                                  /\ user_words'[d] = [user |-> req[s].user, word |-> req[s].word]
    <3>1. \/ <<req[s].user, req[s].word>> \in torn
          \/ \E d \in EntriesOf(req[s].user, req[s].word) : d # req[s].entry
        BY <1>2, <2>2, <2>4
    <3>2. req[s].word # w
        BY <1>2, <2>4
    <3>3. QED
        BY <1>3, <3>1, <3>2 DEF EntriesOf
  <2>5. QED
      BY <2>3, <2>4
<1>7. RemovalSound'
    BY <1>1, <1>6 DEF RemovalSound, EntriesOf
<1>8. QED
    BY <1>5, <1>7

LEMMA SentencesNext ==
    ASSUME SInv, [Next]_vars
    PROVE  SInv'
<1>1. TInv'
    BY TypeNext DEF SInv
<1>2. SentencesBelong' /\ RemovalSound'
  <2>1. CASE UNCHANGED vars
    <3>1. UNCHANGED <<user_words, contexts, torn, req>>
        BY <2>1 DEF vars
    <3>2. QED
        BY <3>1 DEF SInv, SentencesBelong, RemovalSound, EntriesOf
  <2>2. CASE Step
      BY <2>2, SentencesOfBegins, SentencesOfReads, SentencesOfWords, SentencesOfNewContext, SentencesOfNewEntry,
         SentencesOfRemoveSentences, SentencesOfRemoveEntry, SentencesOfRemoveVocabulary, SentencesOfDeleteWord
         DEF Step
  <2>3. QED
      BY <2>1, <2>2, StepIs DEF SInv
<1>3. QED
    BY <1>1, <1>2 DEF SInv

\* However captures, removals and the admin's changes interleave, and whichever of them dies on the
\* way, a stored sentence has an entry of its learner, or is about to get one, or is left over from
\* one of the three incidents.
THEOREM EverySentenceBelongs == Spec => []SentencesBelong
<1>1. Init => SInv
  <2>1. Init => SentencesBelong /\ RemovalSound
      BY IdleSound DEF Init, SentencesBelong, RemovalSound, Removing
  <2>2. QED
      BY <2>1, TypeInit DEF SInv
<1>2. SInv /\ [Next]_vars => SInv'
    BY SentencesNext
<1>3. SInv => SentencesBelong
    BY DEF SInv
<1>4. QED
    BY <1>1, <1>2, <1>3, PTL DEF Spec

-----------------------------------------------------------------------------
(* An import is all or nothing *)

\* The keys a running import has written, or is still to read.
Covered(s) ==
    {words[row[1]].key : row \in s.rows} \cup s.inserts \cup UNION {s.chunks[i] : i \in DOMAIN s.chunks}

\* Every entry of a running import is on a row it writes to, among its new keys or in a chunk
\* to come, unless one of those rows had changed between its SELECT and its UPDATE.
Given(s) ==
    s.at \in Importing =>
        /\ \A row \in s.rows : Lang(s) \in row[2]
        /\ Covered(s) = s.entries \/ \E row \in s.rows : row[1] \in raced
        /\ s.at = "flush" => \A row \in s.found : row[2].key \in Head(s.chunks)

\* The inductive invariant of ImportAtomic.
GInv == TInv /\ \A r \in Request : Given(req[r])

\* A request that changes nothing on the rows the others hold.
LEMMA GivenStays ==
    ASSUME GInv, NEW s \in Request,
           \A row \in req[s].rows :
               words'[row[1]].key = words[row[1]].key /\ (row[1] \in raced => row[1] \in raced')
    PROVE  Given(req[s])'  \/ req'[s] # req[s]
<1> SUFFICES ASSUME req'[s] = req[s] PROVE Given(req[s])'
    OBVIOUS
<1>1. Given(req[s])
    BY DEF GInv
<1>2. {words'[row[1]].key : row \in req[s].rows} = {words[row[1]].key : row \in req[s].rows}
    OBVIOUS
<1>3. Covered(req[s])' = Covered(req[s])
    BY <1>2 DEF Covered
<1>4. QED
    BY <1>1, <1>3 DEF Given, Lang

LEMMA GivenNext ==
    ASSUME GInv, NEW r \in Request, NEW n \in RequestState, req' = [req EXCEPT ![r] = n],
           \A s \in Request \ {r} : \A row \in req[s].rows :
               words'[row[1]].key = words[row[1]].key /\ (row[1] \in raced => row[1] \in raced'),
           Given(n)'
    PROVE  \A s \in Request : Given(req[s])'
<1>1. req'[r] = n /\ \A s \in Request \ {r} : req'[s] = req[s]
    BY DEF GInv, TInv
<1>2. Given(req[r])'
    BY <1>1 DEF Given, Covered, Lang
<1>3. \A s \in Request \ {r} : Given(req[s])'
    BY <1>1, GivenStays
<1>4. QED
    BY <1>2, <1>3

\* Steps that write to no word and end outside an import.
LEMMA GivenOfPasses ==
    ASSUME GInv, NEW r \in Request, NEW n \in RequestState, req' = [req EXCEPT ![r] = n],
           words' = words, raced' = raced, n.at \notin Importing
    PROVE  \A s \in Request : Given(req[s])'
<1>1. Given(n)'
    BY DEF Given
<1>2. QED
    BY <1>1, GivenNext

LEMMA GivenOfBegins ==
    ASSUME GInv, NEW r \in Request, Begins(r)
    PROVE  \A s \in Request : Given(req[s])'
<1>1. PICK n \in RequestState : Start(r, n) /\ Begun(n)
    BY DEF Begins
<1>2. req' = [req EXCEPT ![r] = n] /\ words' = words /\ raced' = raced
    BY <1>1 DEF Start, Goto, history
<1>3. n.rows = {} /\ n.inserts = {} /\ n.at # "flush"
      /\ (n.at \in Importing => UNION {n.chunks[i] : i \in DOMAIN n.chunks} = n.entries)
    BY <1>1 DEF Begun, Importing
<1>4. Given(n)'
    BY <1>3 DEF Given, Covered
<1>5. QED
    BY <1>2, <1>4, GivenNext

LEMMA GivenOfReads ==
    ASSUME GInv, NEW r \in Request, Reads(r)
    PROVE  \A s \in Request : Given(req[s])'
<1>1. words' = words /\ raced' = raced
    BY ReadsHold DEF GInv
<1>2. CASE ReadChunk(r)
  <2>1. PICK n \in RequestState :
              /\ Takes(r, n)
              /\ n.at \in {"flush", "commit"}
              /\ n.chunks = req[r].chunks /\ n.rows = req[r].rows /\ n.inserts = req[r].inserts
              /\ n.keeps = req[r].keeps /\ n.entries = req[r].entries
              /\ n.at = "flush" => n.found = {<<w, words[w]>> : w \in RowsOf(Head(req[r].chunks))}
      BY <1>2, ReadChunkTakes DEF GInv
  <2>2. Given(req[r]) /\ req[r].at \in Importing
      BY <1>2 DEF GInv, ReadChunk, Importing
  <2>3. Lang(n) = Lang(req[r])
      BY <2>1 DEF Lang
  <2>4. Covered(n) = Covered(req[r])
      BY <2>1 DEF Covered
  <2>5. ASSUME n.at = "flush", NEW row \in n.found PROVE row[2].key \in Head(n.chunks)
    <3>1. PICK w \in RowsOf(Head(req[r].chunks)) : row = <<w, words[w]>>
        BY <2>1, <2>5, Zenon
    <3>2. words[w].key \in Head(n.chunks)
        BY <2>1, <3>1 DEF RowsOf
    <3>3. QED
        BY <3>1, <3>2
  <2>6. Given(n)
      BY <2>1, <2>2, <2>3, <2>4, <2>5 DEF Given
  <2>7. Given(n)'
      BY <1>1, <2>6 DEF Given, Covered, Lang
  <2>8. QED
      BY <1>1, <2>1, <2>7, GivenNext DEF Takes
<1>3. CASE ~ReadChunk(r)
  <2>1. \E n \in RequestState : req' = [req EXCEPT ![r] = n] /\ n.at \notin Importing
    <3>1. CASE SetTarget(r)
        BY <3>1, SetTargetPasses DEF GInv, Passes
    <3>2. CASE GetWord(r)
        BY <3>2, GetWordPasses DEF GInv, Passes
    <3>3. CASE GetSource(r)
        BY <3>3, GetSourcePasses DEF GInv, Passes
    <3>4. CASE NewSource(r)
        BY <3>4, NewSourcePasses DEF GInv, Passes
    <3>5. CASE GetEntry(r)
        BY <3>5, GetEntryPasses DEF GInv, Passes
    <3>6. CASE Reload(r) \/ BreakDeadlock(r) \/ Abort(r)
        BY <3>6, FinishPasses DEF Reload, BreakDeadlock, Abort, Passes
    <3>7. QED
        BY <1>3, <3>1, <3>2, <3>3, <3>4, <3>5, <3>6 DEF Reads
  <2>2. QED
      BY <1>1, <2>1, GivenOfPasses
<1>4. QED
    BY <1>2, <1>3

LEMMA GivenOfWords ==
    ASSUME GInv, NEW r \in Request, NewWord(r) \/ Rewrite(r) \/ Commit(r)
    PROVE  \A s \in Request : Given(req[s])'
<1>1. PICK n \in RequestState : Passes(r, n)
  <2>1. CASE NewWord(r)
      BY <2>1, NewWordPasses DEF GInv
  <2>2. CASE Rewrite(r) \/ Commit(r)
      BY <2>2, FinishPasses DEF Rewrite, Commit
  <2>3. QED
      BY <2>1, <2>2
<1>2. Given(n)'
    BY <1>1 DEF Given, Passes
<1>3. QED
    BY <1>1, <1>2, RowsAside, GivenNext DEF GInv, Passes

LEMMA GivenOfOthers ==
    ASSUME GInv, NEW r \in Request, NewContext(r) \/ NewEntry(r) \/ RemoveSentences(r) \/ RemoveEntry(r)
    PROVE  \A s \in Request : Given(req[s])'
<1>1. words' = words /\ raced' = raced
    BY DEF NewContext, NewEntry, RemoveSentences, RemoveEntry, history
<1>2. \E n \in RequestState : req' = [req EXCEPT ![r] = n] /\ n.at \notin Importing
  <2>1. CASE NewContext(r)
      BY <2>1, NewContextPasses DEF GInv, Passes
  <2>2. CASE NewEntry(r)
      BY <2>2, NewEntryPasses DEF GInv, Passes
  <2>3. CASE RemoveSentences(r)
      BY <2>3, RemoveSentencesTakes DEF GInv, Takes, Importing
  <2>4. CASE RemoveEntry(r)
      BY <2>4, FinishPasses DEF RemoveEntry, Passes
  <2>5. QED
      BY <2>1, <2>2, <2>3, <2>4
<1>3. QED
    BY <1>1, <1>2, GivenOfPasses

LEMMA GivenOfRows ==
    ASSUME GInv, \/ \E e \in Entry : RemoveVocabulary(e)
                 \/ \E w \in Word : DeleteWord(w)
    PROVE  \A s \in Request : Given(req[s])'
<1>1. req' = req /\ raced' = raced
    BY DEF RemoveVocabulary, DeleteWord, history
<1>2. \A s \in Request : \A row \in req[s].rows : words'[row[1]] = words[row[1]]
  <2>1. CASE \E e \in Entry : RemoveVocabulary(e)
      BY <2>1 DEF RemoveVocabulary
  <2>2. CASE \E w \in Word : DeleteWord(w)
    <3>1. \A s \in Request : \A row \in req[s].rows : row[1] \in Word
        BY DEF GInv, TInv, RequestState
    <3>2. QED
        BY <2>2, <3>1, DeleteWordIs DEF GInv
  <2>3. QED
      BY <2>1, <2>2
<1>3. QED
    BY <1>1, <1>2, GivenStays

LEMMA UnionOfTail ==
    ASSUME NEW s \in Seq(SUBSET Key), s # <<>>
    PROVE  UNION {s[i] : i \in DOMAIN s} = Head(s) \cup UNION {Tail(s)[i] : i \in DOMAIN Tail(s)}
<1>1. PICK n \in Nat : n = Len(s)
    BY LenProperties
<1>2. PICK t \in Seq(SUBSET Key) : t = Tail(s)
    BY HeadTailProperties
<1>3. /\ n >= 1 /\ DOMAIN s = 1..n /\ DOMAIN t = 1..(n - 1) /\ Head(s) = s[1]
      /\ \A i \in 1..(n - 1) : t[i] = s[i + 1]
    BY <1>1, <1>2, HeadTailProperties, LenProperties, EmptySeq
<1>4. ASSUME NEW i \in 1..n PROVE i = 1 \/ \E j \in 1..(n - 1) : s[i] = t[j]
  <2>1. CASE i # 1
    <3>1. i - 1 \in 1..(n - 1) /\ (i - 1) + 1 = i
        BY <2>1
    <3>2. QED
        BY <1>3, <3>1
  <2>2. QED
      BY <2>1
<1>5. ASSUME NEW j \in 1..(n - 1) PROVE j + 1 \in 1..n /\ t[j] = s[j + 1]
    BY <1>3
<1>6. 1 \in 1..n
    BY <1>3
<1>7. UNION {s[i] : i \in 1..n} = s[1] \cup UNION {t[j] : j \in 1..(n - 1)}
    BY <1>4, <1>5, <1>6
<1>8. QED
    BY <1>2, <1>3, <1>7

LEMMA GivenOfFlush ==
    ASSUME GInv, NEW r \in Request, Flush(r)
    PROVE  \A s \in Request : Given(req[s])'
<1>1. words' = words
    BY DEF Flush
<1>2. CASE Passes(r, Idle) /\ raced' = raced
    BY <1>1, <1>2, IdleSound, GivenOfPasses DEF Passes
<1>3. ASSUME NEW n \in RequestState, Flushes(r, n) PROVE \A s \in Request : Given(req[s])'
  <2>1. /\ req' = [req EXCEPT ![r] = n] /\ n.at = "chunk" /\ n.chunks = Tail(req[r].chunks)
        /\ n.rows = req[r].rows \cup Updates(req[r]) /\ n.inserts = req[r].inserts \cup NewKeys(req[r])
        /\ n.keeps = req[r].keeps /\ n.entries = req[r].entries
        /\ raced' = raced \cup {row[1] : row \in {row \in req[r].found : row[2] # words[row[1]]}}
      BY <1>3 DEF Flushes
  <2>2. /\ \A row \in req[r].rows : Lang(req[r]) \in row[2]
        /\ Covered(req[r]) = req[r].entries \/ \E row \in req[r].rows : row[1] \in raced
        /\ \A f \in req[r].found : f[2].key \in Head(req[r].chunks)
    <3>1. Given(req[r]) /\ req[r].at = "flush"
        BY DEF GInv, Flush
    <3>2. QED
        BY <3>1 DEF Given, Importing
  <2>3. Lang(n) = Lang(req[r])
      BY <2>1 DEF Lang
  <2>4. ASSUME NEW row \in Updates(req[r])
        PROVE  Lang(req[r]) \in row[2] /\ \E f \in req[r].found : row[1] = f[1]
    <3>1. PICK f \in req[r].found : row = <<f[1], Merged(f[2].definitions, Lang(req[r]), FALSE)>>
        BY Zenon DEF Updates
    <3>2. row[1] = f[1] /\ row[2] = Merged(f[2].definitions, Lang(req[r]), FALSE)
        BY <3>1
    <3>3. QED
        BY <3>2 DEF Merged
  <2>5. ASSUME NEW f \in req[r].found PROVE \E row \in Updates(req[r]) : row[1] = f[1]
    <3>1. <<f[1], Merged(f[2].definitions, Lang(req[r]), FALSE)>> \in Updates(req[r])
        BY Zenon DEF Updates
    <3>2. <<f[1], Merged(f[2].definitions, Lang(req[r]), FALSE)>>[1] = f[1]
        OBVIOUS
    <3>3. QED
        BY <3>1, <3>2
  <2>6. Covered(n) = n.entries \/ \E row \in n.rows : row[1] \in raced'
    <3>1. CASE \E row \in req[r].rows : row[1] \in raced
        BY <2>1, <3>1
    <3>2. CASE \E f \in req[r].found : f[2] # words[f[1]]
        BY <2>1, <2>5, <3>2
    <3>3. CASE Covered(req[r]) = req[r].entries /\ \A f \in req[r].found : f[2] = words[f[1]]
      <4>1. PICK K : K = {words[row[1]].key : row \in req[r].rows}
          OBVIOUS
      <4>2. PICK F : F = {f[2].key : f \in req[r].found}
          OBVIOUS
      <4>3. PICK H, T : H = Head(req[r].chunks) /\ T = UNION {n.chunks[i] : i \in DOMAIN n.chunks}
          OBVIOUS
      <4>4. {words[row[1]].key : row \in n.rows} = K \cup F
        <5>1. {words[row[1]].key : row \in Updates(req[r])} = F
            BY <2>4, <2>5, <3>3, <4>2
        <5>2. QED
            BY <2>1, <4>1, <5>1
      <4>5. n.inserts = req[r].inserts \cup (H \ F)
          BY <2>1, <4>2, <4>3 DEF NewKeys
      <4>6. UNION {req[r].chunks[i] : i \in DOMAIN req[r].chunks} = H \cup T
        <5>1. req[r].chunks \in Seq(SUBSET Key) /\ req[r].chunks # <<>>
            BY SlotIs DEF GInv, Flush, Sound, RequestState
        <5>2. QED
            BY <2>1, <4>3, <5>1, UnionOfTail
      <4>7. F \subseteq H
          BY <2>2, <4>2, <4>3
      <4>8. Covered(n) = (K \cup F) \cup (req[r].inserts \cup (H \ F)) \cup T
          BY <4>3, <4>4, <4>5 DEF Covered
      <4>9. Covered(req[r]) = K \cup req[r].inserts \cup (H \cup T)
          BY <4>1, <4>6 DEF Covered
      <4>10. QED
          BY <2>1, <3>3, <4>7, <4>8, <4>9
    <3>4. QED
        BY <2>2, <3>1, <3>2, <3>3
  <2>7. Given(n)'
    <3>1. Covered(n)' = Covered(n)
        BY <1>1 DEF Covered
    <3>2. \A row \in n.rows : Lang(n) \in row[2]
        BY <2>1, <2>2, <2>3, <2>4
    <3>3. QED
        BY <2>1, <2>6, <3>1, <3>2 DEF Given, Lang
  <2>8. QED
      BY <1>1, <2>1, <2>7, GivenNext
<1>4. QED
    BY <1>2, <1>3, FlushIs DEF GInv

LEMMA GivenOfNext ==
    ASSUME GInv, [Next]_vars
    PROVE  GInv'
<1>1. TInv'
    BY TypeNext DEF GInv
<1>2. \A s \in Request : Given(req[s])'
  <2>1. CASE UNCHANGED vars
    <3>1. words' = words /\ raced' = raced /\ req' = req
        BY <2>1 DEF vars
    <3>2. QED
        BY <3>1, GivenStays
  <2>2. CASE Step
      BY <2>2, GivenOfBegins, GivenOfReads, GivenOfWords, GivenOfOthers, GivenOfRows, GivenOfFlush DEF Step
  <2>3. QED
      BY <2>1, <2>2, StepIs DEF GInv
<1>3. QED
    BY <1>1, <1>2 DEF GInv

\* Only its commit shows something of an import.
LEMMA ShownByCommit ==
    ASSUME TInv, [Next]_vars, NEW r \in Request, req[r].op = "import", req'[r] # req[r], words' # words
    PROVE  Commit(r)
<1>1. ~UNCHANGED vars
    BY DEF vars
<1>2. Step
    BY <1>1, StepIs
<1>3. PICK q \in Request : NewWord(q) \/ Rewrite(q) \/ Commit(q)
  <2>1. ASSUME NEW q \in Request PROVE Begins(q) => words' = words
      BY DEF Begins, Start
  <2>2. ASSUME NEW q \in Request PROVE Reads(q) => words' = words
      BY ReadsHold
  <2>3. ASSUME NEW q \in Request
        PROVE  NewContext(q) \/ NewEntry(q) \/ RemoveSentences(q) \/ RemoveEntry(q) \/ Flush(q) => words' = words
      BY DEF NewContext, NewEntry, RemoveSentences, RemoveEntry, Flush
  <2>4. (\A e \in Entry : ~RemoveVocabulary(e)) /\ (\A w \in Word : ~DeleteWord(w))
      BY DEF RemoveVocabulary, DeleteWord
  <2>5. QED
      BY <1>2, <2>1, <2>2, <2>3, <2>4 DEF Step
<1>4. \E n : req' = [req EXCEPT ![q] = n]
    BY <1>3, NewWordPasses, FinishPasses DEF Rewrite, Commit, Passes
<1>5. q = r
    BY <1>4 DEF TInv
<1>6. ~NewWord(q) /\ ~Rewrite(q)
    BY <1>5, SlotIs DEF NewWord, Rewrite, Sound
<1>7. QED
    BY <1>3, <1>5, <1>6

LEMMA CommitShowsAll ==
    ASSUME GInv, NEW r \in Request, Commit(r)
    PROVE  LET imported == {words'[row[1]].key : row \in req[r].rows} \cup req[r].inserts
           IN  /\ imported = req[r].entries \/ \E row \in req[r].rows : row[1] \in raced
               /\ \A k \in imported : \E w \in Word :
                     words'[w] # None /\ words'[w].key = k /\ Lang(req[r]) \in words'[w].definitions
<1>1. PICK id : Commits(r, id)
    BY CommitIs DEF GInv
<1>2. /\ \A row \in req[r].rows : Lang(req[r]) \in row[2]
      /\ Covered(req[r]) = req[r].entries \/ \E row \in req[r].rows : row[1] \in raced
    BY DEF GInv, Commit, Given, Importing
<1>3. UNION {req[r].chunks[i] : i \in DOMAIN req[r].chunks} = {}
  <2>1. req[r].chunks = <<>>
      BY SlotIs DEF GInv, Commit, Sound
  <2>2. DOMAIN <<>> = {}
      BY EmptySeq, LenProperties
  <2>3. QED
      BY <2>1, <2>2
<1>4. \A k \in req[r].inserts : id[k] \in Word /\ ~Stored(id[k])
    BY <1>1 DEF Commits, FreshWord
<1>5. \A row \in req[r].rows : row[1] \in Word /\ Stored(row[1])
    BY DEF GInv, TInv, LocksSound, RequestState
<1>6. ASSUME NEW row \in req[r].rows
      PROVE  /\ words'[row[1]] # None /\ words'[row[1]].key = words[row[1]].key
             /\ Lang(req[r]) \in words'[row[1]].definitions
  <2>1. \A k \in req[r].inserts : id[k] # row[1]
      BY <1>4, <1>5
  <2>2. PICK p \in req[r].rows :
            /\ p[1] = row[1] /\ words'[row[1]] \in WordRow
            /\ words'[row[1]].key = words[row[1]].key /\ words'[row[1]].definitions = p[2]
      BY <1>1, <1>5, <2>1 DEF Commits
  <2>3. QED
      BY <1>2, <2>2, RowAssumption
<1>7. ASSUME NEW k \in req[r].inserts
      PROVE  /\ words'[id[k]] # None /\ words'[id[k]].key = k
             /\ Lang(req[r]) \in words'[id[k]].definitions
  <2>1. \A row \in req[r].rows : row[1] # id[k]
      BY <1>4, <1>5
  <2>2. PICK j \in req[r].inserts :
            /\ id[j] = id[k] /\ words'[id[k]] \in WordRow
            /\ words'[id[k]].key = j /\ words'[id[k]].definitions = {Lang(req[r])}
      BY <1>1, <1>4, <2>1 DEF Commits
  <2>3. j = k
      BY <1>1, <2>2 DEF Commits
  <2>4. QED
      BY <2>2, <2>3, RowAssumption
<1>8. {words'[row[1]].key : row \in req[r].rows} = {words[row[1]].key : row \in req[r].rows}
    BY <1>6
<1>9. PICK imported : imported = {words'[row[1]].key : row \in req[r].rows} \cup req[r].inserts
    OBVIOUS
<1>10. imported = req[r].entries \/ \E row \in req[r].rows : row[1] \in raced
    BY <1>2, <1>3, <1>8, <1>9 DEF Covered
<1>11. \A k \in imported : \E w \in Word :
          words'[w] # None /\ words'[w].key = k /\ Lang(req[r]) \in words'[w].definitions
    BY <1>4, <1>5, <1>6, <1>7, <1>9
<1>12. QED
    BY <1>9, <1>10, <1>11

\* Whatever runs beside it and whenever it dies, the dictionary shows nothing of an import before
\* its one commit, and then all of its entries.
THEOREM ImportsAreAtomic == Spec => ImportAtomic
<1>1. Init => GInv
  <2>1. Init => \A r \in Request : Given(req[r])
      BY IdleSound DEF Init, Given, Importing
  <2>2. QED
      BY <2>1, TypeInit DEF GInv
<1>2. GInv /\ [Next]_vars => GInv'
    BY GivenOfNext
<1>3. ASSUME GInv, [Next]_vars
      PROVE  \A r \in Request :
                (req[r].op = "import" /\ req'[r] # req[r] /\ words' # words) =>
                    LET imported == {words'[row[1]].key : row \in req[r].rows} \cup req[r].inserts
                        lang == CHOOSE l \in Language : l \notin req[r].keeps
                    IN
                    /\ \/ Cardinality(imported) = Cardinality(req[r].entries)
                       \/ \E row \in req[r].rows : row[1] \in raced
                    /\ \A k \in imported : \E w \in Word :
                          words'[w] # None /\ words'[w].key = k /\ lang \in words'[w].definitions
  <2> SUFFICES ASSUME NEW r \in Request, req[r].op = "import", req'[r] # req[r], words' # words
               PROVE  LET imported == {words'[row[1]].key : row \in req[r].rows} \cup req[r].inserts
                          lang == CHOOSE l \in Language : l \notin req[r].keeps
                      IN
                      /\ \/ Cardinality(imported) = Cardinality(req[r].entries)
                         \/ \E row \in req[r].rows : row[1] \in raced
                      /\ \A k \in imported : \E w \in Word :
                            words'[w] # None /\ words'[w].key = k /\ lang \in words'[w].definitions
      OBVIOUS
  <2>1. Commit(r)
      BY <1>3, ShownByCommit DEF GInv
  <2>2. PICK imported : imported = {words'[row[1]].key : row \in req[r].rows} \cup req[r].inserts
      OBVIOUS
  <2>3. /\ imported = req[r].entries \/ \E row \in req[r].rows : row[1] \in raced
        /\ \A k \in imported : \E w \in Word :
              words'[w] # None /\ words'[w].key = k /\ Lang(req[r]) \in words'[w].definitions
      BY <1>3, <2>1, <2>2, CommitShowsAll
  <2>4. QED
      BY <2>2, <2>3 DEF Lang
<1>4. QED
    BY <1>1, <1>2, <1>3, PTL DEF Spec, ImportAtomic
=============================================================================
