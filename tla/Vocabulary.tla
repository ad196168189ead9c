------------------------------ MODULE Vocabulary ------------------------------
(***************************************************************************)
(* The shared dictionary and the learners' vocabularies                    *)
(* (app/services/capture_service.py, vocabulary/*.py, the vocabulary and   *)
(* dictionary half of admin_service.py).                                   *)
(*                                                                         *)
(* A request is a chain of statements that commit one by one; a bulk       *)
(* import is the one long transaction, and what it has flushed blocks      *)
(* whoever writes the same row or inserts the same lemma.  A key stands    *)
(* for a lemma with its language; of a word's definitions only the         *)
(* languages they translate into are kept.                                 *)
(***************************************************************************)
EXTENDS Integers, Sequences, FiniteSets, Functions

CONSTANTS
    User,         \* learners with a native language and a verified email
    Key,          \* (lemma, language) pairs
    Language,     \* languages
    LanguageOf,   \* the language of each key
    Url,          \* pages words are captured from
    Imports,      \* texts the admin imports: the key on each line, None on a line without a pair
    Chunk,        \* _CHUNK: entries per flush
    LLMChunk,     \* _LLM_CHUNK: lines per call of the model
    Word,         \* ids of dictionary rows
    Entry,        \* ids of vocabulary rows
    Request,      \* slots for concurrently running requests and jobs
    None,         \* SQL NULL and "no such row"
    MaxSentences, \* bound: sentences stored at a time
    MaxStarted    \* bound: requests ever started

ASSUME VocabularyAssumption ==
    /\ LanguageOf \in [Key -> Language]
    /\ Imports \subseteq Seq(Key \cup {None})
    /\ Chunk \in Nat \ {0}
    /\ LLMChunk \in Nat \ {0}
    /\ IsFiniteSet(Word)
    /\ IsFiniteSet(Entry)
    /\ MaxSentences \in Nat
    /\ MaxStarted \in Nat
    /\ \A S \in {User, Key, Language, Url, Word, Entry, Request} : None \notin S

VARIABLES
    words,       \* the shared dictionary: the row of each id
    user_words,  \* the vocabularies: the row of each id
    contexts,    \* the rows of word_contexts, oldest first
    sources,     \* the rows of sources
    target,      \* users.target_language
    started,     \* requests started so far
    torn,        \* history: <<user, word>> whose sentences an incident separated from their entry
    known,       \* history: the languages each word would have, were no write computed from a stale row
    raced,       \* history: words written to from a row that had changed since it was read
    req          \* the request running in each slot

vars == <<words, user_words, contexts, sources, target, started, torn, known, raced, req>>

history == <<torn, known, raced>>

-----------------------------------------------------------------------------
(* Rows and requests *)

WordRow == [key : Key, definitions : SUBSET Language]
UserWord == [user : User, word : Word]
Context == [user : User, word : Word]

ASSUME RowAssumption == None \notin WordRow \cup UserWord

Stored(w) == words[w] # None

\* get_by_lemma_language and get_by_lemmas
RowsOf(keys) == {w \in Word : Stored(w) /\ words[w].key \in keys}

\* get_by_user_word
EntriesOf(u, w) == {e \in Entry : user_words[e] = [user |-> u, word |-> w]}

\* `rows` and `inserts` are what an import has flushed: the definitions it gives
\* to existing words, and the keys of its new ones.
RequestState ==
    [at : {"idle", "target", "word", "new_word", "source", "new_source", "context",
           "entry", "new_entry", "reload", "remove_sentences", "remove_entry",
           "rewrite", "chunk", "flush", "commit"},
     op : {"capture", "add", "create", "remove", "rewrite", "import", None},
     user : User \cup {None}, key : Key \cup {None}, word : Word \cup {None},
     entry : Entry \cup {None}, url : Url \cup {None}, sentence : BOOLEAN,
     read : WordRow \cup {None}, new : WordRow \cup {None}, keeps : SUBSET Language,
     chunks : Seq(SUBSET Key), found : SUBSET (Word \X WordRow),
     rows : SUBSET (Word \X SUBSET Language), inserts : SUBSET Key,
     entries : SUBSET Key]

Idle ==
    [at |-> "idle", op |-> None, user |-> None, key |-> None, word |-> None,
     entry |-> None, url |-> None, sentence |-> FALSE, read |-> None, new |-> None,
     keeps |-> {}, chunks |-> <<>>, found |-> {}, rows |-> {}, inserts |-> {}, entries |-> {}]

\* The members of a sequence that are not in `gone`.
Without(s, gone) ==
    LET kept[i \in 0..Len(s)] ==
            IF i = 0 THEN <<>>
            ELSE IF s[i] \in gone THEN kept[i - 1] ELSE Append(kept[i - 1], s[i])
    IN  kept[Len(s)]

Goto(r, state) == req' = [req EXCEPT ![r] = state]
Finish(r) == Goto(r, Idle)

Start(r, state) ==
    /\ req[r].at = "idle"
    /\ started < MaxStarted
    /\ started' = started + 1
    /\ Goto(r, state)
    /\ UNCHANGED <<words, user_words, contexts, sources, target, history>>

\* Locks held by the uncommitted part of an import.
LockedWord(r, w) == \E s \in Request \ {r} : \E row \in req[s].rows : row[1] = w
LockedKey(r, k) == \E s \in Request \ {r} : k \in req[s].inserts

\* uuid4: ids nothing refers to any more stand for new ones.  Word and Entry are
\* bounds: who inserts a row waits for an id.
FreshWord(w) == ~Stored(w) /\ \A r \in Request : req[r].word # w /\ \A row \in req[r].found : row[1] # w
FreshEntry(e) == user_words[e] = None /\ \A r \in Request : req[r].entry # e

\* The columns the dictionary's uniqueness and foreign keys constrain are typed with them.
TypeOK ==
    /\ words \in [Word -> WordRow \cup {None}]
    /\ user_words \in [Entry -> UserWord \cup {None}]
    /\ contexts \in Seq(Context)
    /\ sources \in SUBSET (User \X Url)
    /\ target \in [User -> Language \cup {None}]
    /\ started \in 0..MaxStarted
    /\ torn \in SUBSET (User \X Word)
    /\ known \in [Word -> SUBSET Language]
    /\ raced \in SUBSET Word
    /\ req \in [Request -> RequestState]
    /\ \A v, w \in Word : (Stored(v) /\ Stored(w) /\ words[v].key = words[w].key) => v = w
    /\ \A d, e \in Entry : (user_words[d] # None /\ user_words[d] = user_words[e]) => d = e
    /\ \A e \in Entry : user_words[e] # None => Stored(user_words[e].word)
    /\ \A i \in DOMAIN contexts : Stored(contexts[i].word)

Init ==
    /\ words = [w \in Word |-> None]
    /\ user_words = [e \in Entry |-> None]
    /\ contexts = <<>>
    /\ sources = {}
    /\ target = [u \in User |-> None]
    /\ started = 0
    /\ torn = {}
    /\ known = [w \in Word |-> {}]
    /\ raced = {}
    /\ req = [r \in Request |-> Idle]

-----------------------------------------------------------------------------
(* capture, add_vocabulary, create_word *)

\* The statement that comes after the word is known.
AfterWord(state) ==
    IF state.op = "add" THEN "entry"
    ELSE IF state.url # None THEN "source"
    ELSE IF state.sentence THEN "context"
    ELSE "entry"

AfterSource(state) == IF state.sentence THEN "context" ELSE "entry"

\* The checks on the user, the AI's word for key and language (or the hint and to_lemma).
Capture(r, u, k, url, sentence) ==
    Start(r, [Idle EXCEPT !.at = IF target[u] = None THEN "target" ELSE "word",
                          !.op = "capture", !.user = u, !.key = k,
                          !.url = url, !.sentence = sentence])

AddVocabulary(r, u, k) ==
    Start(r, [Idle EXCEPT !.at = "word", !.op = "add", !.user = u, !.key = k])

\* WordService.create_word takes any definitions, AdminService's at most one translation.
CreateWord(r, k, definitions) ==
    Start(r, [Idle EXCEPT !.at = "word", !.op = "create", !.key = k,
                          !.new = [key |-> k, definitions |-> definitions]])

AdminCreateWord(r, k, lang) == CreateWord(r, k, {lang} \ {None})

SetTarget(r) ==
    /\ req[r].at = "target"
    /\ target' = [target EXCEPT ![req[r].user] = LanguageOf[req[r].key]]
    /\ Goto(r, [req[r] EXCEPT !.at = "word"])
    /\ UNCHANGED <<words, user_words, contexts, sources, started, history>>

\* A create finding its word answers 409.
GetWord(r) ==
    /\ req[r].at = "word"
    /\ \/ /\ RowsOf({req[r].key}) = {}
          /\ Goto(r, [req[r] EXCEPT !.at = "new_word"])
       \/ \E w \in RowsOf({req[r].key}) :
             IF req[r].op = "create" THEN Finish(r)
             ELSE Goto(r, [req[r] EXCEPT !.at = AfterWord(req[r]), !.word = w])
    /\ UNCHANGED <<words, user_words, contexts, sources, target, started, history>>

\* uq_word_lemma_language: waits for an import that holds the key, and fails on one taken.
NewWord(r) ==
    /\ req[r].at = "new_word"
    /\ ~LockedKey(r, req[r].key)
    /\ \/ /\ RowsOf({req[r].key}) # {}
          /\ Finish(r)
          /\ UNCHANGED <<words, history>>
       \/ /\ RowsOf({req[r].key}) = {}
          /\ \E w \in Word : FreshWord(w)
          /\ LET w == CHOOSE w \in Word : FreshWord(w)
                 row == IF req[r].op = "create" THEN req[r].new
                        ELSE [key |-> req[r].key, definitions |-> {}]
             IN
             /\ words' = [words EXCEPT ![w] = row]
             /\ known' = [known EXCEPT ![w] = row.definitions]
             /\ raced' = raced \ {w}
             /\ torn' = {t \in torn : t[2] # w}
             /\ IF req[r].op = "create" THEN Finish(r)
                ELSE Goto(r, [req[r] EXCEPT !.at = AfterWord(req[r]), !.word = w])
    /\ UNCHANGED <<user_words, contexts, sources, target, started>>

GetSource(r) ==
    /\ req[r].at = "source"
    /\ Goto(r, [req[r] EXCEPT !.at = IF <<req[r].user, req[r].url>> \in sources
                                     THEN AfterSource(req[r]) ELSE "new_source"])
    /\ UNCHANGED <<words, user_words, contexts, sources, target, started, history>>

\* uq_source_user_url
NewSource(r) ==
    LET source == <<req[r].user, req[r].url>> IN
    /\ req[r].at = "new_source"
    /\ sources' = sources \cup {source}
    /\ IF source \in sources THEN Finish(r)
       ELSE Goto(r, [req[r] EXCEPT !.at = AfterSource(req[r])])
    /\ UNCHANGED <<words, user_words, contexts, target, started, history>>

\* A removal of the entry that has deleted its sentences already misses this one.
NewContext(r) ==
    LET u == req[r].user
        w == req[r].word
    IN
    /\ req[r].at = "context"
    /\ \/ /\ ~Stored(w)
          /\ Finish(r)
          /\ UNCHANGED <<contexts, torn>>
       \/ /\ Stored(w)
          /\ Len(contexts) < MaxSentences
          /\ contexts' = Append(contexts, [user |-> u, word |-> w])
          /\ torn' = IF \E s \in Request : req[s].at = "remove_entry" /\ req[s].user = u /\ req[s].word = w
                     THEN torn \cup {<<u, w>>} ELSE torn
          /\ Goto(r, [req[r] EXCEPT !.at = "entry"])
    /\ UNCHANGED <<words, user_words, sources, target, started, known, raced>>

\* An entry the admin adds twice answers 409.
GetEntry(r) ==
    /\ req[r].at = "entry"
    /\ \/ /\ EntriesOf(req[r].user, req[r].word) = {}
          /\ Goto(r, [req[r] EXCEPT !.at = "new_entry"])
       \/ \E e \in EntriesOf(req[r].user, req[r].word) :
             IF req[r].op = "add" THEN Finish(r)
             ELSE Goto(r, [req[r] EXCEPT !.at = "reload", !.entry = e])
    /\ UNCHANGED <<words, user_words, contexts, sources, target, started, history>>

NewEntry(r) ==
    LET u == req[r].user
        w == req[r].word
    IN
    /\ req[r].at = "new_entry"
    /\ \/ /\ EntriesOf(u, w) # {} \/ ~Stored(w)
          /\ Finish(r)
          /\ UNCHANGED <<user_words, torn>>
       \/ /\ EntriesOf(u, w) = {} /\ Stored(w)
          /\ \E e \in Entry : FreshEntry(e)
          /\ LET e == CHOOSE e \in Entry : FreshEntry(e) IN
             /\ user_words' = [user_words EXCEPT ![e] = [user |-> u, word |-> w]]
             /\ torn' = torn \ {<<u, w>>}
             /\ Goto(r, [req[r] EXCEPT !.at = "reload", !.entry = e])
    /\ UNCHANGED <<words, contexts, sources, target, started, known, raced>>

\* get_with_word; an entry gone in the meantime fails the request.
Reload(r) ==
    /\ req[r].at = "reload"
    /\ Finish(r)
    /\ UNCHANGED <<words, user_words, contexts, sources, target, started, history>>

-----------------------------------------------------------------------------
(* Removal *)

\* Mutant: the sentences stay.
RemoveEntryOnly(r, e) ==
    /\ user_words[e] # None
    /\ Start(r, [Idle EXCEPT !.at = "remove_entry", !.op = "remove", !.entry = e,
                             !.user = user_words[e].user, !.word = user_words[e].word])

Remove(r, e) ==
    /\ user_words[e] # None
    /\ Start(r, [Idle EXCEPT !.at = "remove_sentences", !.op = "remove", !.entry = e,
                             !.user = user_words[e].user, !.word = user_words[e].word])

RemoveSentences(r) ==
    /\ req[r].at = "remove_sentences"
    /\ contexts' = Without(contexts, {[user |-> req[r].user, word |-> req[r].word]})
    /\ torn' = torn \ {<<req[r].user, req[r].word>>}
    /\ Goto(r, [req[r] EXCEPT !.at = "remove_entry"])
    /\ UNCHANGED <<words, user_words, sources, target, started, known, raced>>

\* Deleting a row that is gone is no error.
RemoveEntry(r) ==
    /\ req[r].at = "remove_entry"
    /\ user_words' = [user_words EXCEPT ![req[r].entry] = None]
    /\ Finish(r)
    /\ UNCHANGED <<words, contexts, sources, target, started, history>>

\* The admin's removal leaves the sentences.
RemoveVocabulary(e) ==
    /\ user_words[e] # None
    /\ started < MaxStarted
    /\ started' = started + 1
    /\ user_words' = [user_words EXCEPT ![e] = None]
    /\ torn' = torn \cup {<<user_words[e].user, user_words[e].word>>}
    /\ UNCHANGED <<words, contexts, sources, target, known, raced, req>>

\* Mutant: entries and sentences outlive their word.
DeleteWordOnly(w) ==
    /\ Stored(w)
    /\ started < MaxStarted
    /\ started' = started + 1
    /\ words' = [words EXCEPT ![w] = None]
    /\ UNCHANGED <<user_words, contexts, sources, target, history, req>>

\* delete_word, of either service, and its ON DELETE CASCADE.
DeleteWord(w) ==
    /\ Stored(w)
    /\ ~LockedWord(None, w)
    /\ started < MaxStarted
    /\ started' = started + 1
    /\ words' = [words EXCEPT ![w] = None]
    /\ user_words' = [e \in Entry |->
                         IF user_words[e] # None /\ user_words[e].word = w THEN None ELSE user_words[e]]
    /\ contexts' = Without(contexts, {[user |-> u, word |-> w] : u \in User})
    /\ UNCHANGED <<sources, target, history, req>>

-----------------------------------------------------------------------------
(* Rewriting a word: update_word of either service, and the translation cache *)

\* Mutant: only the newest translation is kept.
MergedAlone(definitions, lang, blank) == IF blank THEN {} ELSE {lang}

\* _merge, _merge_translation, _cache; a blank translation counts as none (cached_translation).
Merged(definitions, lang, blank) == (definitions \ {lang}) \cup (IF blank THEN {} ELSE {lang})

\* WordService.update_word takes the definitions as a whole.
UpdateWord(r, w, definitions) ==
    /\ Stored(w)
    /\ Start(r, [Idle EXCEPT !.at = "rewrite", !.op = "rewrite", !.word = w, !.read = words[w],
                             !.new = [key |-> words[w].key, definitions |-> definitions]])

\* AdminService.update_word: a new lemma, unless it clashes, or one translation.
AdminUpdateWord(r, w, k, lang, blank) ==
    /\ Stored(w)
    /\ k # words[w].key => RowsOf({k}) = {}
    /\ Start(r, [Idle EXCEPT !.at = "rewrite", !.op = "rewrite", !.word = w, !.read = words[w],
                             !.new = [key |-> k, definitions |->
                                        IF lang = None THEN words[w].definitions
                                        ELSE Merged(words[w].definitions, lang, blank)],
                             !.keeps = Language \ {lang}])

\* translate_word of a word with no cached translation, up to the answer of the AI.
TranslateWord(r, w, lang) ==
    /\ Stored(w)
    /\ lang \notin words[w].definitions
    /\ Start(r, [Idle EXCEPT !.at = "rewrite", !.op = "rewrite", !.word = w, !.read = words[w],
                             !.new = [key |-> words[w].key,
                                      definitions |-> Merged(words[w].definitions, lang, FALSE)],
                             !.keeps = Language \ {lang}])

\* update_one: what the request did not change keeps its present value.
Rewrite(r) ==
    LET w == req[r].word
        new == req[r].new
        key == IF new.key # req[r].read.key THEN new.key ELSE words[w].key
        keeps == req[r].keeps
    IN
    /\ req[r].at = "rewrite"
    /\ ~LockedWord(r, w)
    /\ Finish(r)
    /\ \/ /\ ~Stored(w)
          /\ UNCHANGED <<words, history>>
       \/ /\ Stored(w)
          /\ ~LockedKey(r, key)
          /\ IF RowsOf({key}) \subseteq {w}
             THEN /\ words' = [words EXCEPT ![w] =
                         [key |-> key,
                          definitions |-> IF keeps = Language THEN words[w].definitions ELSE new.definitions]]
                  /\ known' = [known EXCEPT ![w] = (@ \cap keeps) \cup (new.definitions \ keeps)]
                  /\ raced' = IF words[w].definitions = req[r].read.definitions \/ keeps = Language
                              THEN raced ELSE raced \cup {w}
                  /\ UNCHANGED torn
             ELSE UNCHANGED <<words, history>>
    /\ UNCHANGED <<user_words, contexts, sources, target, started>>

-----------------------------------------------------------------------------
(* import_entries *)

Parsed(lines) == Without(lines, {None})

\* normalize_via_llm: a call that fails loses the pairs of its lines.
Normalized(lines, answered) ==
    Parsed([i \in DOMAIN lines |-> IF (i - 1) \div LLMChunk \in answered THEN lines[i] ELSE None])

\* The first line of each key gives its place, the last its translation.
Chunks(entries) ==
    LET firsts == {i \in DOMAIN entries : \A j \in 1..(i - 1) : entries[j] # entries[i]}
        place(i) == Cardinality({j \in firsts : j < i})
    IN  [n \in 1..((Cardinality(firsts) + Chunk - 1) \div Chunk) |->
            {entries[i] : i \in {i \in firsts : place(i) \div Chunk = n - 1}}]

ImportEntries(r, entries, lang) ==
    Start(r, [Idle EXCEPT !.at = "chunk", !.op = "import", !.chunks = Chunks(entries),
                          !.keeps = Language \ {lang},
                          !.entries = {entries[i] : i \in DOMAIN entries}])

ReadChunk(r) ==
    /\ req[r].at = "chunk"
    /\ IF req[r].chunks = <<>> THEN Goto(r, [req[r] EXCEPT !.at = "commit"])
       ELSE Goto(r, [req[r] EXCEPT !.at = "flush",
                                   !.found = {<<w, words[w]>> : w \in RowsOf(Head(req[r].chunks))}])
    /\ UNCHANGED <<words, user_words, contexts, sources, target, started, history>>

\* The keys of the chunk the SELECT found no row for.
NewKeys(state) == Head(state.chunks) \ {row[2].key : row \in state.found}

\* Mutant: each chunk is committed.
FlushCommits(r) ==
    LET state == req[r]
        lang == CHOOSE l \in Language : l \notin state.keeps
    IN
    /\ state.at = "flush"
    /\ IF \A row \in state.found : Stored(row[1])
       THEN /\ words' = [w \in Word |->
                IF \E row \in state.found : row[1] = w
                THEN [words[w] EXCEPT !.definitions = @ \cup {lang}] ELSE words[w]]
            /\ Goto(r, [state EXCEPT !.at = "chunk", !.chunks = Tail(@), !.found = {}])
       ELSE Finish(r) /\ UNCHANGED words
    /\ UNCHANGED <<user_words, contexts, sources, target, started, history>>

\* Waits for another import that holds a row or a key of the chunk; a row gone
\* or a key taken since the SELECT undoes the whole import.
Flush(r) ==
    LET state == req[r]
        lang == CHOOSE l \in Language : l \notin state.keeps
        updates == {<<row[1], Merged(row[2].definitions, lang, FALSE)>> : row \in state.found}
    IN
    /\ state.at = "flush"
    /\ \A row \in state.found : ~LockedWord(r, row[1])
    /\ \A k \in NewKeys(state) : ~LockedKey(r, k)
    /\ IF (\A row \in state.found : Stored(row[1])) /\ RowsOf(NewKeys(state)) = {}
       THEN /\ Goto(r, [state EXCEPT !.at = "chunk", !.chunks = Tail(@), !.found = {},
                                     !.rows = @ \cup updates, !.inserts = @ \cup NewKeys(state)])
            /\ raced' = raced \cup {row[1] : row \in
                             {row \in state.found : row[2] # words[row[1]]}}
       ELSE /\ Finish(r)
            /\ UNCHANGED raced
    /\ UNCHANGED <<words, user_words, contexts, sources, target, started, torn, known>>

NewIds(keys) == Injection(keys, {w \in Word : FreshWord(w)})

Commit(r) ==
    LET state == req[r]
        lang == CHOOSE l \in Language : l \notin state.keeps
        updated == {row[1] : row \in state.rows}
        id == CHOOSE id \in NewIds(state.inserts) : TRUE
        inserted == {id[k] : k \in state.inserts}
    IN
    /\ state.at = "commit"
    /\ NewIds(state.inserts) # {}
    /\ words' = [w \in Word |->
          IF w \in updated
          THEN [words[w] EXCEPT !.definitions = (CHOOSE row \in state.rows : row[1] = w)[2]]
          ELSE IF w \in inserted
          THEN [key |-> CHOOSE k \in state.inserts : id[k] = w, definitions |-> {lang}]
          ELSE words[w]]
    /\ known' = [w \in Word |-> IF w \in updated THEN known[w] \cup {lang}
                               ELSE IF w \in inserted THEN {lang} ELSE known[w]]
    /\ raced' = raced \ inserted
    /\ torn' = {t \in torn : t[2] \notin inserted}
    /\ Finish(r)
    /\ UNCHANGED <<user_words, contexts, sources, target, started>>

\* Two imports that wait for each other: the database fails one of them.
BreakDeadlock(r) ==
    LET Waits(p, q) ==
            /\ req[p].at = "flush" /\ req[q].at = "flush"
            /\ \/ \E row \in req[p].found, held \in req[q].rows : row[1] = held[1]
               \/ NewKeys(req[p]) \cap req[q].inserts # {}
    IN
    /\ \E s \in Request \ {r} : Waits(r, s) /\ Waits(s, r)
    /\ Finish(r)
    /\ UNCHANGED <<words, user_words, contexts, sources, target, started, history>>

-----------------------------------------------------------------------------

\* The server or the worker dies, an import is cancelled, the AI or a statement fails.
Abort(r) ==
    LET state == req[r] IN
    /\ state.at # "idle"
    /\ Finish(r)
    /\ torn' = IF state.op = "capture" /\ state.at \in {"entry", "new_entry"}
               THEN torn \cup {<<state.user, state.word>>} ELSE torn
    /\ UNCHANGED <<words, user_words, contexts, sources, target, started, known, raced>>

capture_word(r) ==
    \E u \in User, k \in Key, url \in Url \cup {None}, sentence \in BOOLEAN :
        Capture(r, u, k, url, sentence)

remove_word(r) == \E e \in Entry : Remove(r, e)

admin_vocabulary(r) ==
    \/ \E u \in User, k \in Key : AddVocabulary(r, u, k)
    \/ \E e \in Entry : RemoveVocabulary(e)

admin_words(r) ==
    \/ \E k \in Key, lang \in Language \cup {None} : AdminCreateWord(r, k, lang)
    \/ \E w \in Word : DeleteWord(w)
    \/ \E w \in Word, k \in Key, lang \in Language \cup {None}, blank \in BOOLEAN :
          AdminUpdateWord(r, w, k, lang, blank)

words_create(r) == \E k \in Key, definitions \in SUBSET Language : CreateWord(r, k, definitions)

words_update(r) == \E w \in Word, definitions \in SUBSET Language : UpdateWord(r, w, definitions)

\* A text without entries is not queued.
import_dictionary(r) ==
    \E lines \in Imports, lang \in Language :
        \/ /\ Parsed(lines) # <<>>
           /\ ImportEntries(r, Parsed(lines), lang)
        \/ \E answered \in SUBSET (0..((Len(lines) - 1) \div LLMChunk)) :
              /\ Normalized(lines, answered) # <<>>
              /\ ImportEntries(r, Normalized(lines, answered), lang)

\* Of the job a capture schedules, and of a refill that meets a word without translation.
translate(r) == \E w \in Word, lang \in Language : TranslateWord(r, w, lang)

Next ==
    \E r \in Request :
        \/ capture_word(r) \/ remove_word(r) \/ admin_vocabulary(r) \/ admin_words(r)
        \/ words_create(r) \/ words_update(r) \/ import_dictionary(r) \/ translate(r)
        \/ SetTarget(r) \/ GetWord(r) \/ NewWord(r) \/ GetSource(r) \/ NewSource(r)
        \/ NewContext(r) \/ GetEntry(r) \/ NewEntry(r) \/ Reload(r)
        \/ RemoveSentences(r) \/ RemoveEntry(r) \/ Rewrite(r)
        \/ ReadChunk(r) \/ Flush(r) \/ Commit(r) \/ BreakDeadlock(r) \/ Abort(r)

Spec == Init /\ [][Next]_vars

-----------------------------------------------------------------------------
(* What the vocabulary shows of the sentences *)

\* latest_sentence, latest_context: of whichever user.
latest_context(w) ==
    LET of == SelectSeq(contexts, LAMBDA c : c.word = w)
    IN  IF of = <<>> THEN None ELSE of[Len(of)]

-----------------------------------------------------------------------------
(* Properties *)

(***************************************************************************)
(* A stored sentence belongs to an entry of its learner, or a running      *)
(* capture is about to make one.  Only three incidents leave sentences     *)
(* without an entry: a capture that dies between the two, a sentence saved *)
(* between the two statements of a removal, and the admin's removal, which *)
(* leaves them; the next capture or removal of the word mends it.          *)
(***************************************************************************)
SentencesBelong ==
    \A i \in DOMAIN contexts :
        LET u == contexts[i].user
            w == contexts[i].word
        IN
        \/ EntriesOf(u, w) # {}
        \/ <<u, w>> \in torn
        \/ \E r \in Request : /\ req[r].op = "capture" /\ req[r].user = u /\ req[r].word = w
                              /\ req[r].at \in {"entry", "new_entry"}

(***************************************************************************)
(* Translations into different languages come from captures, exercises,    *)
(* the admin and imports, and each of them rewrites the whole list.  None  *)
(* loses another's unless it computed the list from a row that has changed *)
(* since it read it.                                                       *)
(***************************************************************************)
TranslationsKept ==
    \A w \in Word \ raced : Stored(w) => words[w].definitions = known[w]

(***************************************************************************)
(* dictionary_service.py:150: an import commits once.  Whatever runs       *)
(* beside it, the dictionary shows nothing of an import or all of it:      *)
(* every entry on the row it was found on or on a new one.  (A word renamed *)
(* between an import's SELECT and its UPDATE may take two of the entries.) *)
(***************************************************************************)
ImportAtomic ==
    [][\A r \in Request :
          (req[r].op = "import" /\ req'[r] # req[r] /\ words' # words) =>
              LET imported == {words'[row[1]].key : row \in req[r].rows} \cup req[r].inserts
                  lang == CHOOSE l \in Language : l \notin req[r].keeps
              IN
              /\ \/ Cardinality(imported) = Cardinality(req[r].entries)
                 \/ \E row \in req[r].rows : row[1] \in raced
              /\ \A k \in imported : \E w \in Word :
                    words'[w] # None /\ words'[w].key = k /\ lang \in words'[w].definitions]_vars

-----------------------------------------------------------------------------
(* What comments of the repository claim and the code does not do *)

\* exercise_service.py:382-383, of the sentence a card is built on: "the sentence
\* the learner met the word in"; :403 "The learner's own sentence".
OwnSentence ==
    \A e \in Entry :
        (user_words[e] # None /\ latest_context(user_words[e].word) # None) =>
            latest_context(user_words[e].word).user = user_words[e].user
=============================================================================
