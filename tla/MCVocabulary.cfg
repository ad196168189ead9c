CONSTANTS
    None = None
    cat = cat
    dog = dog
    en = en
    uk = uk
    User = {ann}
    Key <- MCKey
    Language = {en, uk}
    LanguageOf <- MCLanguageOf
    Url = {page}
    Imports <- MCImports
    Chunk = 1
    LLMChunk = 2
    Word = {1, 2, 3, 4}
    Entry = {1, 2, 3}
    Request = {r1, r2}
    MaxSentences = 2
    MaxStarted = 3
SPECIFICATION Spec
SYMMETRY Symmetry
INVARIANTS TypeOK SentencesBelong TranslationsKept
PROPERTIES ImportAtomic
CHECK_DEADLOCK FALSE
