----------------------------- MODULE CitedPaper -----------------------------
(***************************************************************************)
(* skills/academic-writing: the tools an agent writes a paper with, behind *)
(* call_tool of server.py.  Every answer of a language model and of the    *)
(* indexes of publications is a choice; a tool that raises answers with an *)
(* error and leaves nothing, so that only what it accepts is a step here.  *)
(*                                                                         *)
(* A citation key is a sequence of letters, a letter its place in the      *)
(* alphabet; a section's text is the set of keys it cites, and the text of *)
(* the paper counts the sections that cite each key.                       *)
(***************************************************************************)
EXTENDS Naturals, Sequences, FiniteSets

CONSTANTS Bibliographies, \* lists of references a caller may come with
          InventedKeys,   \* keys a model cites that no reference has
          PaperSections,  \* IMRAD_ORDER without the abstract and the references
          TargetWords     \* target_words of the abstract

ASSUME PaperAssumption ==
    /\ \A b \in Bibliographies :
           b \in Seq([key : Seq(Nat), by : {"doi", "arxiv", "title", "unreadable"},
                      real : BOOLEAN])
    /\ TargetWords \in Nat

VARIABLES
    supplied,     \* the caller's references: key, what identifies each, whether it exists
    researched,   \* the references an interview was given, and those its notes cite
    outlined,     \* the outline's sections
    drafts,       \* the sections drafted, with the keys each cites
    verdicts,     \* what validate_citations said of each reference
    abstractWords,\* words of the abstract
    finished      \* the restyled paper: how often each key is cited

paperVars == <<supplied, researched, outlined, drafts, verdicts, abstractWords, finished>>

References == DOMAIN supplied
IdentifiedBy(i) == supplied[i].by
KeyOf(i) == supplied[i].key
KeysOf(given) == {KeyOf(i) : i \in given}
Citable == KeysOf(References) \union InventedKeys
Unwritten == [done |-> FALSE, cites |-> [k \in Citable |-> 0]]

PaperTypeOK ==
    /\ supplied \in Bibliographies
    /\ researched \in [given : SUBSET References, cited : SUBSET References]
    /\ outlined \in {{}, PaperSections}
    /\ DOMAIN drafts \subseteq PaperSections
    /\ \A s \in DOMAIN drafts : drafts[s] \subseteq Citable
    /\ verdicts = <<>> \/ /\ DOMAIN verdicts = References
                          /\ \A i \in References :
                                 /\ verdicts[i].entry \in Seq(Nat)
                                 /\ verdicts[i].source \in {"crossref", "arxiv",
                                                            "semantic_scholar", "none"}
    /\ abstractWords \in Nat
    /\ finished \in [done : BOOLEAN, cites : [Citable -> 0..(Cardinality(PaperSections) + 1)]]

PaperInit ==
    /\ supplied \in Bibliographies
    /\ researched = [given |-> {}, cited |-> {}] /\ outlined = {} /\ drafts = <<>>
    /\ verdicts = <<>> /\ abstractWords = 0 /\ finished = Unwritten

-----------------------------------------------------------------------------
\* Mutant: every marker of an answer is taken for a reference.
CitedIn(marks, given) == marks

\* _extract_cited_refs: the markers of an answer that name a reference it was given.
CitedRefs(marks, given) == marks \intersect given

\* research_topic: interviews of the perspectives the model thought of, over some references.
ResearchTopic ==
    /\ ~finished.done /\ researched.given = {}
    /\ \E given, marks \in SUBSET References :
           researched' = [given |-> given, cited |-> CitedRefs(marks, given)]
    /\ UNCHANGED <<supplied, outlined, drafts, verdicts, abstractWords, finished>>

\* outline_skill: an outline without a mandatory section is refused.
MakeOutline ==
    /\ ~finished.done /\ outlined = {}
    /\ \E named \in SUBSET PaperSections :
           PaperSections \subseteq named /\ outlined' = named
    /\ UNCHANGED <<supplied, researched, drafts, verdicts, abstractWords, finished>>

\* Mutant: a section may cite what it likes.
AllowAnyKey(cites, given) == \A i \in given : IdentifiedBy(i) # "unreadable"

\* draft_section needs the key of every reference it is given, and a section that cites any
\* other key is refused.  The keys are those of the caller's entries, not those that
\* deduplicate_keys made of them.
KeysAllowed(cites, given) ==
    /\ \A i \in given : IdentifiedBy(i) # "unreadable"
    /\ cites \subseteq KeysOf(given)

DraftSection ==
    /\ ~finished.done
    /\ \E s \in PaperSections \ DOMAIN drafts, given \in SUBSET References,
          cites \in SUBSET Citable :
           /\ KeysAllowed(cites, given)
           /\ drafts' = [t \in DOMAIN drafts \union {s} |-> IF t = s THEN cites ELSE drafts[t]]
    /\ UNCHANGED <<supplied, researched, outlined, verdicts, abstractWords, finished>>

-----------------------------------------------------------------------------
\* What an index may say of a reference: whether it answers at all, and whether the title and
\* the authors are those of the reference.  They are not both for one that does not exist.
Lookups(i) ==
    {l \in [answers : BOOLEAN, title : BOOLEAN, authors : BOOLEAN] :
         l.title /\ l.authors => supplied[i].real}

\* Mutant: the title or the authors are enough.
EitherMatches(l) == l.title \/ l.authors

Matches(l) == l.title /\ l.authors

\* _check_semantic_scholar compares the authors alone, and those of any paper found by title.
CheckSemanticScholar(i) == {"semantic_scholar", "none"}

\* _check_doi: an index that raises is passed over for a search by title.
CheckDoi(i) ==
    UNION {IF l.answers THEN {IF Matches(l) THEN "crossref" ELSE "none"}
           ELSE CheckSemanticScholar(i) : l \in Lookups(i)}

\* _check_arxiv: no answer is a mismatch.
CheckArxiv(i) == {IF l.answers /\ Matches(l) THEN "arxiv" ELSE "none" : l \in Lookups(i)}

\* _validate_one: the sources that may confirm a reference.
ValidateOne(i) ==
    CASE IdentifiedBy(i) = "doi" -> CheckDoi(i)
      [] IdentifiedBy(i) = "arxiv" -> CheckArxiv(i)
      [] IdentifiedBy(i) = "title" -> CheckSemanticScholar(i)
      [] IdentifiedBy(i) = "unreadable" -> {"none"}

\* Mutant: colliding keys stay as they are.
KeepKey(source, i) == KeyOf(i)

\* deduplicate_keys: the second reference with a key that is confirmed has an a added, the
\* third a b.
DeduplicatedKey(source, i) ==
    LET earlier == {j \in 1..(i - 1) : source[j] # "none" /\ KeyOf(j) = KeyOf(i)}
    IN IF source[i] = "none" \/ earlier = {} THEN KeyOf(i)
       ELSE Append(KeyOf(i), Cardinality(earlier))

ValidateCitations ==
    /\ ~finished.done /\ verdicts = <<>>
    /\ \E source \in [References -> {"crossref", "arxiv", "semantic_scholar", "none"}] :
           /\ \A i \in References : source[i] \in ValidateOne(i)
           /\ verdicts' = [i \in References |-> [entry |-> DeduplicatedKey(source, i),
                                                 source |-> source[i]]]
    /\ UNCHANGED <<supplied, researched, outlined, drafts, abstractWords, finished>>

-----------------------------------------------------------------------------
\* _enforce_word_count cuts what is too long, and leaves what is too short.
EnforceWordCount(words) == IF words > TargetWords THEN TargetWords ELSE words

\* chain_of_density: whatever its rounds do, the last summary is cut to its length.
ChainOfDensity ==
    /\ ~finished.done /\ abstractWords = 0
    /\ \E words \in 1..(TargetWords + 1) : abstractWords' = EnforceWordCount(words)
    /\ UNCHANGED <<supplied, researched, outlined, drafts, verdicts, finished>>

\* The caller's assembly of the drafts.
Assembled == [k \in Citable |-> Cardinality({s \in DOMAIN drafts : k \in drafts[s]})]

\* What a model makes of a text: the same citations, or one more or one less of a key.
Rewritings(text) ==
    {text} \union
    UNION {{[text EXCEPT ![k] = @ + 1], [text EXCEPT ![k] = IF @ = 0 THEN 0 ELSE @ - 1]} :
               k \in Citable}

\* Mutant: what the second attempt makes is taken as it is.
LastTaken(text, first, second) == IF first = text THEN {first} ELSE {second}

\* style_transfer: the first of two attempts with the protected tokens of the text, if any.
Transferred(text, first, second) ==
    IF first = text THEN {first} ELSE IF second = text THEN {second} ELSE {}

\* The paper is put together once each section of its outline is drafted.
StyleTransfer ==
    /\ ~finished.done /\ outlined # {} /\ outlined \subseteq DOMAIN drafts
    /\ \E first, second \in Rewritings(Assembled) :
           \E out \in Transferred(Assembled, first, second) :
               finished' = [done |-> TRUE, cites |-> out]
    /\ UNCHANGED <<supplied, researched, outlined, drafts, verdicts, abstractWords>>

PaperNext ==
    \/ ResearchTopic \/ MakeOutline \/ DraftSection \/ ValidateCitations
    \/ ChainOfDensity \/ StyleTransfer

PaperSpec == PaperInit /\ [][PaperNext]_paperVars

-----------------------------------------------------------------------------
\* The key of a reference is another's with a letter added, as the ones that are made are.
KeysCollide ==
    \E i, j \in References : \E n \in 1..Len(supplied) : KeyOf(j) = Append(KeyOf(i), n)

Confirmed == {i \in DOMAIN verdicts : verdicts[i].source # "none"}

\* A paper that comes out of the tools can be given its bibliography: all sections its outline
\* has to have are there, it cites the keys its drafts did, as often, and each is the key of a
\* reference of the caller; no two confirmed references have the same key, whatever keys they
\* came with (unless one came with a key that is made of another's); and one that does not exist
\* is never confirmed by its identifier, only by a search for its title.
CitesResolve ==
    /\ finished.done =>
           /\ PaperSections \subseteq DOMAIN drafts
           /\ finished.cites = Assembled
           /\ \A k \in Citable : finished.cites[k] > 0 => k \in KeysOf(References)
    /\ ~KeysCollide =>
           \A i, j \in Confirmed : verdicts[i].entry = verdicts[j].entry => i = j
    /\ \A i \in Confirmed : supplied[i].real \/ verdicts[i].source = "semantic_scholar"
    /\ researched.cited \subseteq researched.given /\ abstractWords <= TargetWords
=============================================================================
