------------------------------ MODULE Context ------------------------------
(***************************************************************************)
(* The repository context engine: an index of the files of the checkout,   *)
(* with the symbols they declare, kept in a manifest from one operation to *)
(* the next, and what a mission or a search is told from it.  Every        *)
(* operation has an engine of its own, several may work at once, and the   *)
(* people and tools that own the checkout go on changing it meanwhile:     *)
(* every look at the file system is a step.                                *)
(*                                                                         *)
(* A path is a sequence of names.  The words of a path, of a content, and  *)
(* the symbols of a content are sets of words; a content has a fixed size. *)
(* A file is an inode, so that one that was replaced differs from one that *)
(* was written to.  A write is one step.  What is ignored by its name      *)
(* alone, whatever the rules, is left out of the paths.                    *)
(***************************************************************************)
EXTENDS Integers, FiniteSets, Sequences, SequencesExt, FiniteSetsExt, TLC

CONSTANTS Engines,
          PathOrder,    \* the paths of files there may be, ascending
          CodePaths, TestPaths,  \* in a known language; of tests
          WordsOf,      \* [path -> words]
          PairsWith,    \* <<test, subject>>, by their names
          TextOf,       \* [content -> [size, words, symbols]]
          NameRest,     \* [<<name, longer name>> -> what follows]
          FirstContent, \* [path -> content] of the files there are at first
          Beginnings,   \* [ignores, disk, asks, changes]; a question is
                        \* [kind, terms, testing, changed]
          MaxFiles, MaxCandidates, MaxTests, MaxLinked, MaxPairs, MaxMatched, ReadLimit, MaxIndexEntries,
          ScanBudget    \* bounds of the code

VARIABLES inode,    \* [number -> [content, stamp]]
          tree,     \* [files: path -> number, linked: directories that are links]
          ignores,  \* [source -> rules]
          disk,     \* the manifest
          engine,   \* [engine -> what it does]
          tmp,      \* [name of a temporary file -> manifest]
          coming    \* the questions, and the changes of the checkout, still to come
ContextVars == <<inode, tree, ignores, disk, engine, tmp, coming>>

FilePaths == ToSet(PathOrder)
Root == <<>>
Dirs == {Front(p) : p \in FilePaths} \ {Root}
AbsentFile == -1
NoContent == "nothing"
ALink == -2
Outside == 0              \* what a link leads to
NoManifest == [files |-> <<>>, state |-> "none"]
TornManifest == [files |-> <<>>, state |-> "torn"]
Place(p) == CHOOSE i \in DOMAIN PathOrder : PathOrder[i] = p
Before(p, q) == Place(p) < Place(q)
Stat(i) == [size |-> TextOf[inode[i].content].size, stamp |-> inode[i].stamp]

-----------------------------------------------------------------------------
(* Ignore rules: [negate, dirs, prefix, anchored, path], in the order of   *)
(* their precedence.  The last one that matches decides, and one that      *)
(* excludes a directory excludes all that is in it.                        *)
Sources == <<"exclude", "root", "nested">>
SourceDir == "d"
Candidate(prefix, p) ==
  LET n == Len(prefix) IN
  IF IsPrefix(prefix, p) THEN SubSeq(p, n + 1, Len(p))
  ELSE IF Len(p) >= n /\ IsPrefix(Front(prefix), p) /\ <<Last(prefix), p[n]>> \in DOMAIN NameRest
       THEN <<NameRest[<<Last(prefix), p[n]>>]>> \o SubSeq(p, n + 1, Len(p))
       ELSE <<>>
RuleMatches(r, p, directory) ==
  LET c == Candidate(r.prefix, p) IN
  /\ r.dirs => directory
  /\ c # <<>>
  /\ IF r.anchored THEN c = r.path ELSE Last(c) = Last(r.path)
MatchWithRules(rules, p, directory) ==
  LET matching == {i \in DOMAIN rules : RuleMatches(rules[i], p, directory)} IN
  matching # {} /\ ~rules[Max(matching)].negate
IsIgnored(rules, p, directory) ==
  \/ \E n \in 1 .. Len(p) - 1 : MatchWithRules(rules, SubSeq(p, 1, n), TRUE)
  \/ MatchWithRules(rules, p, directory)

(* What a path without links leads to, and what opening it does.           *)
RepositoryDirectory(rules, d) == d = Root \/ (~IsIgnored(rules, d, TRUE) /\ d \notin tree.linked)
RepositoryMetadata(rules, p) ==
  IF IsIgnored(rules, p, FALSE) \/ Front(p) \in tree.linked \/ tree.files[p] < 0
  THEN AbsentFile ELSE tree.files[p]
OpenNoFollow(p) ==
  IF Front(p) \in tree.linked THEN Outside
  ELSE IF tree.files[p] < 0 THEN AbsentFile ELSE tree.files[p]

-----------------------------------------------------------------------------
(* An engine: [at, ask, rules, index, stack, todo, seen, changed, oversize,*)
(* cur, reader, pool, kept, texts, found, cut, answer]; "since" is what an       *)
(* observer of the checkout knows since the question: the contents each    *)
(* file has had, the paths that have been hidden all the time, and whether *)
(* anything has changed.                                                   *)
NoReader == [step |-> "none"]
AtRest == [at |-> "idle"]
NoAnswer == [kind |-> "none"]
Hidden(p) ==
  LET rules == ignores["exclude"] \o ignores["root"] \o ignores["nested"] IN
  IsIgnored(rules, p, FALSE) \/ Front(p) \in tree.linked \/ tree.files[p] < 0
Visible == {p \in FilePaths : ~Hidden(p)}
Holds ==
  {<<p, inode[tree.files[p]].content>> :
     p \in {q \in FilePaths : Front(q) \notin tree.linked /\ tree.files[q] >= 0}}

Busy(e) == engine[e].at # "idle"
Set(e, rec) == engine' = [engine EXCEPT ![e] = rec]
Still == UNCHANGED <<inode, tree, ignores, coming>>
StillAll == Still /\ UNCHANGED <<disk, tmp>>

(* ContextEngine::new and ensure_index.                                    *)
Ask(e) ==
  /\ ~Busy(e) /\ coming.asks # <<>> /\ coming' = [coming EXCEPT !.asks = Tail(@)]
  /\ Set(e, [at |-> "load", ask |-> Head(coming.asks), rules |-> <<>>, from |-> 1, index |-> <<>>,
             stack |-> <<Root>>, todo |-> <<>>, seen |-> {}, changed |-> FALSE, oversize |-> FALSE,
             cur |-> <<>>, reader |-> NoReader, pool |-> <<>>, kept |-> <<>>, texts |-> <<>>,
             found |-> {}, budget |-> ScanBudget, cut |-> FALSE, answer |-> NoAnswer,
             since |-> [held |-> Holds, hidden |-> FilePaths \ Visible, quiet |-> TRUE]])
  /\ UNCHANGED <<inode, tree, ignores, disk, tmp>>

LoadManifest(e) ==
  /\ engine[e].at = "load"
  /\ Set(e, IF disk.state = "torn"
            THEN [at |-> "done", since |-> engine[e].since, answer |-> [kind |-> "error"]]
            ELSE [engine[e] EXCEPT !.at = "collect",
                    !.index = IF disk.state = "here" THEN disk.files ELSE <<>>])
  /\ StillAll

(* IgnoreRules::collect, a file after the other.                           *)
Collect(e) ==
  /\ engine[e].at = "collect"
  /\ LET source == Sources[engine[e].from]
         reached == source = "nested" => RepositoryDirectory(engine[e].rules, <<SourceDir>>)
         found == IF reached THEN ignores[source] ELSE <<>> IN
     Set(e, [engine[e] EXCEPT !.rules = @ \o found, !.from = @ + 1,
               !.at = IF engine[e].from = Len(Sources) THEN "walk" ELSE "collect"])
  /\ StillAll

-----------------------------------------------------------------------------
(* Reading a file: look, open, look again; what was opened must be what    *)
(* was seen both times.  A stable read looks at the file once more after   *)
(* its bytes, and is tried twice.                                          *)
StartRead(p, stable) == [path |-> p, step |-> "before", stable |-> stable, tries |-> 1,
                         before |-> AbsentFile, handle |-> AbsentFile, stat |-> <<>>, content |-> NoContent]
Failed(r) == [r EXCEPT !.step = "over", !.content = NoContent]
TooLarge(i) == Stat(i).size > ReadLimit

OpenBefore(r, rules) ==
  LET i == RepositoryMetadata(rules, r.path) IN
  IF i = AbsentFile THEN Failed(r)
  ELSE IF TooLarge(i) THEN Failed(r) ELSE [r EXCEPT !.before = i, !.step = "open"]
OpenHandle(r) ==
  LET i == OpenNoFollow(r.path) IN
  IF i = AbsentFile THEN Failed(r)
  ELSE IF TooLarge(i) THEN Failed(r) ELSE [r EXCEPT !.handle = i, !.step = "after"]
\* Mutant: the path is looked at twice, the open file never.
SamePath(r, after) == after = r.before
SameFile(r, after) == r.before = r.handle /\ after = r.handle
OpenAfter(r, rules) ==
  IF SameFile(r, RepositoryMetadata(rules, r.path))
  THEN [r EXCEPT !.stat = Stat(r.handle), !.step = "bytes"] ELSE Failed(r)
ReadBounded(r) ==
  IF TooLarge(r.handle) THEN Failed(r)
  ELSE [r EXCEPT !.content = inode[r.handle].content,
                 !.step = IF r.stable THEN "settle" ELSE "over"]
SettleRead(r) ==
  IF Stat(r.handle) = r.stat /\ TextOf[r.content].size = r.stat.size THEN [r EXCEPT !.step = "over"]
  ELSE IF r.tries = 2 THEN Failed(r) ELSE [StartRead(r.path, TRUE) EXCEPT !.tries = 2]

ReadStep(e) ==
  LET r == engine[e].reader
      rules == engine[e].rules IN
  /\ engine[e].at \notin {"idle", "done"} /\ r.step \notin {"none", "over"}
  /\ Set(e, [engine[e] EXCEPT !.reader =
               CASE r.step = "before" -> OpenBefore(r, rules)
                 [] r.step = "open" -> OpenHandle(r)
                 [] r.step = "after" -> OpenAfter(r, rules)
                 [] r.step = "bytes" -> ReadBounded(r)
                 [] r.step = "settle" -> SettleRead(r)])
  /\ StillAll

-----------------------------------------------------------------------------
(* Refreshing the index: a walk over the files that are there.             *)
Walks(e) == engine[e].at = "walk" /\ engine[e].reader = NoReader
Children(d) ==
  {p \in FilePaths : Front(p) = d /\ tree.files[p] # AbsentFile} \cup {c \in Dirs : Front(c) = d}
PopDirectory(e) ==
  /\ Walks(e) /\ engine[e].todo = <<>> /\ engine[e].stack # <<>>
  /\ LET en == engine[e]
         d == Last(en.stack)
         rest == [en EXCEPT !.stack = Front(@)] IN
     Set(e, IF ~RepositoryDirectory(en.rules, d) THEN rest
            ELSE IF Cardinality(en.seen) >= MaxIndexEntries
                 THEN [en EXCEPT !.oversize = TRUE, !.stack = <<>>]
                 ELSE [rest EXCEPT !.todo = IF Children(d) = {} THEN <<>> ELSE <<Children(d)>>])
  /\ StillAll

Eligible(p, size) == p \in CodePaths /\ size =< ReadLimit
Entry(p, stat, content) ==
  [size |-> stat.size, stamp |-> stat.stamp, hash |-> content,
   symbols |-> IF content = NoContent THEN {} ELSE TextOf[content].symbols]
See(en, p) == [en EXCEPT !.seen = @ \cup {p}, !.cur = <<>>, !.reader = NoReader]
Insert(en, p, entry) == [See(en, p) EXCEPT !.index = (p :> entry) @@ @, !.changed = TRUE]
MetadataMatch(cached, stat) == cached.size = stat.size /\ cached.stamp = stat.stamp
\* Mutant: what the metadata say is believed.
StampHolds(cached, content) == TRUE
CachedHolds(cached, content) == cached.hash = content

VisitFile(en, p) ==
  LET i == RepositoryMetadata(en.rules, p) IN
  IF i = AbsentFile THEN en
  ELSE LET stat == Stat(i)
           same == p \in DOMAIN en.index /\ MetadataMatch(en.index[p], stat) IN
       IF ~Eligible(p, stat.size)
       THEN IF same THEN See(en, p) ELSE Insert(en, p, Entry(p, stat, NoContent))
       ELSE [en EXCEPT !.cur = [path |-> p, stat |-> stat, verify |-> same],
                       !.reader = StartRead(p, TRUE)]
VisitEntry(e) ==
  /\ Walks(e) /\ engine[e].todo # <<>>
  /\ LET en == engine[e]
         x == CHOOSE c \in en.todo[1] : TRUE
         rest == [en EXCEPT !.todo = IF en.todo[1] = {x} THEN <<>> ELSE <<@[1] \ {x}>>] IN
     Set(e, IF Cardinality(en.seen) >= MaxIndexEntries
            THEN [en EXCEPT !.oversize = TRUE, !.todo = <<>>]
            ELSE IF x \in Dirs
                 THEN IF x \in tree.linked \/ IsIgnored(en.rules, x, TRUE) THEN rest
                      ELSE [rest EXCEPT !.stack = Append(@, x)]
                 ELSE VisitFile(rest, x))
  /\ StillAll
FileRead(e) ==
  /\ engine[e].at = "walk" /\ engine[e].reader.step = "over"
  /\ LET en == engine[e]
         p == en.cur.path
         r == en.reader IN
     Set(e, IF en.cur.verify
            THEN IF r.content # NoContent /\ CachedHolds(en.index[p], r.content) THEN See(en, p)
                 ELSE [en EXCEPT !.cur.verify = FALSE, !.reader = StartRead(p, TRUE)]
            ELSE LET stat == IF r.content = NoContent THEN en.cur.stat ELSE r.stat IN
                 Insert(en, p, Entry(p, stat, r.content)))
  /\ StillAll
PruneUnseen(e) ==
  /\ Walks(e) /\ engine[e].todo = <<>> /\ engine[e].stack = <<>>
  /\ LET en == engine[e]
         kept == [p \in DOMAIN en.index \cap en.seen |-> en.index[p]]
         changed == en.changed \/ kept # en.index IN
     Set(e, [en EXCEPT !.index = kept, !.at = IF changed THEN "save" ELSE "rank"])
  /\ StillAll

(* The manifest is written beside its place, then renamed; when that fails *)
(* it is written in its place.                                             *)
\* Mutant: every engine writes the same temporary file.
OneTmp(e) == CHOOSE x \in Engines : TRUE
TmpName(e) == e
Manifest(e) == [files |-> engine[e].index, state |-> "here"]
SaveNext == [save |-> "tmp", tmp |-> "rename", overwrite |-> "rank"]
SaveManifest(e) ==
  /\ engine[e].at \in DOMAIN SaveNext
  /\ Set(e, [engine[e] EXCEPT !.at = SaveNext[@]])
  /\ tmp' = [tmp EXCEPT ![TmpName(e)] =
               CASE engine[e].at = "save" -> TornManifest
                 [] engine[e].at = "tmp" -> Manifest(e)
                 [] engine[e].at = "overwrite" -> NoManifest]
  /\ disk' = IF engine[e].at = "overwrite" THEN Manifest(e) ELSE disk
  /\ Still
Rename(e) ==
  /\ engine[e].at = "rename"
  /\ \/ disk' = tmp[TmpName(e)] /\ tmp' = [tmp EXCEPT ![TmpName(e)] = NoManifest]
        /\ Set(e, [engine[e] EXCEPT !.at = "rank"])
     \/ disk' = TornManifest /\ UNCHANGED tmp
        /\ Set(e, [engine[e] EXCEPT !.at = "overwrite"])
  /\ Still

-----------------------------------------------------------------------------
(* Ranking.  A member of the pool: [path, symbols, score].                 *)
PathTermBonus == 60
SymbolTermBonus == 40
ChangedBonus == 500
TestRelevantBonus == 25
TestIrrelevantPenalty == 15
CodeBonus == 5
LinkBonus == 15
Better(a, b) == a.score > b.score \/ (a.score = b.score /\ Before(a.path, b.path))
Ranked(members) == SetToSortSeq(members, Better)
UpTo(s, n) == SubSeq(s, 1, Min({n, Len(s)}))
Score(p, entry, q) ==
  LET symbols == Cardinality(entry.symbols \cap q.terms)
      test == IF q.testing THEN TestRelevantBonus ELSE -TestIrrelevantPenalty IN
  PathTermBonus * Cardinality(WordsOf[p] \cap q.terms)
    + (IF symbols > 0 THEN SymbolTermBonus + symbols ELSE 0)
    + (IF p \in q.changed THEN ChangedBonus ELSE 0)
    + (IF p \in TestPaths THEN test ELSE 0)
    + (IF p \in CodePaths THEN CodeBonus ELSE 0)
Candidates(index, q) ==
  {[path |-> p, symbols |-> index[p].symbols, score |-> Score(p, index[p], q)] : p \in DOMAIN index}
RankCandidates(index, q) == UpTo(Ranked(Candidates(index, q)), MaxCandidates)

(* expand_links: files that mention each other are pushed, as many pairs   *)
(* as the limit allows; "texts" are what was read of the files.            *)
LinkTokens(x) == WordsOf[x.path] \cup x.symbols
Mentions(x, y, text) ==
  \/ LinkTokens(x) \cap WordsOf[y.path] # {}
  \/ text # NoContent /\ LinkTokens(x) \cap TextOf[text].words # {}
PairsOf(n) ==
  UpTo(SetToSortSeq({<<i, j>> \in (1 .. n) \X (1 .. n) : i < j},
                    LAMBDA a, b : a[1] < b[1] \/ (a[1] = b[1] /\ a[2] < b[2])), MaxPairs)
ExpandLinks(pool, texts) ==
  LET pairs == ToSet(PairsOf(Min({Len(pool), MaxLinked})))
      linked(k) == {pr \in pairs : \/ k = pr[1] /\ Mentions(pool[k], pool[pr[2]], texts[pr[2]])
                                   \/ k = pr[2] /\ Mentions(pool[k], pool[pr[1]], texts[pr[1]])} IN
  IF pairs = {} THEN pool
  ELSE Ranked({[pool[k] EXCEPT !.score = @ + LinkBonus * Cardinality(linked(k))] :
                 k \in DOMAIN pool})

SelectFiles(pool) ==
  UpTo(SelectSeq(pool, LAMBDA x : x.path \notin TestPaths), Min({MaxFiles, Len(pool)}))
RelatedTests(pool, selected) ==
  LET chosen == {x.path : x \in ToSet(selected)}
      tests == UpTo(SelectSeq(pool, LAMBDA x : x.score > 0 /\ x.path \in TestPaths), MaxTests)
      subjects(t) == SelectSeq(pool, LAMBDA x : x.path \in chosen /\ <<t, x.path>> \in PairsWith)
      target(t) == IF subjects(t) = <<>> THEN <<>> ELSE subjects(t)[1].path IN
  [i \in DOMAIN tests |-> [path |-> tests[i].path, target |-> target(tests[i].path)]]

(* search_index: paths that match, then files whose symbols do.            *)
Ascending(paths) == SetToSortSeq(paths, Before)
SearchIndex(index, q) ==
  LET paths == Ascending({p \in DOMAIN index : WordsOf[p] \cap q.terms # {}})
      symbols == Ascending({p \in DOMAIN index : index[p].symbols \cap q.terms # {}})
      hit(p, k) == [path |-> p, kind |-> k, content |-> NoContent, symbols |-> index[p].symbols] IN
  UpTo([i \in DOMAIN paths |-> hit(paths[i], "path")]
         \o [i \in DOMAIN symbols |-> hit(symbols[i], "symbol")], MaxFiles)

Rank(e) ==
  /\ engine[e].at = "rank"
  /\ LET en == engine[e] IN
     Set(e, [en EXCEPT !.at = "check",
               !.pool = IF en.ask.kind = "search" THEN SearchIndex(en.index, en.ask)
                        ELSE SelectSeq(RankCandidates(en.index, en.ask), LAMBDA x : x.score > 0)])
  /\ StillAll
Check(e) ==
  /\ engine[e].at = "check" /\ engine[e].pool # <<>>
  /\ LET en == engine[e]
         there == RepositoryMetadata(en.rules, Head(en.pool).path) # AbsentFile IN
     Set(e, [en EXCEPT !.pool = Tail(@), !.kept = IF there THEN Append(@, Head(en.pool)) ELSE @])
  /\ StillAll
Checked(e) ==
  /\ engine[e].at = "check" /\ engine[e].pool = <<>>
  /\ LET en == engine[e] IN
     Set(e, [en EXCEPT !.at = IF en.ask.kind = "resolve" THEN "link"
                              ELSE IF Len(en.kept) < MaxFiles THEN "tool" ELSE "tell"])
  /\ StillAll

-----------------------------------------------------------------------------
(* Content search: by the tool, whose paths are looked at again, or when   *)
(* it is not there, fails or is cut off, by a scan.                        *)
ContentMatches(content, q) == content # NoContent /\ TextOf[content].words \cap q.terms # {}
RetainSmallest(paths) == UpTo(Ascending(paths), MaxMatched)
RipgrepPaths(e) ==
  /\ engine[e].at = "tool"
  /\ LET en == engine[e]
         found == {p \in FilePaths : /\ tree.files[p] >= 0 /\ Front(p) \notin tree.linked
                                     /\ ContentMatches(inode[tree.files[p]].content, en.ask)} IN
     \/ found = {} /\ Set(e, [en EXCEPT !.at = "content"])
     \/ found # {} /\ Set(e, [en EXCEPT !.at = "accept", !.found = found])
     \/ Set(e, [en EXCEPT !.at = "scan", !.stack = <<Root>>])
  /\ StillAll
Accept(e) ==
  /\ engine[e].at = "accept"
  /\ LET en == engine[e]
         acceptable(p) == LET i == RepositoryMetadata(en.rules, p) IN i # AbsentFile /\ ~TooLarge(i) IN
     Set(e, [en EXCEPT !.at = "content", !.found = {p \in @ : acceptable(p)}])
  /\ StillAll

Scans(e) == engine[e].at = "scan" /\ engine[e].reader = NoReader
ScanDirectory(e) ==
  /\ Scans(e) /\ engine[e].todo = <<>> /\ engine[e].stack # <<>>
  /\ LET en == engine[e]
         d == Last(en.stack)
         children == Children(d)
         rest == [en EXCEPT !.stack = Front(@)] IN
     Set(e, IF ~RepositoryDirectory(en.rules, d) THEN rest
            ELSE IF Cardinality(children) >= en.budget
                 THEN [en EXCEPT !.at = "content", !.cut = TRUE]
                 ELSE [rest EXCEPT !.budget = @ - Cardinality(children),
                                   !.todo = IF children = {} THEN <<>> ELSE <<children>>])
  /\ StillAll
ScanEntry(e) ==
  /\ Scans(e) /\ engine[e].todo # <<>>
  /\ LET en == engine[e]
         x == CHOOSE c \in en.todo[1] : TRUE
         rest == [en EXCEPT !.todo = IF en.todo[1] = {x} THEN <<>> ELSE <<@[1] \ {x}>>] IN
     Set(e, IF x \in Dirs
            THEN IF x \in tree.linked \/ IsIgnored(en.rules, x, TRUE) THEN rest
                 ELSE [rest EXCEPT !.stack = Append(@, x)]
            ELSE IF tree.files[x] < 0 \/ IsIgnored(en.rules, x, FALSE) THEN rest
                 ELSE [rest EXCEPT !.reader = StartRead(x, FALSE)])
  /\ StillAll
ScanRead(e) ==
  /\ engine[e].at = "scan" /\ engine[e].reader.step = "over"
  /\ LET en == engine[e] IN
     Set(e, [en EXCEPT !.reader = NoReader,
               !.found = IF ContentMatches(en.reader.content, en.ask)
                         THEN @ \cup {en.reader.path} ELSE @])
  /\ StillAll
ScanDone(e) ==
  /\ Scans(e) /\ engine[e].todo = <<>> /\ engine[e].stack = <<>>
  /\ Set(e, [engine[e] EXCEPT !.at = "content"])
  /\ StillAll

-----------------------------------------------------------------------------
(* The files that are read for an answer, one after the other: the pool    *)
(* for its links, the selected ones for their excerpts, the ones that were *)
(* found for the line that matches.                                        *)
ToRead(en) ==
  CASE en.at = "link" ->
         IF Len(en.kept) < 2 THEN <<>>
         ELSE [i \in 1 .. Min({Len(en.kept), MaxLinked}) |-> en.kept[i].path]
    [] en.at = "excerpt" -> [i \in DOMAIN SelectFiles(en.kept) |-> SelectFiles(en.kept)[i].path]
    [] en.at = "content" -> RetainSmallest(en.found)
Enough(en) ==
  \/ Len(en.texts) = Len(ToRead(en))
  \/ en.at = "content" /\ Len(SelectSeq(en.texts, LAMBDA c : c # NoContent)) = MaxFiles
Gathers(e) == engine[e].at \in {"link", "excerpt", "content"}
ReadNext(e) ==
  /\ Gathers(e) /\ engine[e].reader = NoReader /\ ~Enough(engine[e])
  /\ LET en == engine[e] IN
     Set(e, [en EXCEPT !.reader = StartRead(ToRead(en)[Len(en.texts) + 1], FALSE)])
  /\ StillAll
TextRead(e) ==
  /\ Gathers(e) /\ engine[e].reader.step = "over"
  /\ Set(e, [engine[e] EXCEPT !.texts = Append(@, engine[e].reader.content), !.reader = NoReader])
  /\ StillAll

ContentHits(en) ==
  LET all == [i \in DOMAIN en.texts |-> [path |-> ToRead(en)[i], kind |-> "content",
                                         content |-> en.texts[i], symbols |-> {}]] IN
  SelectSeq(all, LAMBDA h : h.content # NoContent)
NewHits(en) ==
  SelectSeq(ContentHits(en), LAMBDA h : \A k \in ToSet(en.kept) : k.path # h.path)
Gathered(e) ==
  /\ Gathers(e) /\ engine[e].reader = NoReader /\ Enough(engine[e])
  /\ LET en == engine[e] IN
     Set(e, CASE en.at = "link" -> [en EXCEPT !.at = "excerpt", !.texts = <<>>,
                                              !.kept = ExpandLinks(en.kept, en.texts)]
              [] en.at = "content" -> [en EXCEPT !.at = "tell",
                                                 !.kept = UpTo(@ \o NewHits(en), MaxFiles)]
              [] en.at = "excerpt" -> [en EXCEPT !.at = "tell"])
  /\ StillAll

(* The answer; what has the engine done with is forgotten.                 *)
SelectedFile(x, text) ==
  [path |-> x.path, symbols |-> x.symbols, excerpt |-> text, score |-> x.score]
Tell(e) ==
  /\ engine[e].at = "tell"
  /\ LET en == engine[e]
         chosen == SelectFiles(en.kept) IN
     Set(e, [at |-> "done", ask |-> en.ask, since |-> en.since, partial |-> en.oversize \/ en.cut,
             answer |-> IF en.ask.kind = "search" THEN [kind |-> "search", hits |-> en.kept]
                        ELSE [kind |-> "resolve", oversize |-> en.oversize,
                              selected |-> [i \in DOMAIN chosen |->
                                              SelectedFile(chosen[i], en.texts[i])],
                              tests |-> RelatedTests(en.kept, chosen)]])
  /\ StillAll
Forget(e) == engine[e].at = "done" /\ Set(e, AtRest) /\ StillAll

-----------------------------------------------------------------------------
(* What the owners of the checkout do to it, while at most one engine is   *)
(* at work; an observer of every engine sees it.                           *)
Observe ==
  engine' = [e \in Engines |->
    IF ~Busy(e) THEN engine[e]
    ELSE [engine[e] EXCEPT !.since = [held |-> @.held \cup Holds', hidden |-> @.hidden \ Visible',
                                      quiet |-> FALSE]]]
Changing(kind) ==
  /\ coming.changes # <<>> /\ Head(coming.changes).kind = kind
  /\ coming' = [coming EXCEPT !.changes = Tail(@)]
  /\ Cardinality({e \in Engines : Busy(e)}) = 1
  /\ UNCHANGED <<disk, tmp>>
Reached(p) == Front(p) \notin tree.linked /\ tree.files[p] >= 0
NewInode == Cardinality(DOMAIN inode)

WriteInPlace ==
  /\ Changing("write")
  /\ LET c == Head(coming.changes) IN
     /\ Reached(c.path)
     /\ inode' = [inode EXCEPT ![tree.files[c.path]] =
                    [content |-> c.content, stamp |-> @.stamp + c.touched]]
  /\ UNCHANGED <<tree, ignores>> /\ Observe
PutFile ==
  /\ Changing("put")
  /\ LET c == Head(coming.changes) IN
     /\ Front(c.path) \notin tree.linked
     /\ inode' = inode @@ (NewInode :> [content |-> c.content, stamp |-> 0])
     /\ tree' = [tree EXCEPT !.files[c.path] = NewInode]
  /\ UNCHANGED ignores /\ Observe
RemoveFile ==
  /\ Changing("remove")
  /\ LET c == Head(coming.changes) IN
     /\ Reached(c.path)
     /\ tree' = [tree EXCEPT !.files[c.path] = IF c.link THEN ALink ELSE AbsentFile]
  /\ UNCHANGED <<inode, ignores>> /\ Observe
SwitchDirectory ==
  /\ Changing("switch")
  /\ LET d == Head(coming.changes).dir IN
     tree' = [tree EXCEPT !.linked = IF d \in @ THEN @ \ {d} ELSE @ \cup {d}]
  /\ UNCHANGED <<inode, ignores>> /\ Observe
EditIgnore ==
  /\ Changing("ignore")
  /\ LET c == Head(coming.changes) IN ignores' = [ignores EXCEPT ![c.source] = c.text]
  /\ UNCHANGED <<inode, tree>> /\ Observe

-----------------------------------------------------------------------------
ContextInit ==
  /\ tree = [files |-> [p \in FilePaths |-> IF p \in DOMAIN FirstContent
                                        THEN Place(p) ELSE AbsentFile],
             linked |-> {}]
  /\ inode = [i \in 0 .. Len(PathOrder) |->
                [content |-> IF i > 0 /\ PathOrder[i] \in DOMAIN FirstContent
                             THEN FirstContent[PathOrder[i]] ELSE "elsewhere", stamp |-> 0]]
  /\ engine = [e \in Engines |-> AtRest]
  /\ tmp = [e \in Engines |-> NoManifest]
  /\ \E b \in Beginnings :
       /\ ignores = b.ignores /\ disk = b.disk
       /\ coming = [asks |-> b.asks, changes |-> b.changes]

ContextNext ==
  \/ \E e \in Engines :
       \/ Ask(e) \/ LoadManifest(e) \/ Collect(e) \/ ReadStep(e)
       \/ PopDirectory(e) \/ VisitEntry(e) \/ FileRead(e) \/ PruneUnseen(e)
       \/ SaveManifest(e) \/ Rename(e)
       \/ Rank(e) \/ Check(e) \/ Checked(e)
       \/ RipgrepPaths(e) \/ Accept(e)
       \/ ScanDirectory(e) \/ ScanEntry(e) \/ ScanRead(e) \/ ScanDone(e)
       \/ ReadNext(e) \/ TextRead(e) \/ Gathered(e) \/ Tell(e) \/ Forget(e)
  \/ WriteInPlace \/ PutFile \/ RemoveFile \/ SwitchDirectory \/ EditIgnore
ContextSpec == ContextInit /\ [][ContextNext]_ContextVars

-----------------------------------------------------------------------------
(* What the answer should be of a checkout that stands still: what is best *)
(* of all there is to see.                                                 *)
TrueIndex ==
  [p \in Visible |-> LET i == tree.files[p] IN
     Entry(p, Stat(i), IF Eligible(p, Stat(i).size) THEN inode[i].content ELSE NoContent)]
TrueText(p) == IF TooLarge(tree.files[p]) THEN NoContent ELSE inode[tree.files[p]].content
TruePool(q) ==
  LET pool == SelectSeq(Ranked(Candidates(TrueIndex, q)), LAMBDA x : x.score > 0) IN
  ToSet(ExpandLinks(pool, [i \in DOMAIN pool |-> TrueText(pool[i].path)]))
TrueSelection(q) ==
  LET code == {x \in TruePool(q) : x.path \notin TestPaths}
      best == {x \in code : Cardinality({y \in code : Better(y, x)}) < MaxFiles} IN
  {SelectedFile(x, TrueText(x.path)) : x \in best}
TrueHits(q) ==
  {p \in Visible : \/ WordsOf[p] \cap q.terms # {}
                   \/ TrueIndex[p].symbols \cap q.terms # {}
                   \/ ContentMatches(TrueText(p), q)}

(* Nothing is told that has been hidden ever since the question, nor any   *)
(* text or symbols but of a content that the file has had since: not the   *)
(* manifest's, if it is older, and not of what a link leads to.  Of a      *)
(* checkout that stood still the answer is the one it should be, whatever  *)
(* the manifest was, if nothing was cut off.  And engines that save at     *)
(* once leave a manifest that is whole.                                    *)
Members(answer) == ToSet(IF answer.kind = "search" THEN answer.hits ELSE answer.selected)
Tests(answer) == IF answer.kind = "search" THEN {} ELSE {t.path : t \in ToSet(answer.tests)}
Texted(x) == IF "excerpt" \in DOMAIN x THEN x.excerpt ELSE x.content
AnswerSound(en) ==
  LET members == Members(en.answer)
      told == {x.path : x \in members}
      had(p) == {h[2] : h \in {y \in en.since.held : y[1] = p}} IN
  /\ (told \cup Tests(en.answer)) \cap en.since.hidden = {}
  /\ told \cap Tests(en.answer) = {}
  /\ \A x \in members :
       /\ Texted(x) \in had(x.path) \cup {NoContent}
       /\ x.symbols = {} \/ \E c \in had(x.path) : x.symbols = TextOf[c].symbols
  /\ en.since.quiet /\ ~en.partial =>
       IF en.answer.kind = "resolve" THEN members = TrueSelection(en.ask)
       ELSE /\ told \subseteq TrueHits(en.ask)
            /\ Len(en.answer.hits) < MaxFiles => told = TrueHits(en.ask)

ContextSound ==
  /\ \A e \in Engines :
       engine[e].at = "done" /\ engine[e].answer.kind # "error" => AnswerSound(engine[e])
  /\ disk.state = "torn" => \E e \in Engines : engine[e].at = "overwrite"
=============================================================================
