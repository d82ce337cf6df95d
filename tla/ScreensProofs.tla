--------------------------- MODULE ScreensProofs ---------------------------
(***************************************************************************)
(* Proofs about what a tenant sees, for any names of tags and slugs of     *)
(* theirs, any texts, filters, files, buckets, keys and settings, and any  *)
(* number of requests.                                                     *)
(***************************************************************************)
EXTENDS MCScreens, FiniteSets, FiniteSetTheorems, SequenceTheorems, TLAPS

-----------------------------------------------------------------------------
(* Tags *)

TagId == Names \X Nat
TermsRecord == [tags : SUBSET Names, note : Notes \cup {None}]
TagCall ==
  [at : {"unused", "list", "create", "relist", "check", "clear", "insert", "note", "read", "write",
         "unlabel", "untag", "done", "failed"},
   kind : {None, "edit", "put", "assign", "note", "index", "untag"},
   names : SUBSET Names, missing : SUBSET Names, clash : BOOLEAN, ids : SUBSET TagId,
   read : {None} \cup Notes \cup TermsRecord]

\* What a request is at each of its statements, and carries to it.
Fits(c) ==
  /\ c.at \in {"list", "create", "relist"} => c.kind = "edit"
  /\ c.at = "create" => c.missing \subseteq c.names
  /\ c.at = "check" => c.kind \in {"edit", "put", "assign", "note"}
  /\ c.at \in {"clear", "insert"} => c.kind \in {"edit", "put", "assign"}
  /\ c.at = "note" => c.kind = "note"
  /\ c.at \in {"check", "note"} /\ c.kind = "note" => c.read \in Notes
  /\ c.at = "write" => c.read \in TermsRecord

TagTypes ==
  /\ tags \in SUBSET [id : TagId, name : Names] /\ born \in [Names -> Nat]
  /\ labels \in SUBSET TagId /\ note \in Notes \cup {None} /\ index \in TermsRecord
  /\ deleted \in BOOLEAN /\ owed \in BOOLEAN
  /\ unmet \in SUBSET Labelling!Calls /\ cut \in SUBSET Labelling!Calls
  /\ drawer = None \/ drawer \in SUBSET Names
  /\ calls \in [Labelling!Calls -> TagCall] /\ \A k \in Labelling!Calls : Fits(calls[k])

\* An id is a name and the number of the tag among those it has had; no two
\* tags there are share an id or a slug, and every label is of a tag.
IdsInv ==
  /\ \A t \in tags : t.id[1] = t.name /\ t.id[2] <= born[t.name]
  /\ \A t, u \in tags : t # u => t.id # u.id /\ SlugOf[t.name] # SlugOf[u.name]
  /\ \A i \in labels : \E t \in tags : t.id = i

\* A request nobody met is the only one there is; none is met before it starts.
MetInv ==
  /\ \A k \in unmet \cup cut : calls[k].at # "unused"
  /\ \A k \in unmet \cap Labelling!Running : Labelling!Running = {k} /\ k \notin cut

Found(k, n) == \E t \in tags : t.name = n /\ t.id \in calls[k].ids
Taken(n) == \E t \in tags : t.name # n /\ SlugOf[t.name] = SlugOf[n]

\* How far an edit has come with its names, unless a deletion met it.
Resolved(k) ==
  /\ calls[k].at = "create" =>
       \A n \in calls[k].names \ calls[k].missing :
         Found(k, n) \/ (calls[k].clash /\ Labelling!SlugTaken(n))
  /\ calls[k].at = "relist" => \A n \in calls[k].names : Found(k, n) \/ Labelling!SlugTaken(n)
  /\ calls[k].at = "check" /\ calls[k].kind = "edit" =>
       \A n \in calls[k].names : Found(k, n) \/ Taken(n)

\* How far an edit nobody met has come with the labels.
Stored(k) ==
  calls[k].kind = "edit" =>
    /\ calls[k].at \in {"create", "relist", "check", "clear", "insert", "read", "write"} =>
         \A i \in calls[k].ids : i \in Labelling!Live /\ i[1] \in calls[k].names
    /\ calls[k].at \in {"clear", "insert", "read", "write"} =>
         \A n \in calls[k].names : Found(k, n) \/ Taken(n)
    /\ calls[k].at = "insert" => labels = {}
    /\ calls[k].at \in {"read", "write"} => labels = calls[k].ids

ResolvedInv == \A k \in Labelling!Calls \ cut : Resolved(k)
StoredInv == \A k \in unmet : Stored(k)

Pending == \E k \in Labelling!Calls : calls[k].at \in {"insert", "read"}
Writing(k) == calls[k].at = "write"

\* Unless something is owed: one request writes the entry at a time, and what
\* it writes, or else the entry, is what there is, or somebody will read it.
EntryInv ==
  ~owed =>
    /\ \A k, l \in Labelling!Calls : Writing(k) /\ Writing(l) => k = l
    /\ Pending \/ (\A k \in Labelling!Calls : Writing(k) => calls[k].read = Labelling!Terms)
    /\ Pending \/ (\E k \in Labelling!Calls : Writing(k)) \/ index = Labelling!Terms

TaggingInv == TagTypes /\ IdsInv /\ MetInv /\ ResolvedInv /\ StoredInv /\ EntryInv

LEMMA TaggingIsSound ==
  TaggingInv =>
    /\ Labelling!TypeOK /\ Labelling!TaggersConverge /\ Labelling!DrawerIsStored
    /\ Labelling!IndexIsCurrent /\ Labelling!SearchesAgree
<1> SUFFICES ASSUME TaggingInv
             PROVE  /\ Labelling!TypeOK /\ Labelling!TaggersConverge /\ Labelling!DrawerIsStored
                    /\ Labelling!IndexIsCurrent /\ Labelling!SearchesAgree
  OBVIOUS
<1> USE DEF TaggingInv
<1>1. Labelling!TypeOK
  <2>1. index.tags \subseteq Names /\ index.note \in Notes \cup {None}
    BY DEF TagTypes, TermsRecord
  <2>2. labels \subseteq Labelling!Live
    BY DEF IdsInv, Labelling!Live
  <2> QED
    BY <2>1, <2>2 DEF TagTypes, IdsInv, Labelling!TypeOK
<1>2. Labelling!TaggersConverge
  BY DEF ResolvedInv, Resolved, Found, Taken, Labelling!TaggersConverge, Labelling!At
<1>3. Labelling!DrawerIsStored
  <2> SUFFICES ASSUME NEW k \in unmet, calls[k].kind = "edit", calls[k].at \in {"read", "write"}
               PROVE  Labelling!Terms.tags
                        = {n \in calls[k].names : ~\E t \in tags : t.name # n /\ SlugOf[t.name] = SlugOf[n]}
    BY DEF Labelling!DrawerIsStored
  <2>1. /\ labels = calls[k].ids /\ \A i \in labels : i[1] \in calls[k].names
        /\ \A n \in calls[k].names : Found(k, n) \/ Taken(n)
    BY DEF StoredInv, Stored
  <2>2. ASSUME NEW n \in {t.name : t \in {u \in tags : u.id \in labels}}
        PROVE  n \in calls[k].names /\ ~Taken(n)
    <3>1. PICK t \in tags : t.id \in labels /\ t.name = n
      BY <2>2
    <3> QED
      BY <3>1, <2>1 DEF IdsInv, Taken
  <2>3. ASSUME NEW n \in calls[k].names, ~Taken(n)
        PROVE  n \in {t.name : t \in {u \in tags : u.id \in labels}}
    BY <2>1, <2>3 DEF Found
  <2>4. Labelling!Terms.tags = {t.name : t \in {u \in tags : u.id \in labels}}
    BY DEF Labelling!Terms
  <2> QED
    BY <2>2, <2>3, <2>4 DEF Taken
<1>4. Labelling!IndexIsCurrent
  <2> SUFFICES ASSUME Labelling!Running = {}, ~owed PROVE index = Labelling!Terms
    BY DEF Labelling!IndexIsCurrent
  <2>1. \A k \in Labelling!Calls : calls[k].at \in {"unused", "done", "failed"}
    BY DEF Labelling!Running
  <2> QED
    BY <2>1 DEF EntryInv, Pending, Writing
<1>5. Labelling!SearchesAgree
  <2> SUFFICES ASSUME NEW words \in (SUBSET (Names \cup Notes)) \ {{}},
                      NEW filter \in SUBSET Labelling!OwnSlugs
               PROVE  /\ Labelling!McpFinds(words, filter) = Labelling!ApiFinds(words, filter)
                      /\ Labelling!LibraryFinds(words, filter) = Labelling!ApiFinds(words, filter)
    BY DEF Labelling!SearchesAgree
  <2>1. words # {} /\ \A t \in tags : t.name \in Names
    BY DEF TagTypes
  <2>2. \A n \in Names : SlugOf[n] \in filter <=> n \in filter
    BY DEF Labelling!OwnSlugs
  <2>3. (\E t \in tags : t.id \in labels /\ SlugOf[t.name] \in filter) <=> (\E t \in tags : t.id \in labels /\ t.name \in filter)
    BY <2>1, <2>2
  <2>4. Labelling!McpFinds(words, filter) <=>
          ~deleted /\ Labelling!Matches(words) /\ (filter = {} \/ \E t \in tags : t.id \in labels /\ SlugOf[t.name] \in filter)
    BY DEF Labelling!McpFinds, Labelling!Labelled, Labelling!Matches
  <2>5. Labelling!ApiFinds(words, filter) <=>
          ~deleted /\ Labelling!Matches(words) /\ (filter = {} \/ \E t \in tags : t.id \in labels /\ t.name \in filter)
    BY <2>1 DEF Labelling!ApiFinds, Labelling!Labelled, Labelling!NameOf, Labelling!Matches
  <2>6. Labelling!LibraryFinds(words, filter) <=>
          ~deleted /\ Labelling!Matches(words) /\ (filter = {} \/ \E t \in tags : t.id \in labels /\ t.name \in filter)
    BY <2>1 DEF Labelling!LibraryFinds, Labelling!Labelled, Labelling!NameOf, Labelling!Matches
  <2>7. /\ Labelling!McpFinds(words, filter) \in BOOLEAN /\ Labelling!ApiFinds(words, filter) \in BOOLEAN
        /\ Labelling!LibraryFinds(words, filter) \in BOOLEAN
    BY DEF Labelling!McpFinds, Labelling!ApiFinds, Labelling!LibraryFinds
  <2> QED
    BY <2>3, <2>4, <2>5, <2>6, <2>7
<1> QED
  BY <1>1, <1>2, <1>3, <1>4, <1>5

LEMMA InitTagging == Labelling!Init => TaggingInv
<1> SUFFICES ASSUME Labelling!Init PROVE TaggingInv
  OBVIOUS
<1> USE DEF Labelling!Init
<1>1. /\ Labelling!Idle \in TagCall /\ Labelling!Idle.at = "unused"
      /\ \A k \in Labelling!Calls : calls[k] = Labelling!Idle
  BY DEF TagCall, Labelling!Idle
<1>2. Labelling!NoTerms \in TermsRecord /\ Labelling!Terms = Labelling!NoTerms
  BY DEF TermsRecord, Labelling!NoTerms, Labelling!Terms
<1>3. TagTypes
  BY <1>1, <1>2 DEF TagTypes, Fits
<1> QED
  BY <1>1, <1>2, <1>3 DEF TaggingInv, IdsInv, MetInv, ResolvedInv, Resolved, StoredInv, Stored, EntryInv, Pending, Writing

Begins(c) ==
  /\ c.at \in {"list", "check", "read", "unlabel"}
  /\ c.kind = "edit" => c.ids = {} /\ (c.at = "list" \/ (c.at = "check" /\ c.names = {}))

LEMMA StartKeeps ==
  ASSUME TaggingInv, NEW k \in Labelling!Calls, NEW c \in TagCall, Fits(c), Begins(c), Labelling!Start(k, c),
         drawer' = None \/ drawer' \in SUBSET Names
  PROVE  TaggingInv'
<1> USE DEF TaggingInv
<1>1. /\ calls[k].at = "unused" /\ calls' = [calls EXCEPT ![k] = c] /\ calls' \in [Labelling!Calls -> TagCall]
      /\ calls'[k] = c /\ \A l \in Labelling!Calls \ {k} : calls'[l] = calls[l]
      /\ UNCHANGED <<tags, born, labels, note, index, deleted, owed, cut>>
      /\ unmet' = IF Labelling!Running = {} THEN unmet \cup {k} ELSE unmet \ Labelling!Running
  BY DEF TagTypes, Labelling!Start, Labelling!rows
<1>2. TagTypes'
  BY <1>1 DEF TagTypes
<1>3. IdsInv'
  BY <1>1 DEF IdsInv
<1>4. Labelling!Running' = Labelling!Running \cup {k} /\ k \notin Labelling!Running /\ k \notin unmet \cup cut
  BY <1>1 DEF Labelling!Running, Begins, MetInv
<1>5. MetInv'
  BY <1>1, <1>4 DEF MetInv, Begins
<1>6. ResolvedInv'
  <2> SUFFICES ASSUME NEW l \in Labelling!Calls \ cut PROVE Resolved(l)'
    BY <1>1 DEF ResolvedInv
  <2>1. CASE l = k
    BY <1>1, <2>1 DEF Resolved, Begins
  <2>2. CASE l # k
    BY <1>1, <2>2 DEF ResolvedInv, Resolved, Found, Taken, Labelling!SlugTaken
  <2> QED
    BY <2>1, <2>2
<1>7. StoredInv'
  <2> SUFFICES ASSUME NEW l \in unmet' PROVE Stored(l)'
    BY DEF StoredInv
  <2>1. CASE l = k
    BY <1>1, <2>1 DEF Stored, Begins
  <2>2. CASE l # k
    <3>1. l \in unmet /\ l \in Labelling!Calls
      BY <1>1, <2>2 DEF TagTypes
    <3> QED
      BY <1>1, <2>2, <3>1 DEF StoredInv, Stored, Found, Taken, Labelling!Live
  <2> QED
    BY <2>1, <2>2
<1>8. EntryInv'
  <2>1. Labelling!Terms' = Labelling!Terms
    BY <1>1 DEF Labelling!Terms
  <2>2. \A l \in Labelling!Calls : Writing(l)' <=> Writing(l)
    BY <1>1 DEF Writing, Begins
  <2>3. Pending => Pending'
    BY <1>1 DEF Pending
  <2>4. \A l \in Labelling!Calls : Writing(l) => calls'[l] = calls[l]
    BY <1>1 DEF Writing
  <2> QED
    BY <1>1, <2>1, <2>2, <2>3, <2>4 DEF EntryInv
<1> QED
  BY <1>2, <1>3, <1>5, <1>6, <1>7, <1>8

\* The statement of one request, as far as the others are concerned.
LEMMA OneMoves ==
  ASSUME TagTypes, MetInv, ResolvedInv, StoredInv,
         NEW k \in Labelling!Running, calls' \in [Labelling!Calls -> TagCall],
         \A l \in Labelling!Calls \ {k} : calls'[l] = calls[l],
         calls'[k].at # "unused", tags \subseteq tags', unmet' = unmet, cut' = cut,
         k \notin cut => Resolved(k)', k \in unmet => Stored(k)'
  PROVE  MetInv' /\ ResolvedInv' /\ StoredInv'
<1>1. k \in Labelling!Calls /\ Labelling!Running' \subseteq Labelling!Running
  BY DEF Labelling!Running
<1>2. MetInv'
  <2>1. \A l \in unmet' \cup cut' : calls'[l].at # "unused"
    BY <1>1 DEF MetInv, TagTypes
  <2> QED
    BY <1>1, <2>1 DEF MetInv
<1>3. ResolvedInv'
  <2> SUFFICES ASSUME NEW l \in Labelling!Calls \ cut, l # k PROVE Resolved(l)'
    BY DEF ResolvedInv
  <2>1. \A n : (Found(l, n) => Found(l, n)') /\ (Taken(n) => Taken(n)') /\ (Labelling!SlugTaken(n) => Labelling!SlugTaken(n)')
    BY DEF Found, Taken, Labelling!SlugTaken
  <2> QED
    BY <2>1 DEF ResolvedInv, Resolved
<1>4. StoredInv'
  <2> SUFFICES ASSUME NEW l \in unmet, l # k PROVE Stored(l)'
    BY DEF StoredInv
  <2>1. l \in Labelling!Calls /\ l \notin Labelling!Running
    BY DEF MetInv, TagTypes
  <2> QED
    BY <2>1 DEF Stored, Labelling!Running
<1> QED
  BY <1>2, <1>3, <1>4

\* What does not touch the terms of the entry, nor who writes them.
LEMMA EntryStays ==
  ASSUME EntryInv, owed' = owed, index' = index, Labelling!Terms' = Labelling!Terms,
         \A l \in Labelling!Calls :
           {calls[l].at, calls'[l].at} \cap {"insert", "read", "write"} # {} => calls'[l] = calls[l]
  PROVE  EntryInv'
<1>1. \A l \in Labelling!Calls :
        /\ Writing(l)' <=> Writing(l)
        /\ Writing(l) => calls'[l] = calls[l]
        /\ calls'[l].at \in {"insert", "read"} <=> calls[l].at \in {"insert", "read"}
  BY DEF Writing
<1>2. Pending' <=> Pending
  BY <1>1 DEF Pending
<1> QED
  BY <1>1, <1>2 DEF EntryInv

\* The statement leaves what is stored alone.
LEMMA CallOnly ==
  ASSUME TaggingInv, NEW k \in Labelling!Running, NEW c \in TagCall, Fits(c),
         calls' = [calls EXCEPT ![k] = c], c.at \notin {"unused", "insert", "read", "write"},
         calls[k].at \notin {"insert", "read", "write"},
         UNCHANGED <<tags, born, labels, note, index, deleted, drawer, owed, unmet, cut>>,
         k \notin cut => Resolved(k)', k \in unmet => Stored(k)'
  PROVE  TaggingInv'
<1> USE DEF TaggingInv
<1>1. /\ k \in Labelling!Calls /\ calls' \in [Labelling!Calls -> TagCall]
      /\ calls'[k] = c /\ \A l \in Labelling!Calls \ {k} : calls'[l] = calls[l]
  BY DEF TagTypes, Labelling!Running
<1>2. TagTypes' /\ IdsInv'
  BY <1>1 DEF TagTypes, IdsInv
<1>3. MetInv' /\ ResolvedInv' /\ StoredInv'
  BY <1>1, OneMoves
<1>4. Labelling!Terms' = Labelling!Terms
  BY DEF Labelling!Terms
<1>5. EntryInv'
  BY <1>1, <1>4, EntryStays
<1> QED
  BY <1>2, <1>3, <1>5

LEMMA ListKeeps ==
  ASSUME TaggingInv, NEW k \in Labelling!Calls, Labelling!List(k)
  PROVE  TaggingInv'
<1> DEFINE known == {t \in tags : t.name \in calls[k].names}
           missing == calls[k].names \ {t.name : t \in known}
           ids == {t.id : t \in known}
           c == [calls[k] EXCEPT !.ids = ids, !.missing = missing, !.at = IF missing = {} THEN "check" ELSE "create"]
<1> USE DEF TaggingInv
<1>1. calls[k] \in TagCall /\ Fits(calls[k]) /\ calls[k].at = "list" /\ k \in Labelling!Running
  BY DEF TagTypes, Labelling!List, Labelling!At, Labelling!Running
<1>2. ids \in SUBSET TagId /\ missing \in SUBSET Names
  BY <1>1 DEF TagTypes, TagCall
<1>3. c \in TagCall /\ Fits(c) /\ c.at \in {"check", "create"}
  BY <1>1, <1>2 DEF TagCall, Fits
<1>4. calls' = [calls EXCEPT ![k] = c] /\ calls'[k] = c
  BY DEF Labelling!List, TagTypes
<1>5. UNCHANGED <<tags, born, labels, note, index, deleted, drawer, owed, unmet, cut>>
  BY DEF Labelling!List, Labelling!rows
<1>6. \A n \in c.names \ c.missing : \E t \in tags : t.name = n /\ t.id \in c.ids
  BY <1>1 DEF TagCall
<1>7. Resolved(k)'
  <2>1. CASE missing = {}
    <3>1. c.at = "check" /\ c.missing = {}
      BY <1>1, <2>1 DEF TagCall
    <3> QED
      BY <1>4, <1>5, <1>6, <3>1 DEF Resolved, Found
  <2>2. CASE missing # {}
    <3>1. c.at = "create"
      BY <1>1, <2>2 DEF TagCall
    <3> QED
      BY <1>4, <1>5, <1>6, <3>1 DEF Resolved, Found
  <2> QED
    BY <2>1, <2>2
<1>8. Stored(k)'
  <2>1. \A i \in c.ids : (\E t \in tags : t.id = i) /\ i[1] \in c.names
    BY <1>1 DEF IdsInv, TagCall
  <2> QED
    BY <1>3, <1>4, <1>5, <2>1 DEF Stored, Labelling!Live
<1> QED
  BY <1>1, <1>3, <1>4, <1>5, <1>7, <1>8, CallOnly

LEMMA RelistKeeps ==
  ASSUME TaggingInv, NEW k \in Labelling!Calls, Labelling!Relist(k)
  PROVE  TaggingInv'
<1> DEFINE known == {t \in tags : t.name \in calls[k].names}
           lasting == {i \in calls[k].ids : i[1] \notin {t.name : t \in known}}
           ids == {t.id : t \in known} \cup lasting
           c == [calls[k] EXCEPT !.ids = ids, !.at = "check"]
<1> USE DEF TaggingInv
<1>1. calls[k] \in TagCall /\ Fits(calls[k]) /\ calls[k].at = "relist" /\ k \in Labelling!Running
  BY DEF TagTypes, Labelling!Relist, Labelling!At, Labelling!Running
<1>2. ids \in SUBSET TagId
  BY <1>1 DEF TagTypes, TagCall
<1>3. c \in TagCall /\ Fits(c) /\ c.at = "check" /\ c.ids = ids /\ c.names = calls[k].names /\ c.kind = "edit"
  BY <1>1, <1>2 DEF TagCall, Fits
<1>4. calls' = [calls EXCEPT ![k] = c] /\ calls'[k] = c
  BY DEF Labelling!Relist, TagTypes
<1>5. UNCHANGED <<tags, born, labels, note, index, deleted, drawer, owed, unmet, cut>>
  BY DEF Labelling!Relist, Labelling!rows
<1>6. k \notin cut => Resolved(k)'
  <2> SUFFICES ASSUME k \notin cut, NEW n \in calls[k].names PROVE Found(k, n)' \/ Taken(n)'
    BY <1>3, <1>4 DEF Resolved
  <2>1. Found(k, n) \/ Labelling!SlugTaken(n)
    BY <1>1 DEF ResolvedInv, Resolved
  <2>2. (\E t \in tags : t.name = n) \/ Taken(n)
    BY <2>1 DEF Found, Taken, Labelling!SlugTaken
  <2>3. ASSUME NEW t \in tags, t.name = n PROVE Found(k, n)'
    <3>1. t.id \in calls'[k].ids
      BY <1>3, <1>4, <2>3
    <3> QED
      BY <1>5, <2>3, <3>1 DEF Found
  <2> QED
    BY <1>5, <2>2, <2>3 DEF Taken
<1>7. k \in unmet => Stored(k)'
  <2> SUFFICES ASSUME k \in unmet, NEW i \in ids PROVE i \in Labelling!Live /\ i[1] \in calls[k].names
    BY <1>3, <1>4, <1>5 DEF Stored, Labelling!Live
  <2>1. CASE i \in {t.id : t \in known}
    BY <2>1 DEF IdsInv, Labelling!Live
  <2>2. CASE i \in lasting
    BY <1>1, <2>2 DEF StoredInv, Stored, Fits
  <2> QED
    BY <2>1, <2>2
<1> QED
  BY <1>1, <1>3, <1>4, <1>5, <1>6, <1>7, CallOnly

LEMMA CheckKeeps ==
  ASSUME TaggingInv, NEW k \in Labelling!Calls, Labelling!Check(k)
  PROVE  TaggingInv'
<1> DEFINE c == [calls[k] EXCEPT !.ids = @ \cap Labelling!Live,
                   !.at = IF deleted THEN "failed" ELSE Labelling!After(calls[k].kind, "check")]
<1> USE DEF TaggingInv
<1>1. calls[k] \in TagCall /\ Fits(calls[k]) /\ calls[k].at = "check" /\ k \in Labelling!Running
  BY DEF TagTypes, Labelling!Check, Labelling!At, Labelling!Running
<1>2. Labelling!After(calls[k].kind, "check") = IF calls[k].kind = "note" THEN "note" ELSE "clear"
  BY DEF Labelling!After
<1>3. /\ c \in TagCall /\ Fits(c) /\ c.at \in {"failed", "note", "clear"}
      /\ c.names = calls[k].names /\ c.kind = calls[k].kind /\ c.ids = calls[k].ids \cap Labelling!Live
  BY <1>1, <1>2 DEF TagCall, Fits
<1>4. calls' = [calls EXCEPT ![k] = c] /\ calls'[k] = c
  BY DEF Labelling!Check, TagTypes
<1>5. UNCHANGED <<tags, born, labels, note, index, deleted, drawer, owed, unmet, cut>>
  BY DEF Labelling!Check, Labelling!rows
<1>6. Resolved(k)'
  BY <1>3, <1>4 DEF Resolved
<1>7. k \in unmet => Stored(k)'
  <2> SUFFICES ASSUME k \in unmet, calls[k].kind = "edit"
               PROVE  /\ \A i \in c.ids : i \in Labelling!Live /\ i[1] \in calls[k].names
                      /\ \A n \in calls[k].names : Found(k, n)' \/ Taken(n)
    BY <1>3, <1>4, <1>5 DEF Stored, Labelling!Live, Taken
  <2>1. k \notin cut
    BY <1>1 DEF MetInv
  <2>2. \A n \in calls[k].names : Found(k, n) \/ Taken(n)
    BY <1>1, <2>1 DEF ResolvedInv, Resolved
  <2>3. \A n : Found(k, n) => Found(k, n)'
    BY <1>3, <1>4, <1>5 DEF Found, Labelling!Live
  <2> QED
    BY <1>1, <1>3, <2>2, <2>3 DEF StoredInv, Stored
<1> QED
  BY <1>1, <1>3, <1>4, <1>5, <1>6, <1>7, CallOnly

LEMMA NewTags ==
  ASSUME TagTypes, IdsInv, NEW n \in Names, ~Labelling!SlugTaken(n),
         tags' = tags \cup {Labelling!New(n)}, born' = [born EXCEPT ![n] = @ + 1], labels' = labels, note' = note
  PROVE  /\ Labelling!New(n) \in [id : TagId, name : Names] /\ Labelling!New(n).name = n
         /\ Labelling!New(n).id \in TagId /\ Labelling!New(n).id[1] = n
         /\ tags' \in SUBSET [id : TagId, name : Names] /\ born' \in [Names -> Nat]
         /\ IdsInv' /\ Labelling!Terms' = Labelling!Terms
<1> DEFINE t == Labelling!New(n)
<1>1. /\ t \in [id : TagId, name : Names] /\ t.name = n /\ t.id = <<n, born[n] + 1>>
      /\ t.id \in TagId /\ t.id[1] = n /\ t.id[2] = born[n] + 1
  BY DEF TagTypes, TagId, Labelling!New
<1>2. born' \in [Names -> Nat] /\ born'[n] = born[n] + 1 /\ \A m \in Names : born[m] <= born'[m]
  BY DEF TagTypes
<1>3. \A u \in tags : u.id # t.id /\ SlugOf[u.name] # SlugOf[n]
  <2> SUFFICES ASSUME NEW u \in tags PROVE u.id # t.id /\ SlugOf[u.name] # SlugOf[n]
    OBVIOUS
  <2>1. u.name \in Names /\ u.id[2] \in Nat /\ u.id[1] = u.name /\ u.id[2] <= born[u.name] /\ born[n] \in Nat
    BY DEF TagTypes, TagId, IdsInv
  <2>2. u.id # t.id
    BY <1>1, <2>1
  <2> QED
    BY <2>2 DEF Labelling!SlugTaken
<1>4. IdsInv'
  <2>1. \A u \in tags' : u.id[1] = u.name /\ u.id[2] <= born'[u.name]
    <3> SUFFICES ASSUME NEW u \in tags' PROVE u.id[1] = u.name /\ u.id[2] <= born'[u.name]
      OBVIOUS
    <3>1. CASE u = t
      BY <1>1, <1>2, <3>1
    <3>2. CASE u \in tags
      <4>1. u.name \in Names /\ u.id[2] \in Nat /\ u.id[1] = u.name /\ u.id[2] <= born[u.name]
        BY <3>2 DEF TagTypes, TagId, IdsInv
      <4>2. born[u.name] \in Nat /\ born'[u.name] \in Nat /\ born[u.name] <= born'[u.name]
        BY <1>2, <4>1 DEF TagTypes
      <4> QED
        BY <4>1, <4>2
    <3> QED
      BY <3>1, <3>2
  <2>2. \A u, v \in tags' : u # v => u.id # v.id /\ SlugOf[u.name] # SlugOf[v.name]
    BY <1>1, <1>3 DEF IdsInv
  <2>3. \A i \in labels' : \E u \in tags' : u.id = i
    BY DEF IdsInv
  <2> QED
    BY <2>1, <2>2, <2>3 DEF IdsInv
<1>5. Labelling!Terms' = Labelling!Terms
  <2>1. t.id \notin labels
    BY <1>3 DEF IdsInv
  <2>2. {u \in tags' : u.id \in labels} = {u \in tags : u.id \in labels}
    BY <2>1
  <2> QED
    BY <2>2 DEF Labelling!Terms
<1> QED
  BY <1>1, <1>2, <1>4, <1>5 DEF TagTypes

LEMMA CreateKeeps ==
  ASSUME TaggingInv, NEW k \in Labelling!Calls, Labelling!Create(k)
  PROVE  TaggingInv'
<1> USE DEF TaggingInv
<1>1. calls[k] \in TagCall /\ Fits(calls[k]) /\ calls[k].at = "create" /\ calls[k].kind = "edit" /\ k \in Labelling!Running
  BY DEF TagTypes, Labelling!Create, Labelling!At, Labelling!Running, Fits
<1>2. UNCHANGED <<labels, note, index, deleted, drawer, owed, unmet, cut>>
  BY DEF Labelling!Create
<1>3. PICK n \in calls[k].missing :
        LET rest == calls[k].missing \ {n}
            clash == calls[k].clash \/ Labelling!SlugTaken(n)
            step == IF rest = {} THEN Labelling!Resolved(clash) ELSE "create"
        IN  IF Labelling!SlugTaken(n)
            THEN /\ calls' = [calls EXCEPT ![k].missing = rest, ![k].clash = TRUE, ![k].at = step]
                 /\ UNCHANGED <<tags, born>>
            ELSE /\ tags' = tags \cup {Labelling!New(n)} /\ born' = [born EXCEPT ![n] = @ + 1]
                 /\ calls' = [calls EXCEPT ![k].missing = rest, ![k].ids = @ \cup {Labelling!New(n).id}, ![k].at = step]
  BY DEF Labelling!Create
<1> DEFINE rest == calls[k].missing \ {n}
           clash == calls[k].clash \/ Labelling!SlugTaken(n)
           step == IF rest = {} THEN (IF clash THEN "relist" ELSE "check") ELSE "create"
           c == calls'[k]
<1>4. n \in Names /\ rest \in SUBSET Names /\ clash \in BOOLEAN
  BY <1>1 DEF TagCall, Labelling!SlugTaken
<1>5. /\ TagTypes' /\ IdsInv' /\ Labelling!Terms' = Labelling!Terms /\ tags \subseteq tags'
      /\ \A l \in Labelling!Calls \ {k} : calls'[l] = calls[l]
      /\ c.at = step /\ c.kind = "edit" /\ c.names = calls[k].names /\ c.missing = rest /\ c.clash = clash
      /\ calls[k].ids \subseteq c.ids
      /\ Labelling!SlugTaken(n) \/ \E t \in tags' : t.name = n /\ t.id \in c.ids
      /\ \A i \in c.ids : i \in calls[k].ids \/ (i[1] = n /\ i \in Labelling!Live')
  <2>1. CASE Labelling!SlugTaken(n)
    <3> DEFINE d == [calls[k] EXCEPT !.missing = rest, !.clash = TRUE, !.at = step]
    <3>1. calls' = [calls EXCEPT ![k] = d] /\ UNCHANGED <<tags, born>>
      BY <1>3, <2>1 DEF Labelling!Resolved
    <3>2. d \in TagCall /\ Fits(d) /\ d.at = step /\ d.kind = "edit" /\ d.names = calls[k].names
          /\ d.missing = rest /\ d.clash = TRUE /\ d.ids = calls[k].ids
      BY <1>1, <1>4 DEF TagCall, Fits
    <3>3. calls'[k] = d /\ \A l \in Labelling!Calls \ {k} : calls'[l] = calls[l]
      BY <3>1 DEF TagTypes
    <3>4. TagTypes' /\ IdsInv' /\ Labelling!Terms' = Labelling!Terms
      BY <1>2, <3>1, <3>2 DEF TagTypes, IdsInv, Labelling!Terms
    <3>5. clash = TRUE
      BY <1>4, <2>1
    <3>6. c = d
      BY <3>3
    <3> HIDE DEF c, d, step, rest, clash
    <3> QED
      BY <2>1, <3>1, <3>2, <3>3, <3>4, <3>5, <3>6
  <2>2. CASE ~Labelling!SlugTaken(n)
    <3> DEFINE t == Labelling!New(n)
               d == [calls[k] EXCEPT !.missing = rest, !.ids = @ \cup {t.id}, !.at = step]
    <3>1. calls' = [calls EXCEPT ![k] = d] /\ tags' = tags \cup {t} /\ born' = [born EXCEPT ![n] = @ + 1]
      BY <1>3, <2>2 DEF Labelling!Resolved
    <3>2. /\ t \in [id : TagId, name : Names] /\ t.name = n /\ t.id \in TagId /\ t.id[1] = n
          /\ tags' \in SUBSET [id : TagId, name : Names] /\ born' \in [Names -> Nat]
          /\ IdsInv' /\ Labelling!Terms' = Labelling!Terms
      BY <1>2, <1>4, <2>2, <3>1, NewTags
    <3>3. d \in TagCall /\ Fits(d) /\ d.at = step /\ d.kind = "edit" /\ d.names = calls[k].names
          /\ d.missing = rest /\ d.clash = calls[k].clash /\ d.ids = calls[k].ids \cup {t.id}
      BY <1>1, <1>4, <3>2 DEF TagCall, Fits
    <3>4. calls'[k] = d /\ \A l \in Labelling!Calls \ {k} : calls'[l] = calls[l]
      BY <3>1 DEF TagTypes
    <3>5. TagTypes'
      BY <1>2, <3>1, <3>2, <3>3 DEF TagTypes
    <3>6. t \in tags' /\ t.id \in Labelling!Live'
      BY <3>1 DEF Labelling!Live
    <3>7. clash = calls[k].clash
      BY <1>1, <2>2 DEF TagCall
    <3> QED
      BY <3>1, <3>2, <3>3, <3>4, <3>5, <3>6, <3>7
  <2> QED
    BY <2>1, <2>2
<1> HIDE DEF c, step, rest, clash
<1>6. Labelling!SlugTaken(n) => Labelling!SlugTaken(n)'
  BY <1>5 DEF Labelling!SlugTaken
<1>7. k \notin cut => Resolved(k)'
  <2> SUFFICES ASSUME k \notin cut PROVE Resolved(k)'
    OBVIOUS
  <2>1. ASSUME NEW m \in calls[k].names \ rest
        PROVE  Found(k, m)' \/ (clash /\ Labelling!SlugTaken(m)')
    <3>1. CASE m = n
      BY <1>5, <1>6, <3>1 DEF Found, clash, c
    <3>2. CASE m # n
      <4>1. Found(k, m) \/ (calls[k].clash /\ Labelling!SlugTaken(m))
        BY <1>1, <3>2 DEF ResolvedInv, Resolved, rest
      <4>2. Found(k, m) => Found(k, m)'
        BY <1>5 DEF Found, c
      <4>3. Labelling!SlugTaken(m) => Labelling!SlugTaken(m)'
        BY <1>5 DEF Labelling!SlugTaken
      <4> QED
        BY <4>1, <4>2, <4>3 DEF clash
    <3> QED
      BY <3>1, <3>2
  <2>2. CASE rest = {}
    BY <1>5, <2>1, <2>2 DEF Resolved, c, step
  <2>3. CASE rest # {}
    BY <1>5, <2>1, <2>3 DEF Resolved, c, step
  <2> QED
    BY <2>2, <2>3
<1>8. k \in unmet => Stored(k)'
  <2> SUFFICES ASSUME k \in unmet, NEW i \in c.ids PROVE i \in Labelling!Live' /\ i[1] \in calls[k].names
    BY <1>5 DEF Stored, c, step
  <2>1. n \in calls[k].names
    BY <1>1 DEF Fits
  <2> QED
    BY <1>1, <1>5, <2>1 DEF StoredInv, Stored, Labelling!Live
<1>9. MetInv' /\ ResolvedInv' /\ StoredInv'
  <2>1. calls' \in [Labelling!Calls -> TagCall] /\ calls'[k].at # "unused"
    BY <1>5 DEF TagTypes, c, step
  <2> QED
    BY <1>1, <1>2, <1>5, <1>7, <1>8, <2>1, OneMoves
<1>10. EntryInv'
  <2>1. calls'[k].at \notin {"insert", "read", "write"}
    BY <1>5 DEF c, step
  <2> QED
    BY <1>1, <1>2, <1>5, <2>1, EntryStays
<1> QED
  BY <1>5, <1>9, <1>10

\* A request goes on to its next statement, or ends.
LEMMA Going ==
  ASSUME TagTypes, NEW k \in Labelling!Running, NEW step, Labelling!Goes(k, step),
         step \in {"insert", "read", "write", "untag", "done", "failed"},
         step = "insert" => calls[k].kind \in {"edit", "put", "assign"},
         step # "write"
  PROVE  /\ k \in Labelling!Calls /\ calls' \in [Labelling!Calls -> TagCall]
         /\ \A l \in Labelling!Calls \ {k} : calls'[l] = calls[l]
         /\ calls'[k].at = step /\ \A l \in Labelling!Calls : Fits(calls'[l])
         /\ step \notin {"done", "failed"} => calls'[k] = [calls[k] EXCEPT !.at = step]
<1> DEFINE c == IF step \in {"done", "failed"} THEN [Labelling!Idle EXCEPT !.at = step] ELSE [calls[k] EXCEPT !.at = step]
<1>1. k \in Labelling!Calls /\ calls[k] \in TagCall
  BY DEF TagTypes, Labelling!Running
<1>2. c \in TagCall /\ Fits(c) /\ c.at = step
  <2>1. CASE step \in {"done", "failed"}
    BY <2>1 DEF TagCall, Fits, Labelling!Idle
  <2>2. CASE step \notin {"done", "failed"}
    BY <1>1, <2>2 DEF TagCall, Fits
  <2> QED
    BY <2>1, <2>2
<1>3. calls' = [calls EXCEPT ![k] = c]
  BY DEF Labelling!Goes
<1> HIDE DEF c
<1>4. calls'[k] = c /\ \A l \in Labelling!Calls \ {k} : calls'[l] = calls[l]
  BY <1>1, <1>3 DEF TagTypes
<1> QED
  BY <1>1, <1>2, <1>3, <1>4 DEF TagTypes, c

LEMMA ClearKeeps ==
  ASSUME TaggingInv, NEW k \in Labelling!Calls, Labelling!Clear(k)
  PROVE  TaggingInv'
<1> USE DEF TaggingInv
<1>1. /\ calls[k] \in TagCall /\ calls[k].at = "clear" /\ calls[k].kind \in {"edit", "put", "assign"}
      /\ k \in Labelling!Running /\ labels' = {} /\ Labelling!Goes(k, "insert")
      /\ UNCHANGED <<tags, born, note, index, deleted, drawer, owed, unmet, cut>>
  BY DEF TagTypes, Labelling!Clear, Labelling!At, Labelling!Running, Labelling!After, Fits
<1>2. /\ calls' \in [Labelling!Calls -> TagCall] /\ \A l \in Labelling!Calls \ {k} : calls'[l] = calls[l]
      /\ \A l \in Labelling!Calls : Fits(calls'[l]) /\ calls'[k] = [calls[k] EXCEPT !.at = "insert"]
  BY <1>1, Going
<1>3. calls'[k].at = "insert" /\ calls'[k].names = calls[k].names /\ calls'[k].ids = calls[k].ids /\ calls'[k].kind = calls[k].kind
  BY <1>1, <1>2 DEF TagCall
<1>4. TagTypes' /\ IdsInv'
  BY <1>1, <1>2 DEF TagTypes, IdsInv
<1>5. Resolved(k)'
  BY <1>3 DEF Resolved
<1>6. k \in unmet => Stored(k)'
  BY <1>1, <1>3 DEF StoredInv, Stored, Found, Taken, Labelling!Live
<1>7. MetInv' /\ ResolvedInv' /\ StoredInv'
  BY <1>1, <1>2, <1>3, <1>5, <1>6, OneMoves
<1>8. EntryInv'
  <2>1. Pending'
    BY <1>3 DEF Pending
  <2>2. \A l \in Labelling!Calls : Writing(l)' => Writing(l)
    BY <1>2, <1>3 DEF Writing
  <2> QED
    BY <1>1, <2>1, <2>2 DEF EntryInv
<1> QED
  BY <1>4, <1>7, <1>8

LEMMA InsertKeeps ==
  ASSUME TaggingInv, NEW k \in Labelling!Calls, Labelling!Insert(k)
  PROVE  TaggingInv'
<1> USE DEF TaggingInv
<1> DEFINE ids == calls[k].ids
           ok == Labelling!Labelable(ids)
           step == IF ok THEN (IF calls[k].kind = "assign" THEN "done" ELSE "read") ELSE "failed"
<1>1. /\ calls[k] \in TagCall /\ calls[k].at = "insert" /\ calls[k].kind \in {"edit", "put", "assign"}
      /\ k \in Labelling!Running /\ labels' = IF ok THEN labels \cup ids ELSE labels
      /\ Labelling!Goes(k, step) /\ owed' = (owed \/ ~ok \/ calls[k].kind = "assign")
      /\ UNCHANGED <<tags, born, note, index, deleted, drawer, unmet, cut>>
  BY DEF TagTypes, Labelling!Insert, Labelling!At, Labelling!Running, Labelling!After, Fits
<1>2. /\ calls' \in [Labelling!Calls -> TagCall] /\ \A l \in Labelling!Calls \ {k} : calls'[l] = calls[l]
      /\ \A l \in Labelling!Calls : Fits(calls'[l]) /\ calls'[k].at = step
      /\ step = "read" => calls'[k] = [calls[k] EXCEPT !.at = "read"]
  <2>1. step \in {"read", "done", "failed"}
    OBVIOUS
  <2> HIDE DEF step, ok
  <2>2. /\ calls' \in [Labelling!Calls -> TagCall] /\ \A l \in Labelling!Calls \ {k} : calls'[l] = calls[l]
        /\ calls'[k].at = step /\ \A l \in Labelling!Calls : Fits(calls'[l])
        /\ step \notin {"done", "failed"} => calls'[k] = [calls[k] EXCEPT !.at = step]
    BY <1>1, <2>1, Going
  <2> QED
    BY <2>2
<1>3. step = "read" => calls'[k].names = calls[k].names /\ calls'[k].ids = calls[k].ids /\ calls'[k].kind = calls[k].kind
  BY <1>1, <1>2 DEF TagCall
<1>4. TagTypes' /\ IdsInv'
  <2>1. labels' \in SUBSET TagId /\ owed' \in BOOLEAN
    BY <1>1 DEF TagTypes, TagCall, Labelling!Labelable
  <2>2. \A i \in labels' : \E t \in tags : t.id = i
    BY <1>1 DEF IdsInv, Labelling!Labelable, Labelling!Live
  <2> QED
    BY <1>1, <1>2, <2>1, <2>2 DEF TagTypes, IdsInv
<1>5. Resolved(k)'
  BY <1>2 DEF Resolved
<1>6. k \in unmet => Stored(k)'
  <2> SUFFICES ASSUME k \in unmet, step = "read", calls[k].kind = "edit" PROVE Stored(k)'
    BY <1>2, <1>3 DEF Stored
  <2>1. labels = {} /\ ok /\ labels' = ids
    BY <1>1 DEF StoredInv, Stored
  <2> QED
    BY <1>1, <1>2, <1>3, <2>1 DEF StoredInv, Stored, Found, Taken, Labelling!Live
<1>7. MetInv' /\ ResolvedInv' /\ StoredInv'
  BY <1>1, <1>2, <1>5, <1>6, OneMoves
<1>8. EntryInv'
  <2> SUFFICES ASSUME ~owed' PROVE EntryInv'
    BY DEF EntryInv
  <2>1. ~owed /\ step = "read"
    BY <1>1 DEF TagTypes
  <2>2. Pending'
    BY <1>2, <2>1 DEF Pending
  <2>3. \A l \in Labelling!Calls : Writing(l)' => Writing(l)
    BY <1>2, <2>1 DEF Writing
  <2> QED
    BY <2>1, <2>2, <2>3 DEF EntryInv
<1> QED
  BY <1>4, <1>7, <1>8

LEMMA AnnotatesKeeps ==
  ASSUME TaggingInv, NEW k \in Labelling!Calls, Labelling!Annotates(k)
  PROVE  TaggingInv'
<1> USE DEF TaggingInv
<1>1. /\ calls[k] \in TagCall /\ calls[k].at = "note" /\ calls[k].kind = "note" /\ calls[k].read \in Notes
      /\ k \in Labelling!Running /\ note' = calls[k].read /\ Labelling!Goes(k, "read")
      /\ UNCHANGED <<tags, born, labels, index, deleted, drawer, owed, unmet, cut>>
  BY DEF TagTypes, Labelling!Annotates, Labelling!At, Labelling!Running, Labelling!After, Fits
<1>2. /\ calls' \in [Labelling!Calls -> TagCall] /\ \A l \in Labelling!Calls \ {k} : calls'[l] = calls[l]
      /\ \A l \in Labelling!Calls : Fits(calls'[l]) /\ calls'[k] = [calls[k] EXCEPT !.at = "read"]
  BY <1>1, Going
<1>3. calls'[k].at = "read" /\ calls'[k].kind = "note"
  BY <1>1, <1>2 DEF TagCall
<1>4. TagTypes' /\ IdsInv'
  BY <1>1, <1>2 DEF TagTypes, IdsInv
<1>5. Resolved(k)' /\ Stored(k)'
  BY <1>3 DEF Resolved, Stored
<1>6. MetInv' /\ ResolvedInv' /\ StoredInv'
  BY <1>1, <1>2, <1>3, <1>5, OneMoves
<1>7. EntryInv'
  <2>1. Pending'
    BY <1>3 DEF Pending
  <2>2. \A l \in Labelling!Calls : Writing(l)' => Writing(l)
    BY <1>2, <1>3 DEF Writing
  <2> QED
    BY <1>1, <2>1, <2>2 DEF EntryInv
<1> QED
  BY <1>4, <1>6, <1>7

LEMMA ReadTermsKeeps ==
  ASSUME TaggingInv, NEW k \in Labelling!Calls, Labelling!ReadTerms(k)
  PROVE  TaggingInv'
<1> USE DEF TaggingInv
<1> DEFINE c == [calls[k] EXCEPT !.read = Labelling!Terms, !.at = "write"]
<1>1. /\ calls[k] \in TagCall /\ calls[k].at = "read" /\ k \in Labelling!Running
      /\ calls' = [calls EXCEPT ![k] = c] /\ owed' = \E l \in Labelling!Calls \ {k} : Writing(l)
      /\ UNCHANGED <<tags, born, labels, note, index, deleted, drawer, unmet, cut>>
  BY DEF TagTypes, Labelling!ReadTerms, Labelling!At, Labelling!Running, Labelling!After, Labelling!rows, Writing
<1>2. Labelling!Terms \in TermsRecord /\ Labelling!Terms' = Labelling!Terms
  BY <1>1 DEF Labelling!Terms, TermsRecord, TagTypes
<1>3. /\ c \in TagCall /\ Fits(c) /\ c.at = "write" /\ c.read = Labelling!Terms
      /\ c.names = calls[k].names /\ c.ids = calls[k].ids /\ c.kind = calls[k].kind
  BY <1>1, <1>2 DEF TagCall, Fits
<1> HIDE DEF c
<1>4. calls'[k] = c /\ (\A l \in Labelling!Calls \ {k} : calls'[l] = calls[l]) /\ calls' \in [Labelling!Calls -> TagCall]
  BY <1>1, <1>3 DEF TagTypes
<1>5. TagTypes' /\ IdsInv'
  BY <1>1, <1>3, <1>4 DEF TagTypes, IdsInv
<1>6. Resolved(k)'
  BY <1>3, <1>4 DEF Resolved
<1>7. k \in unmet => Stored(k)'
  BY <1>1, <1>3, <1>4 DEF StoredInv, Stored, Found, Taken, Labelling!Live
<1>8. MetInv' /\ ResolvedInv' /\ StoredInv'
  BY <1>1, <1>3, <1>4, <1>6, <1>7, OneMoves
<1>9. EntryInv'
  <2> SUFFICES ASSUME ~owed' PROVE EntryInv'
    BY DEF EntryInv
  <2>1. \A l \in Labelling!Calls : Writing(l)' <=> l = k
    BY <1>1, <1>3, <1>4 DEF Writing
  <2> QED
    BY <1>2, <1>3, <1>4, <2>1 DEF EntryInv
<1> QED
  BY <1>5, <1>8, <1>9

LEMMA WriteTermsKeeps ==
  ASSUME TaggingInv, NEW k \in Labelling!Calls, Labelling!WriteTerms(k)
  PROVE  TaggingInv'
<1> USE DEF TaggingInv
<1>1. /\ calls[k] \in TagCall /\ calls[k].at = "write" /\ calls[k].read \in TermsRecord
      /\ k \in Labelling!Running /\ index' = calls[k].read /\ Labelling!Goes(k, "done")
      /\ UNCHANGED <<tags, born, labels, note, deleted, drawer, owed, unmet, cut>>
  BY DEF TagTypes, Labelling!WriteTerms, Labelling!At, Labelling!Running, Labelling!After, Fits
<1>2. /\ calls' \in [Labelling!Calls -> TagCall] /\ \A l \in Labelling!Calls \ {k} : calls'[l] = calls[l]
      /\ \A l \in Labelling!Calls : Fits(calls'[l]) /\ calls'[k].at = "done"
  BY <1>1, Going
<1>3. TagTypes' /\ IdsInv'
  BY <1>1, <1>2 DEF TagTypes, IdsInv
<1>4. Resolved(k)' /\ Stored(k)'
  BY <1>2 DEF Resolved, Stored
<1>5. MetInv' /\ ResolvedInv' /\ StoredInv'
  BY <1>1, <1>2, <1>4, OneMoves
<1>6. EntryInv'
  <2> SUFFICES ASSUME ~owed PROVE EntryInv'
    BY <1>1 DEF EntryInv
  <2>1. Labelling!Terms' = Labelling!Terms
    BY <1>1 DEF Labelling!Terms
  <2>2. \A l \in Labelling!Calls : Writing(l) <=> l = k
    BY <1>1 DEF EntryInv, Writing
  <2>3. \A l \in Labelling!Calls : ~Writing(l)'
    BY <1>2, <2>2 DEF Writing
  <2>4. Pending' <=> Pending
    BY <1>1, <1>2 DEF Pending
  <2> QED
    BY <1>1, <2>1, <2>2, <2>3, <2>4 DEF EntryInv
<1> QED
  BY <1>3, <1>5, <1>6

LEMMA UnlabelKeeps ==
  ASSUME TaggingInv, NEW k \in Labelling!Calls, Labelling!Unlabel(k)
  PROVE  TaggingInv'
<1> USE DEF TaggingInv
<1>1. /\ calls[k] \in TagCall /\ calls[k].at = "unlabel" /\ k \in Labelling!Running
      /\ labels' = labels \ calls[k].ids /\ Labelling!Goes(k, "untag") /\ owed' = (owed \/ labels' # labels)
      /\ UNCHANGED <<tags, born, note, index, deleted, drawer, unmet, cut>>
  BY DEF TagTypes, Labelling!Unlabel, Labelling!At, Labelling!Running
<1>2. /\ calls' \in [Labelling!Calls -> TagCall] /\ \A l \in Labelling!Calls \ {k} : calls'[l] = calls[l]
      /\ \A l \in Labelling!Calls : Fits(calls'[l]) /\ calls'[k].at = "untag"
  BY <1>1, Going
<1>3. TagTypes' /\ IdsInv'
  <2>1. labels' \in SUBSET labels /\ owed' \in BOOLEAN
    BY <1>1 DEF TagTypes
  <2> QED
    BY <1>1, <1>2, <2>1 DEF TagTypes, IdsInv
<1>4. Resolved(k)' /\ Stored(k)'
  BY <1>2 DEF Resolved, Stored
<1>5. MetInv' /\ ResolvedInv' /\ StoredInv'
  BY <1>1, <1>2, <1>4, OneMoves
<1>6. EntryInv'
  <2> SUFFICES ASSUME ~owed' PROVE EntryInv'
    BY DEF EntryInv
  <2>1. owed' = owed /\ labels' = labels
    BY <1>1 DEF TagTypes
  <2>2. Labelling!Terms' = Labelling!Terms
    BY <1>1, <2>1 DEF Labelling!Terms
  <2> QED
    BY <1>1, <1>2, <2>1, <2>2, EntryStays
<1> QED
  BY <1>3, <1>5, <1>6

LEMMA DropTagKeeps ==
  ASSUME TaggingInv, NEW k \in Labelling!Calls, Labelling!DropTag(k)
  PROVE  TaggingInv'
<1> USE DEF TaggingInv
<1>1. /\ calls[k] \in TagCall /\ calls[k].at = "untag" /\ k \in Labelling!Running
      /\ tags' = {t \in tags : t.id \notin calls[k].ids} /\ labels' = labels \ calls[k].ids
      /\ Labelling!Goes(k, "done") /\ owed' = (owed \/ labels' # labels)
      /\ cut' = cut \cup (Labelling!Running \ {k})
      /\ UNCHANGED <<born, note, index, deleted, drawer, unmet>>
  BY DEF TagTypes, Labelling!DropTag, Labelling!At, Labelling!Running
<1>2. /\ calls' \in [Labelling!Calls -> TagCall] /\ \A l \in Labelling!Calls \ {k} : calls'[l] = calls[l]
      /\ \A l \in Labelling!Calls : Fits(calls'[l]) /\ calls'[k].at = "done"
  BY <1>1, Going
<1>3. TagTypes'
  <2>1. labels' \in SUBSET TagId /\ tags' \in SUBSET [id : TagId, name : Names] /\ owed' \in BOOLEAN
        /\ cut' \in SUBSET Labelling!Calls
    BY <1>1 DEF TagTypes, Labelling!Running
  <2> QED
    BY <1>1, <1>2, <2>1 DEF TagTypes
<1>4. IdsInv'
  <2>1. \A i \in labels' : \E t \in tags' : t.id = i
    BY <1>1 DEF IdsInv
  <2> QED
    BY <1>1, <2>1 DEF IdsInv
<1>5. \A l \in Labelling!Calls : l \in Labelling!Running' => l \in Labelling!Running \ {k} /\ l \in cut'
  BY <1>1, <1>2 DEF Labelling!Running
<1>6. MetInv'
  <2>1. \A l \in unmet' \cup cut' : calls'[l].at # "unused"
    BY <1>1, <1>2 DEF MetInv, TagTypes, Labelling!Running
  <2>2. unmet' \cap Labelling!Running' = {}
    BY <1>1, <1>5 DEF MetInv, TagTypes
  <2> QED
    BY <2>1, <2>2 DEF MetInv
<1>7. ResolvedInv'
  <2> SUFFICES ASSUME NEW l \in Labelling!Calls, l \notin Labelling!Running' PROVE Resolved(l)'
    BY <1>5 DEF ResolvedInv
  <2> QED
    BY DEF Resolved, Labelling!Running
<1>8. StoredInv'
  <2> SUFFICES ASSUME NEW l \in Labelling!Calls, l \notin Labelling!Running' PROVE Stored(l)'
    BY <1>1, <1>5 DEF StoredInv, MetInv, TagTypes
  <2> QED
    BY DEF Stored, Labelling!Running
<1>9. EntryInv'
  <2> SUFFICES ASSUME ~owed' PROVE EntryInv'
    BY DEF EntryInv
  <2>1. owed' = owed /\ labels' = labels /\ labels \cap calls[k].ids = {}
    BY <1>1 DEF TagTypes
  <2>2. {t \in tags' : t.id \in labels'} = {t \in tags : t.id \in labels}
    BY <1>1, <2>1
  <2>3. Labelling!Terms' = Labelling!Terms
    BY <1>1, <2>2 DEF Labelling!Terms
  <2> QED
    BY <1>1, <1>2, <2>1, <2>3, EntryStays
<1> QED
  BY <1>3, <1>4, <1>6, <1>7, <1>8, <1>9

LEMMA AddedKeeps ==
  ASSUME TaggingInv, NEW n \in Names, Labelling!Added(n)
  PROVE  TaggingInv'
<1> USE DEF TaggingInv
<1>1. /\ ~Labelling!SlugTaken(n) /\ tags' = tags \cup {Labelling!New(n)} /\ born' = [born EXCEPT ![n] = @ + 1]
      /\ UNCHANGED <<labels, note, index, deleted, drawer, calls, owed, unmet, cut>>
  BY DEF Labelling!Added
<1>2. /\ tags' \in SUBSET [id : TagId, name : Names] /\ born' \in [Names -> Nat]
      /\ IdsInv' /\ Labelling!Terms' = Labelling!Terms
  BY <1>1, NewTags
<1>3. TagTypes'
  BY <1>1, <1>2 DEF TagTypes
<1>4. MetInv' /\ EntryInv'
  BY <1>1, <1>2 DEF MetInv, EntryInv, Pending, Writing, Labelling!Running
<1>5. ASSUME NEW l \in Labelling!Calls, NEW m \in Names
      PROVE  /\ Found(l, m) => Found(l, m)'
             /\ Taken(m) => Taken(m)'
             /\ Labelling!SlugTaken(m) => Labelling!SlugTaken(m)'
  BY <1>1 DEF Found, Taken, Labelling!SlugTaken
<1>6. ResolvedInv'
  <2> SUFFICES ASSUME NEW l \in Labelling!Calls \ cut PROVE Resolved(l)'
    BY <1>1 DEF ResolvedInv
  <2>1. calls[l].names \in SUBSET Names
    BY DEF TagTypes, TagCall
  <2> QED
    BY <1>1, <1>5, <2>1 DEF ResolvedInv, Resolved
<1>7. StoredInv'
  <2> SUFFICES ASSUME NEW l \in unmet PROVE Stored(l)'
    BY <1>1 DEF StoredInv
  <2>1. Labelling!Live \subseteq Labelling!Live' /\ l \in Labelling!Calls /\ calls[l].names \in SUBSET Names
    BY <1>1 DEF Labelling!Live, TagTypes, TagCall
  <2> QED
    BY <1>1, <1>5, <2>1 DEF StoredInv, Stored
<1> QED
  BY <1>2, <1>3, <1>4, <1>6, <1>7

LEMMA StartsKeep ==
  ASSUME TaggingInv, NEW k \in Labelling!Calls,
         \/ Labelling!AddTag(k) \/ Labelling!RemoveTag(k) \/ Labelling!Put(k) \/ Labelling!Assign(k)
         \/ Labelling!Annotate(k) \/ Labelling!Categorise(k) \/ Labelling!ProbeIndexes(k) \/ Labelling!Untag(k)
  PROVE  TaggingInv'
<1> USE DEF TaggingInv
<1>1. Labelling!Idle \in TagCall
  BY DEF TagCall, Labelling!Idle
<1>2. Labelling!Live \subseteq TagId
  BY DEF Labelling!Live, TagTypes
<1>3. ASSUME NEW names \in SUBSET Names, Labelling!Apply(k, names) PROVE TaggingInv'
  <2> DEFINE c == [Labelling!Idle EXCEPT !.kind = "edit", !.names = names, !.at = IF names = {} THEN "check" ELSE "list"]
  <2>1. c \in TagCall /\ Fits(c) /\ Begins(c)
    BY DEF TagCall, Labelling!Idle, Fits, Begins
  <2>2. Labelling!Start(k, c) /\ drawer' = names
    BY <1>3 DEF Labelling!Apply
  <2> QED
    BY <2>1, <2>2, StartKeeps
<1>4. ASSUME NEW ids \in SUBSET TagId, drawer' = drawer, NEW door, NEW at,
             (door \in {"put", "assign"} /\ at = "check") \/ (door = "untag" /\ at = "unlabel"),
             Labelling!Start(k, [Labelling!Idle EXCEPT !.kind = door, !.ids = ids, !.at = at])
      PROVE  TaggingInv'
  <2> DEFINE c == [Labelling!Idle EXCEPT !.kind = door, !.ids = ids, !.at = at]
  <2>1. c \in TagCall /\ Fits(c) /\ Begins(c)
    BY <1>4 DEF TagCall, Labelling!Idle, Fits, Begins
  <2> QED
    BY <1>4, <2>1, StartKeeps DEF TagTypes
<1>5. ASSUME NEW v \in Notes, drawer' = drawer,
             Labelling!Start(k, [Labelling!Idle EXCEPT !.kind = "note", !.read = v, !.at = "check"])
      PROVE  TaggingInv'
  <2> DEFINE c == [Labelling!Idle EXCEPT !.kind = "note", !.read = v, !.at = "check"]
  <2>1. c \in TagCall /\ Fits(c) /\ Begins(c)
    BY DEF TagCall, Labelling!Idle, Fits, Begins
  <2> QED
    BY <1>5, <2>1, StartKeeps DEF TagTypes
<1>6. ASSUME drawer' = drawer, Labelling!Start(k, [Labelling!Idle EXCEPT !.kind = "index", !.at = "read"])
      PROVE  TaggingInv'
  <2> DEFINE c == [Labelling!Idle EXCEPT !.kind = "index", !.at = "read"]
  <2>1. c \in TagCall /\ Fits(c) /\ Begins(c)
    BY DEF TagCall, Labelling!Idle, Fits, Begins
  <2> QED
    BY <1>6, <2>1, StartKeeps DEF TagTypes
<1>7. CASE Labelling!AddTag(k) \/ Labelling!RemoveTag(k)
  <2>1. drawer \in SUBSET Names
    BY <1>7 DEF TagTypes, Labelling!AddTag, Labelling!RemoveTag
  <2>2. PICK names : Labelling!Apply(k, names) /\ names \in SUBSET Names
    BY <1>7, <2>1 DEF Labelling!AddTag, Labelling!RemoveTag
  <2> QED
    BY <1>3, <2>2
<1>8. CASE Labelling!Put(k) \/ Labelling!Assign(k)
  <2>1. PICK ids \in SUBSET Labelling!Live, door \in {"put", "assign"} :
          Labelling!Start(k, [Labelling!Idle EXCEPT !.kind = door, !.ids = ids, !.at = "check"]) /\ drawer' = drawer
    BY <1>8 DEF Labelling!Put, Labelling!Assign
  <2>2. ids \in SUBSET TagId
    BY <1>2
  <2> QED
    BY <1>4, <2>1, <2>2
<1>9. CASE Labelling!Untag(k)
  <2>1. PICK i \in Labelling!Live :
          Labelling!Start(k, [Labelling!Idle EXCEPT !.kind = "untag", !.ids = {i}, !.at = "unlabel"]) /\ drawer' = drawer
    BY <1>9 DEF Labelling!Untag
  <2> QED
    BY <1>2, <1>4, <2>1
<1> QED
  BY <1>5, <1>6, <1>7, <1>8, <1>9 DEF Labelling!Annotate, Labelling!Categorise, Labelling!ProbeIndexes

LEMMA TaggingKeeps == TaggingInv /\ Labelling!Next => TaggingInv'
<1> SUFFICES ASSUME TaggingInv, Labelling!Next PROVE TaggingInv'
  OBVIOUS
<1>1. CASE Labelling!Open \/ Labelling!Delete
  <2>1. /\ UNCHANGED <<tags, born, labels, note, index, calls, owed, unmet, cut>>
        /\ deleted' \in BOOLEAN /\ (drawer' = drawer \/ drawer' = {})
    BY <1>1 DEF TaggingInv, TagTypes, Labelling!Open, Labelling!Delete, Labelling!rows, Labelling!Listed
  <2>2. TagTypes'
    BY <2>1 DEF TaggingInv, TagTypes
  <2> QED
    BY <2>1, <2>2 DEF TaggingInv, IdsInv, MetInv, ResolvedInv, Resolved, StoredInv, Stored, EntryInv, Pending, Writing,
                      Found, Taken, Labelling!SlugTaken, Labelling!Running, Labelling!Live, Labelling!Terms
<1>2. CASE Labelling!CreateTag
  BY <1>2, AddedKeeps DEF Labelling!CreateTag
<1>3. ASSUME NEW k \in Labelling!Calls, Labelling!Handles(k) PROVE TaggingInv'
  BY <1>3, ListKeeps, CreateKeeps, RelistKeeps, CheckKeeps, ClearKeeps, InsertKeeps, AnnotatesKeeps, ReadTermsKeeps,
     WriteTermsKeeps, UnlabelKeeps, DropTagKeeps DEF Labelling!Handles
<1> QED
  BY <1>1, <1>2, <1>3, StartsKeep DEF Labelling!Next

\* Whatever the drawer, the API, the MCP server and the worker do at once to the
\* tags, the labels and the metadata of an object: taggers converge, an edit
\* nobody met is stored as it is shown, the entry of the index is the one of now
\* unless a door owes it, and the three searches agree.
THEOREM LabelsLeadToObjects == Spec => []LabelsHold
<1> DEFINE Inv == part = "tags" => TaggingInv
<1>1. Init => Inv
  BY InitTagging DEF Init
<1>2. Inv /\ [Next]_<<part, screenVars, moreVars>> => Inv'
  <2> SUFFICES ASSUME Inv, [Next]_<<part, screenVars, moreVars>> PROVE Inv'
    OBVIOUS
  <2>1. part' = part
    BY DEF Next
  <2>2. SUFFICES ASSUME part = "tags" PROVE TaggingInv'
    BY <2>1
  <2>3. CASE Labelling!Next
    BY <2>2, <2>3, TaggingKeeps
  <2>4. CASE UNCHANGED screenVars
    <3>1. UNCHANGED <<tags, born, labels, note, index, deleted, drawer, calls, owed, unmet, cut>>
      BY <2>4 DEF screenVars, tagVars
    <3> QED
      BY <2>2, <3>1 DEF TaggingInv, TagTypes, IdsInv, MetInv, ResolvedInv, Resolved, StoredInv, Stored, EntryInv,
                        Pending, Writing, Found, Taken, Labelling!SlugTaken, Labelling!Running, Labelling!Live,
                        Labelling!Terms
  <2> QED
    BY <2>2, <2>3, <2>4 DEF Next
<1>3. Inv => LabelsHold
  BY TaggingIsSound DEF LabelsHold
<1> QED
  BY <1>1, <1>2, <1>3, PTL DEF Spec

-----------------------------------------------------------------------------
(* Sets of at most one, and sequences *)

AtMostOne(S) == \A x, y \in S : x = y

\* A set of at most one has at most one.
LEMMA CountsOne ==
  ASSUME NEW S, AtMostOne(S)
  PROVE  Cardinality(S) \in Nat /\ Cardinality(S) <= 1 /\ (Cardinality(S) = 1 <=> S # {})
<1>1. CASE S = {}
  BY <1>1, FS_EmptySet
<1>2. CASE S # {}
  <2>1. PICK x : S = {x}
    BY <1>2 DEF AtMostOne
  <2> QED
    BY <2>1, FS_Singleton
<1> QED
  BY <1>1, <1>2

\* A function on 1..n is a sequence.
LEMMA FunIsSeq ==
  ASSUME NEW S, NEW n \in Nat, NEW f \in [1..n -> S]
  PROVE  f \in Seq(S) /\ Len(f) = n
  OBVIOUS

\* A sequence without one of its elements.
LEMMA Without ==
  ASSUME NEW S, NEW s \in Seq(S), NEW i \in 1..Len(s)
  PROVE  LET t == SubSeq(s, 1, i - 1) \o SubSeq(s, i + 1, Len(s)) IN
         t \in Seq(S) /\ Len(t) = Len(s) - 1
<1>1. Len(s) \in Nat /\ i \in 1..Len(s) /\ \A n \in 1..Len(s) : s[n] \in S
  OBVIOUS
<1> DEFINE before == SubSeq(s, 1, i - 1)
           after == SubSeq(s, i + 1, Len(s))
<1>2. before \in Seq(S) /\ Len(before) = IF 1 <= i - 1 THEN i - 1 - 1 + 1 ELSE 0
  BY <1>1, SubSeqProperties
<1>3. /\ after \in Seq(S)
      /\ Len(after) = IF i + 1 <= Len(s) THEN Len(s) - (i + 1) + 1 ELSE 0
  BY <1>1, SubSeqProperties
<1> HIDE DEF before, after
<1>4. before \o after \in Seq(S) /\ Len(before \o after) = Len(before) + Len(after)
  BY <1>2, <1>3, ConcatProperties
<1>5. Len(before) + Len(after) = Len(s) - 1
  <2>1. Len(before) = i - 1
    BY <1>1, <1>2
  <2>2. Len(after) = Len(s) - i
    BY <1>1, <1>3
  <2> QED
    BY <1>1, <2>1, <2>2
<1>6. before \o after \in Seq(S) /\ Len(before \o after) = Len(s) - 1
  BY <1>4, <1>5
<1> QED
  BY <1>6 DEF before, after

-----------------------------------------------------------------------------
(* The search screen *)

TextOrNone == Texts \cup {Searching!Empty}
SearchKey == [text : TextOrNone, kinds : SUBSET Searching!Kinds, tags : SUBSET Searching!TagNames]

SearchTypes ==
  /\ typed \in TextOrNone /\ searched \in TextOrNone
  /\ chosen \in SUBSET (Searching!Kinds \cup Searching!TagNames)
  /\ options \in [kinds : SUBSET Searching!Kinds, tags : SUBSET Searching!TagNames]
  /\ wanted \in SearchKey
  /\ asked \in SUBSET SearchKey /\ \A key \in asked : key.text \in Texts
  /\ cache \in SUBSET [key : SearchKey, found : SUBSET Items]

\* What is kept under a key is what its text and filters find.
CacheInv == \A a \in cache : a.key.text \in Texts /\ a.found = Searching!Found(a.key)

\* The key asked for last has the text let through, and filters that are chosen.
WantedInv == wanted.text = searched /\ wanted.kinds \subseteq chosen /\ wanted.tags \subseteq chosen

SearchInv == SearchTypes /\ CacheInv /\ WantedInv

\* What the cache answers for a key is what that key finds, or nothing.
LEMMA AnswersAre ==
  ASSUME NEW entries, NEW key, \A a \in entries : a.found = Searching!Found(a.key)
  PROVE  /\ Searching!Answers(key, entries) = {} \/ Searching!Answers(key, entries) = {Searching!Found(key)}
         /\ (\E a \in entries : a.key = key) => Searching!Answers(key, entries) = {Searching!Found(key)}
  BY DEF Searching!Answers

\* The invariant of the search screen says what its property says.
LEMMA SearchIsSound == SearchInv => Searching!TypeOK /\ Searching!AnswersItsText
<1> SUFFICES ASSUME SearchInv PROVE Searching!TypeOK /\ Searching!AnswersItsText
  OBVIOUS
<1> USE DEF SearchInv
<1>1. ASSUME NEW a \in cache PROVE Searching!Cardinality(Searching!Answers(a.key, cache)) = 1
  <2>1. Searching!Answers(a.key, cache) = {Searching!Found(a.key)}
    BY AnswersAre DEF CacheInv
  <2>2. \A S : Searching!Cardinality(S) = Cardinality(S)
    BY Zenon DEF Searching!Cardinality, Cardinality
  <2> QED
    BY <2>1, <2>2, FS_Singleton
<1>2. Searching!TypeOK
  <2>1. \A key \in asked \cup {a.key : a \in cache} : key.text \in Texts
    BY DEF SearchTypes, CacheInv
  <2>2. \A a \in cache : a.found \subseteq Items
    BY DEF SearchTypes
  <2> QED
    BY <1>1, <2>1, <2>2 DEF SearchTypes, TextOrNone, Searching!TypeOK
<1>3. Searching!Answers(wanted, cache) = {} \/ Searching!Answers(wanted, cache) = {Searching!Found(wanted)}
  BY AnswersAre DEF CacheInv
<1>4. \A i \in Searching!Shown : searched \in FoundBy[i]
  BY <1>3 DEF Searching!Shown, Searching!Found, WantedInv
<1>5. ASSUME searched # Searching!Empty, Searching!Answers(wanted, cache) # {},
             NEW i \in Items, searched \in FoundBy[i], chosen \subseteq TagsOf[i] \cup {KindOf[i]}
      PROVE  i \in Searching!Shown
  <2>1. Searching!Shown = Searching!Found(wanted)
    BY <1>3, <1>5 DEF Searching!Shown
  <2>2. Searching!Kinds \cap Searching!TagNames = {} /\ KindOf[i] \in Searching!Kinds /\ TagsOf[i] \subseteq Searching!TagNames
    BY SearchingAssumption DEF Searching!SearchAssumption, Searching!Kinds, Searching!TagNames
  <2>3. wanted.kinds \subseteq Searching!Kinds /\ wanted.tags \subseteq Searching!TagNames
    BY DEF SearchTypes, SearchKey
  <2>4. wanted.kinds = {} \/ KindOf[i] \in wanted.kinds
    BY <1>5, <2>2, <2>3 DEF WantedInv
  <2>5. wanted.tags = {} \/ TagsOf[i] \cap wanted.tags # {}
    BY <1>5, <2>2, <2>3 DEF WantedInv
  <2> QED
    BY <1>5, <2>1, <2>4, <2>5 DEF Searching!Found, WantedInv
<1> QED
  BY <1>2, <1>4, <1>5 DEF Searching!AnswersItsText

\* It holds at first.
LEMMA InitSearch == Searching!Init => SearchInv
  BY DEF Searching!Init, SearchInv, SearchTypes, CacheInv, WantedInv, SearchKey, TextOrNone, Searching!Key,
         Searching!NoOptions

\* A render of a text that is let through, with the labels chosen then.
LEMMA SearchRenders ==
  ASSUME SearchInv, typed' \in TextOrNone, searched' \in TextOrNone,
         chosen' \in SUBSET (Searching!Kinds \cup Searching!TagNames),
         cache' \in SUBSET [key : SearchKey, found : SUBSET Items], CacheInv',
         NEW before \in SUBSET asked, Searching!Render(searched', chosen', cache', before)
  PROVE  SearchInv'
<1> USE DEF SearchInv
<1>1. PICK filters \in Searching!ServerFilters(chosen', options) :
        LET key == Searching!Key(searched', filters)
            answers == Searching!Answers(key, cache')
        IN /\ wanted' = key
           /\ asked' = before \cup (IF searched' # Searching!Empty /\ answers = {} THEN {key} ELSE {})
           /\ options' = IF answers = {} THEN Searching!NoOptions ELSE Searching!Facets(UNION answers)
  BY DEF Searching!Render
<1>2. /\ filters.kinds \subseteq chosen' /\ filters.kinds \subseteq Searching!Kinds
      /\ filters.tags \subseteq chosen' /\ filters.tags \subseteq Searching!TagNames
  BY DEF Searching!ServerFilters, SearchTypes
<1> DEFINE key == Searching!Key(searched', filters)
           answers == Searching!Answers(key, cache')
<1>3. key \in SearchKey /\ key.text = searched' /\ key.kinds = filters.kinds /\ key.tags = filters.tags
  BY <1>2 DEF SearchKey, Searching!Key
<1>4. /\ wanted' = key /\ asked' = before \cup (IF searched' # Searching!Empty /\ answers = {} THEN {key} ELSE {})
      /\ options' = IF answers = {} THEN Searching!NoOptions ELSE Searching!Facets(UNION answers)
  BY <1>1
<1>5. answers = {} \/ answers = {Searching!Found(key)}
  BY AnswersAre DEF CacheInv
<1> HIDE DEF key, answers
<1>6. options' \in [kinds : SUBSET Searching!Kinds, tags : SUBSET Searching!TagNames]
  <2>1. CASE answers = {}
    BY <1>4, <2>1 DEF Searching!NoOptions
  <2>2. CASE answers = {Searching!Found(key)}
    <3>1. options' = Searching!Facets(Searching!Found(key))
      BY <1>4, <2>2
    <3>2. Searching!Found(key) \subseteq Items
      BY DEF Searching!Found
    <3>3. /\ {KindOf[i] : i \in Searching!Found(key)} \subseteq Searching!Kinds
          /\ UNION {TagsOf[i] : i \in Searching!Found(key)} \subseteq Searching!TagNames
      BY <3>2 DEF Searching!Kinds, Searching!TagNames
    <3> QED
      BY <3>1, <3>3 DEF Searching!Facets
  <2> QED
    BY <1>5, <2>1, <2>2
<1>7. asked' \in SUBSET SearchKey /\ \A k \in asked' : k.text \in Texts
  BY <1>3, <1>4 DEF SearchTypes, TextOrNone
<1>8. SearchTypes'
  BY <1>3, <1>4, <1>6, <1>7 DEF SearchTypes
<1>9. WantedInv'
  BY <1>2, <1>3, <1>4 DEF WantedInv
<1> QED
  BY <1>8, <1>9

\* Every step of the search screen keeps its invariant.
LEMMA SearchKeeps == SearchInv /\ Searching!Next => SearchInv'
<1> SUFFICES ASSUME SearchInv, Searching!Next PROVE SearchInv'
  OBVIOUS
<1> USE DEF SearchInv
<1>1. /\ typed \in TextOrNone /\ searched \in TextOrNone
      /\ chosen \in SUBSET (Searching!Kinds \cup Searching!TagNames)
      /\ cache \in SUBSET [key : SearchKey, found : SUBSET Items] /\ CacheInv
  BY DEF SearchTypes
<1>2. UNCHANGED cache => CacheInv'
  BY DEF CacheInv
<1>3. CASE Searching!Pause
  <2>1. searched' = typed /\ Searching!Render(searched', chosen', cache', asked) /\ UNCHANGED <<typed, chosen, cache>>
    BY <1>3 DEF Searching!Pause
  <2> QED
    BY <1>1, <1>2, <2>1, SearchRenders
<1>4. CASE Searching!RendersAgain
  <2>1. Searching!Render(searched', chosen', cache', asked) /\ UNCHANGED <<typed, searched, chosen, cache>>
    BY <1>4 DEF Searching!RendersAgain
  <2> QED
    BY <1>1, <1>2, <2>1, SearchRenders
<1>5. ASSUME NEW text \in Texts, Searching!Types(text) PROVE SearchInv'
  <2>1. typed' = text /\ Searching!Render(searched', chosen', cache', asked) /\ UNCHANGED <<searched, chosen, cache>>
    BY <1>5 DEF Searching!Types
  <2>2. typed' \in TextOrNone
    BY <2>1 DEF TextOrNone
  <2> QED
    BY <1>1, <1>2, <2>1, <2>2, SearchRenders
<1>6. ASSUME NEW label \in Searching!Kinds \cup Searching!TagNames, Searching!Toggle(label) PROVE SearchInv'
  <2>1. /\ chosen' = (IF label \in chosen THEN chosen \ {label} ELSE chosen \cup {label})
        /\ Searching!Render(searched', chosen', cache', asked) /\ UNCHANGED <<typed, searched, cache>>
    BY <1>6 DEF Searching!Toggle
  <2>2. chosen' \in SUBSET (Searching!Kinds \cup Searching!TagNames)
    BY <1>1, <2>1
  <2> QED
    BY <1>1, <1>2, <2>1, <2>2, SearchRenders
<1>7. ASSUME NEW key \in asked, Searching!Lands(key) PROVE SearchInv'
  <2>1. /\ cache' = {a \in cache : a.key # key} \cup {[key |-> key, found |-> Searching!Found(key)]}
        /\ UNCHANGED <<typed, searched, chosen>>
    BY <1>7 DEF Searching!Lands
  <2>2. key \in SearchKey /\ key.text \in Texts /\ Searching!Found(key) \in SUBSET Items
    BY DEF SearchTypes, Searching!Found
  <2>3. cache' \in SUBSET [key : SearchKey, found : SUBSET Items]
    BY <1>1, <2>1, <2>2
  <2>4. CacheInv'
    BY <2>1, <2>2 DEF CacheInv
  <2>5. CASE key = wanted
    <3>1. Searching!Render(searched', chosen', cache', asked \ {key})
      BY <1>7, <2>1, <2>5 DEF Searching!Lands
    <3>2. asked \ {key} \in SUBSET asked
      OBVIOUS
    <3> QED
      BY <1>1, <2>1, <2>3, <2>4, <3>1, <3>2, SearchRenders
  <2>6. CASE key # wanted
    <3>1. asked' = asked \ {key} /\ UNCHANGED <<options, wanted>>
      BY <1>7, <2>6 DEF Searching!Lands
    <3>2. SearchTypes'
      BY <2>1, <2>3, <3>1 DEF SearchTypes
    <3> QED
      BY <2>1, <2>4, <3>1, <3>2 DEF WantedInv
  <2> QED
    BY <2>5, <2>6
<1> QED
  BY <1>3, <1>4, <1>5, <1>6, <1>7 DEF Searching!Next

-----------------------------------------------------------------------------
(* The endless list *)

Pages == [data : Seq(Nat), number : Nat, total : Nat]
Fetches == [mode : {"none", "more", "all"}, read : Pages, total : SUBSET Nat, changed : BOOLEAN]

InPages(l) == Len(l.data) <= l.number * Limit

ResultsTypes ==
  /\ files \in Seq(Nat) /\ \A i \in 1..Len(files) : files[i] \in 1..newest
  /\ newest \in Nat /\ Hits <= newest /\ Len(files) <= newest /\ newest <= Hits + MaxChanges
  /\ pages \in Pages /\ InPages(pages)
  /\ fetch \in Fetches /\ InPages(fetch.read)
  /\ changed \in BOOLEAN /\ inView \in BOOLEAN /\ armed \in BOOLEAN
  /\ missed \in Nat /\ missed <= MaxFails

\* A list of the first rows, and of all of them when its last page is short.
Whole(l) ==
  /\ Len(l.data) <= Len(files) /\ l.data = SubSeq(files, 1, Len(l.data))
  /\ Len(l.data) = l.number * Limit \/ Len(l.data) = Len(files)
  /\ l.number > 0 => l.total = Len(files)

\* What is shown is whole, and what is fetched, unless files have come or gone.
WholeInv ==
  /\ ~changed => Whole(pages)
  /\ ~fetch.changed => Whole(fetch.read)
  /\ ~fetch.changed /\ fetch.read.number = 0 => \A t \in fetch.total : t = Len(files)
  /\ fetch.read.number = 0 => fetch.read = Results!NoPages
  /\ pages.number = 0 => pages = Results!NoPages

ResultsInv == ResultsTypes /\ WholeInv

\* The invariant of the endless list says what its property says.
LEMMA ResultsAreSound == ResultsInv => Results!TypeOK /\ Results!ListIsWhole
<1> SUFFICES ASSUME ResultsInv PROVE Results!TypeOK /\ Results!ListIsWhole
  OBVIOUS
<1> USE DEF ResultsInv
<1>1. Results!TypeOK
  <2>1. newest \in 0..(Hits + MaxChanges) /\ missed \in 0..MaxFails
    BY ResultsAssumption DEF ResultsTypes, Results!InfiniteListAssumption
  <2>2. fetch.mode \in {"none", "more", "all"} /\ fetch.changed \in BOOLEAN
    BY DEF ResultsTypes, Fetches
  <2> QED
    BY <2>1, <2>2 DEF ResultsTypes, InPages, Results!TypeOK
<1>2. Results!ListIsWhole
  <2> SUFFICES ASSUME pages # Results!NoPages, ~changed
               PROVE  /\ Len(pages.data) <= Len(files) /\ pages.data = SubSeq(files, 1, Len(pages.data))
                      /\ ~Results!HasNext(pages) => pages.data = files
    BY DEF Results!ListIsWhole
  <2>1. Whole(pages) /\ pages.number > 0 /\ pages.data \in Seq(Nat) /\ Len(pages.data) \in Nat /\ Len(files) \in Nat
    BY DEF WholeInv, ResultsTypes, Pages
  <2>2. SubSeq(pages.data, 1, Len(pages.data)) = pages.data /\ SubSeq(files, 1, Len(files)) = files
    BY SubSeqFull DEF ResultsTypes, Pages
  <2>3. ASSUME ~Results!HasNext(pages) PROVE pages.data = files
    BY <2>1, <2>2, <2>3 DEF Whole, Results!HasNext
  <2> QED
    BY <2>1, <2>3 DEF Whole
<1> QED
  BY <1>1, <1>2

\* No pages are whole.
LEMMA NoPagesFit ==
  ASSUME files \in Seq(Nat)
  PROVE  /\ Results!NoPages \in Pages /\ InPages(Results!NoPages) /\ Whole(Results!NoPages)
         /\ Results!NoPages.number = 0
<1>1. Limit \in Nat /\ 0 * Limit = 0 /\ Len(files) \in Nat
  BY ResultsAssumption, LenProperties DEF Results!InfiniteListAssumption
<1>2. Results!NoPages.data = <<>> /\ Results!NoPages.number = 0 /\ Results!NoPages.total = 0
  BY DEF Results!NoPages
<1>3. <<>> \in Seq(Nat) /\ Len(<<>>) = 0 /\ SubSeq(files, 1, 0) = <<>>
  BY EmptySeq, SubSeqEmpty
<1>4. Results!NoPages \in Pages
  BY <1>3 DEF Pages, Results!NoPages
<1> QED
  BY <1>1, <1>2, <1>3, <1>4 DEF InPages, Whole

\* It holds at first.
LEMMA InitResults == Results!Init => ResultsInv
<1> SUFFICES ASSUME Results!Init PROVE ResultsInv
  OBVIOUS
<1> USE ResultsAssumption DEF Results!InfiniteListAssumption
<1>1. files \in Seq(Nat) /\ Len(files) = Hits /\ \A i \in 1..Hits : files[i] \in 1..newest
  <2>1. files = [i \in 1..Hits |-> Hits + 1 - i] /\ newest = Hits
    BY DEF Results!Init
  <2>2. files \in [1..Hits -> Nat]
    BY <2>1
  <2> QED
    BY <2>1, <2>2, FunIsSeq
<1>2. fetch = [mode |-> "all", read |-> Results!NoPages, total |-> {}, changed |-> FALSE] /\ pages = Results!NoPages
  BY DEF Results!Init, Results!Fetch
<1>3. fetch \in Fetches
  BY <1>1, <1>2, NoPagesFit DEF Fetches
<1>4. ResultsTypes
  <2>1. /\ newest = Hits /\ changed = FALSE /\ inView = TRUE /\ armed = FALSE /\ missed = 0
        /\ Hits \in Nat /\ MaxChanges \in Nat /\ MaxFails \in Nat
    BY DEF Results!Init
  <2>2. pages \in Pages /\ InPages(pages) /\ fetch.read = Results!NoPages /\ InPages(fetch.read)
    BY <1>1, <1>2, NoPagesFit
  <2> QED
    <3>1. /\ files \in Seq(Nat) /\ \A i \in 1..Len(files) : files[i] \in 1..newest
          /\ newest \in Nat /\ Hits <= newest /\ Len(files) <= newest /\ newest <= Hits + MaxChanges
          /\ missed \in Nat /\ missed <= MaxFails
      BY <1>1, <2>1
    <3> QED
      BY <1>3, <2>1, <2>2, <3>1 DEF ResultsTypes
<1> QED
  BY <1>1, <1>2, <1>4, NoPagesFit DEF ResultsInv, WholeInv

\* The rows of a page.
LEMMA PageRows ==
  ASSUME files \in Seq(Nat), NEW offset \in Nat
  PROVE  LET to == IF offset + Limit < Len(files) THEN offset + Limit ELSE Len(files) IN
         /\ Results!PageAt(offset) = SubSeq(files, offset + 1, to)
         /\ Results!PageAt(offset) \in Seq(Nat) /\ Len(Results!PageAt(offset)) <= Limit
         /\ Len(Results!PageAt(offset)) = IF offset + 1 <= to THEN to - offset ELSE 0
<1> DEFINE to == IF offset + Limit < Len(files) THEN offset + Limit ELSE Len(files)
<1>1. Limit \in Nat \ {0} /\ Len(files) \in Nat
  BY ResultsAssumption, LenProperties DEF Results!InfiniteListAssumption
<1>2. Results!PageAt(offset) = SubSeq(files, offset + 1, to)
  BY DEF Results!PageAt
<1>3. to \in Nat /\ to <= Len(files) /\ to <= offset + Limit
  BY <1>1
<1> HIDE DEF to
<1>4. \A i \in (offset + 1)..to : files[i] \in Nat
  BY <1>1, <1>3
<1>5. /\ SubSeq(files, offset + 1, to) \in Seq(Nat)
      /\ Len(SubSeq(files, offset + 1, to)) = IF offset + 1 <= to THEN to - (offset + 1) + 1 ELSE 0
  BY <1>3, <1>4, SubSeqProperties
<1>6. /\ Len(Results!PageAt(offset)) <= Limit
      /\ Len(Results!PageAt(offset)) = IF offset + 1 <= to THEN to - offset ELSE 0
  BY <1>1, <1>2, <1>3, <1>5
<1> QED
  BY <1>2, <1>5, <1>6 DEF to

\* A page more: a whole list stays whole.
LEMMA PageMore ==
  ASSUME ResultsInv, fetch.total # {}
  PROVE  LET l == Results!WithPage(fetch.read) IN
         /\ l \in Pages /\ InPages(l) /\ l.number > 0
         /\ ~fetch.changed => Whole(l)
<1> USE DEF ResultsInv
<1> DEFINE l == fetch.read
           more == Results!PageAt(Results!RowOffset(l))
           t == IF l.number = 0 THEN CHOOSE u \in fetch.total : TRUE ELSE l.total
<1>1. Limit \in Nat \ {0} /\ files \in Seq(Nat) /\ Len(files) \in Nat
  BY ResultsAssumption DEF Results!InfiniteListAssumption, ResultsTypes
<1>2. /\ l \in Pages /\ InPages(l) /\ l.data \in Seq(Nat) /\ Len(l.data) \in Nat /\ l.number \in Nat /\ l.total \in Nat
      /\ fetch.total \in SUBSET Nat
  BY DEF ResultsTypes, Fetches, Pages
<1>3. l.number * Limit \in Nat /\ (l.number + 1) * Limit = l.number * Limit + Limit
  BY <1>1, <1>2
<1>4. Results!RowOffset(l) \in {Len(l.data), l.number * Limit} /\ Results!RowOffset(l) \in Nat
  BY <1>2, <1>3 DEF Results!RowOffset
<1>5. t \in Nat /\ (~fetch.changed => t = Len(files))
  BY <1>2 DEF WholeInv, Whole
<1>6. Results!WithPage(l) = [data |-> l.data \o more, number |-> l.number + 1, total |-> t]
  BY DEF Results!WithPage
<1> DEFINE offset == Results!RowOffset(l)
           to == IF offset + Limit < Len(files) THEN offset + Limit ELSE Len(files)
<1>7. /\ more = SubSeq(files, offset + 1, to) /\ more \in Seq(Nat) /\ Len(more) <= Limit
      /\ Len(more) = IF offset + 1 <= to THEN to - offset ELSE 0
  BY <1>1, <1>4, PageRows
<1>8. offset \in Nat /\ to \in Nat /\ to <= Len(files) /\ to <= offset + Limit /\ (to < Len(files) => to = offset + Limit)
  BY <1>1, <1>4
<1>9. l.data \o more \in Seq(Nat) /\ Len(l.data \o more) = Len(l.data) + Len(more)
  BY <1>2, <1>7, ConcatProperties
<1>10. offset = Len(l.data) \/ offset = l.number * Limit
  BY <1>4
<1> HIDE DEF l, more, t, offset, to
<1> DEFINE w == [data |-> l.data \o more, number |-> l.number + 1, total |-> t]
<1>11. w \in Pages /\ w.data = l.data \o more /\ w.number = l.number + 1 /\ w.total = t
  BY <1>2, <1>5, <1>9 DEF Pages
<1> HIDE DEF w
<1>12. InPages(w) /\ w.number > 0
  <2>1. Len(l.data) <= l.number * Limit
    BY <1>2 DEF InPages
  <2> QED
    <3>1. w.number * Limit = l.number * Limit + Limit
      BY <1>3, <1>11
    <3>2. Len(w.data) = Len(l.data) + Len(more)
      BY <1>9, <1>11
    <3>3. Len(more) \in Nat /\ Len(more) <= Limit
      BY <1>7, LenProperties
    <3> QED
      BY <1>1, <1>2, <1>3, <1>11, <2>1, <3>1, <3>2, <3>3 DEF InPages
<1>13. ASSUME ~fetch.changed PROVE Whole(w)
  <2>1. Whole(l)
    BY <1>13 DEF WholeInv, l
  <2>2. /\ Len(l.data) <= Len(files) /\ l.data = SubSeq(files, 1, Len(l.data))
        /\ Len(l.data) = l.number * Limit \/ Len(l.data) = Len(files)
        /\ Len(l.data) <= l.number * Limit
    BY <1>2, <2>1 DEF Whole, InPages
  <2>3. CASE Len(l.data) = Len(files)
    <3>1. offset >= Len(files)
      BY <1>1, <1>2, <1>3, <1>8, <1>10, <2>2, <2>3
    <3>2. Len(more) = 0
      BY <1>1, <1>7, <1>8, <3>1
    <3>3. more = <<>>
      BY <1>7, <3>2, EmptySeq
    <3>4. w.data = l.data
      BY <1>2, <1>11, <3>3, ConcatEmptySeq
    <3> QED
      BY <1>5, <1>11, <1>13, <2>2, <2>3, <3>4 DEF Whole
  <2>4. CASE Len(l.data) # Len(files)
    <3>1. offset = Len(l.data) /\ Len(l.data) = l.number * Limit /\ offset < Len(files)
      BY <1>1, <1>2, <1>10, <2>2, <2>4
    <3>2. Len(more) = to - offset /\ offset < to
      <4>1. offset < to
        BY <1>1, <1>8, <3>1
      <4>2. offset + 1 <= to
        BY <1>8, <4>1
      <4> QED
        BY <1>7, <4>1, <4>2
    <3>3. l.data \o more = SubSeq(files, 1, to)
      <4>1. 1 \in 1..Len(files) + 1 /\ offset \in 0..Len(files) /\ to \in offset..Len(files)
        BY <1>1, <1>8, <3>1, <3>2
      <4>2. 1 - 1 = 0
        OBVIOUS
      <4>3. SubSeq(files, 1, offset) \o SubSeq(files, offset + 1, to) = SubSeq(files, 1, to)
        BY <1>1, <4>1, <4>2, ConcatAdjacentSubSeq
      <4> QED
        BY <1>7, <2>2, <3>1, <4>3
    <3>4. Len(w.data) = to
      BY <1>2, <1>8, <1>9, <1>11, <3>1, <3>2
    <3>5. to = Len(files) \/ to = (l.number + 1) * Limit
      BY <1>1, <1>3, <1>8, <3>1
    <3> QED
      BY <1>5, <1>8, <1>11, <1>13, <3>3, <3>4, <3>5 DEF Whole
  <2> QED
    BY <2>3, <2>4
<1> QED
  BY <1>6, <1>11, <1>12, <1>13 DEF w, l

\* A file comes or goes: what is shown and what is fetched are noted as old.
LEMMA ListChanges ==
  ASSUME ResultsInv, Results!Touched, files' \in Seq(1..newest'), newest' \in Nat,
         newest <= newest', Len(files') <= newest', newest' <= Hits + MaxChanges
  PROVE  ResultsInv'
<1> USE DEF ResultsInv
<1>1. /\ changed' = TRUE /\ fetch' = [fetch EXCEPT !.changed = TRUE] /\ UNCHANGED <<pages, inView, armed, missed>>
  BY DEF Results!Touched
<1>2. /\ fetch' \in Fetches /\ fetch'.changed = TRUE /\ fetch'.read = fetch.read
  BY <1>1 DEF ResultsTypes, Fetches
<1>3. 1..newest' \subseteq Nat
  OBVIOUS
<1>4. files' \in Seq(Nat) /\ \A i \in 1..Len(files') : files'[i] \in 1..newest'
  BY <1>3, SeqMonotonic
<1>5. Hits <= newest'
  BY ResultsAssumption DEF ResultsTypes, Results!InfiniteListAssumption
<1>6. ResultsTypes'
  BY <1>1, <1>2, <1>4, <1>5 DEF ResultsTypes, InPages
<1>7. WholeInv'
  BY <1>1, <1>2 DEF WholeInv
<1> QED
  BY <1>6, <1>7

\* Every step of the endless list keeps its invariant.
LEMMA ResultsKeep == ResultsInv /\ Results!Next => ResultsInv'
<1> SUFFICES ASSUME ResultsInv, Results!Next PROVE ResultsInv'
  OBVIOUS
<1> USE DEF ResultsInv
<1>0. /\ Limit \in Nat \ {0} /\ Hits \in Nat /\ MaxChanges \in Nat /\ MaxFails \in Nat
      /\ files \in Seq(Nat) /\ Len(files) \in Nat /\ newest \in Nat /\ fetch \in Fetches /\ pages \in Pages
  BY ResultsAssumption DEF Results!InfiniteListAssumption, ResultsTypes
<1>1. files \in Seq(1..newest)
  <2>1. files \in [1..Len(files) -> 1..newest]
    BY <1>0 DEF ResultsTypes
  <2> QED
    BY <1>0, <2>1, FunIsSeq
<1>2. \A mode \in {"none", "more", "all"}, l \in Pages, since \in BOOLEAN :
        LET f == Results!Fetch(mode, l, since) IN
        f \in Fetches /\ f.read = l /\ f.total = {} /\ f.changed = since
  BY DEF Results!Fetch, Fetches
<1>3. /\ Results!NoPages \in Pages /\ InPages(Results!NoPages) /\ Whole(Results!NoPages)
      /\ Results!NoPages.number = 0
  BY <1>0, NoPagesFit
<1>4. /\ Results!Idle \in Fetches /\ Results!Idle.read = Results!NoPages /\ Results!Idle.total = {}
      /\ Results!Idle.changed = FALSE
  BY <1>2, <1>3 DEF Results!Idle
<1>5. CASE Results!Counts
  <2>1. /\ fetch' = [fetch EXCEPT !.total = {Len(files)}, !.changed = fetch.changed /\ fetch.read # Results!NoPages]
        /\ UNCHANGED <<files, newest, pages, changed, inView, armed, missed>>
    BY <1>5 DEF Results!Counts
  <2>2. /\ fetch' \in Fetches /\ fetch'.read = fetch.read /\ fetch'.total = {Len(files)}
        /\ fetch'.changed = (fetch.changed /\ fetch.read # Results!NoPages)
    BY <1>0, <2>1 DEF Fetches
  <2>3. ResultsTypes'
    BY <2>1, <2>2 DEF ResultsTypes, InPages
  <2>4. WholeInv'
    BY <1>3, <2>1, <2>2 DEF WholeInv, Whole
  <2> QED
    BY <2>3, <2>4
<1>6. CASE Results!Reads
  <2> DEFINE l == Results!WithPage(fetch.read)
  <2>1. fetch.total # {} /\ UNCHANGED <<files, newest, missed>>
    BY <1>6 DEF Results!Reads
  <2>2. l \in Pages /\ InPages(l) /\ l.number > 0 /\ (~fetch.changed => Whole(l))
    BY <2>1, PageMore
  <2>3. \/ /\ fetch' = Results!Fetch("all", l, fetch.changed)
           /\ UNCHANGED <<pages, changed, inView, armed>>
        \/ /\ pages' = l /\ changed' = fetch.changed /\ fetch' = Results!Idle
           /\ inView' \in {inView, FALSE}
           /\ armed' \in BOOLEAN
    BY <1>6 DEF Results!Reads
  <2>4. fetch.changed \in BOOLEAN /\ l.number # 0
    BY <1>0, <2>2 DEF Fetches, Pages
  <2> HIDE DEF l
  <2>5. CASE /\ fetch' = Results!Fetch("all", l, fetch.changed)
             /\ UNCHANGED <<pages, changed, inView, armed>>
    <3>1. fetch' \in Fetches /\ fetch'.read = l /\ fetch'.changed = fetch.changed
      BY <1>2, <2>2, <2>4, <2>5
    <3>2. ResultsTypes'
      BY <2>1, <2>2, <2>5, <3>1 DEF ResultsTypes, InPages
    <3>3. WholeInv'
      BY <2>1, <2>2, <2>4, <2>5, <3>1 DEF WholeInv, Whole
    <3> QED
      BY <3>2, <3>3
  <2>6. CASE /\ pages' = l /\ changed' = fetch.changed /\ fetch' = Results!Idle
             /\ inView' \in {inView, FALSE}
             /\ armed' \in BOOLEAN
    <3>1. ResultsTypes'
      BY <1>3, <1>4, <2>1, <2>2, <2>4, <2>6 DEF ResultsTypes, InPages
    <3>2. WholeInv'
      BY <1>3, <1>4, <2>1, <2>2, <2>4, <2>6 DEF WholeInv, Whole
    <3> QED
      BY <3>1, <3>2
  <2> QED
    BY <2>3, <2>5, <2>6
<1>7. CASE Results!SentinelSeen
  <2>1. /\ \/ fetch' = Results!Fetch("more", pages, changed)
           \/ UNCHANGED fetch
        /\ armed' \in BOOLEAN /\ UNCHANGED <<files, newest, pages, changed, inView, missed>>
    BY <1>7 DEF Results!SentinelSeen
  <2>2. CASE fetch' = Results!Fetch("more", pages, changed)
    <3>1. fetch' \in Fetches /\ fetch'.read = pages /\ fetch'.changed = changed /\ fetch'.total = {}
      BY <1>0, <1>2, <2>2 DEF ResultsTypes
    <3>2. ResultsTypes'
      BY <2>1, <3>1 DEF ResultsTypes, InPages
    <3> QED
      BY <2>1, <3>1, <3>2 DEF WholeInv, Whole
  <2>3. CASE UNCHANGED fetch
    <3>1. ResultsTypes'
      BY <2>1, <2>3 DEF ResultsTypes, InPages
    <3> QED
      BY <2>1, <2>3, <3>1 DEF WholeInv, Whole
  <2> QED
    BY <2>1, <2>2, <2>3
<1>8. CASE Results!Scrolls
  <2>1. inView' \in BOOLEAN /\ armed' \in BOOLEAN /\ UNCHANGED <<files, newest, pages, fetch, changed, missed>>
    BY <1>8 DEF Results!Scrolls, Results!HasNext
  <2>2. ResultsTypes'
    BY <2>1 DEF ResultsTypes, InPages
  <2> QED
    BY <2>1, <2>2 DEF WholeInv, Whole
<1>9. CASE Results!Refetch
  <2>1. fetch' = Results!Fetch("all", Results!NoPages, FALSE)
        /\ UNCHANGED <<files, newest, pages, changed, inView, armed, missed>>
    BY <1>9 DEF Results!Refetch
  <2>2. fetch' \in Fetches /\ fetch'.read = Results!NoPages /\ fetch'.total = {}
    BY <1>2, <1>3, <2>1
  <2>3. ResultsTypes'
    BY <1>3, <2>1, <2>2 DEF ResultsTypes, InPages
  <2> QED
    BY <1>3, <2>1, <2>2, <2>3 DEF WholeInv, Whole
<1>10. CASE Results!FetchFails
  <2>1. /\ missed < MaxFails /\ missed' = missed + 1 /\ fetch' = Results!Idle /\ armed' \in BOOLEAN
        /\ UNCHANGED <<files, newest, pages, changed, inView>>
    BY <1>10 DEF Results!FetchFails, ResultsTypes
  <2>2. ResultsTypes'
    BY <1>0, <1>3, <1>4, <2>1 DEF ResultsTypes, InPages
  <2> QED
    BY <1>3, <1>4, <2>1, <2>2 DEF WholeInv, Whole
<1>11. CASE Results!Confirmed
  <2>1. /\ (newest - Hits) + (newest - Len(files)) < MaxChanges
        /\ newest' = newest + 1 /\ files' = <<newest + 1>> \o files /\ Results!Touched
    BY <1>11 DEF Results!Confirmed, Results!Changes
  <2>2. files' \in Seq(1..newest') /\ Len(files') = Len(files) + 1
    <3>1. 1..newest \subseteq 1..newest' /\ newest + 1 \in 1..newest'
      BY <1>0, <2>1
    <3>2. <<newest + 1>> \in Seq(1..newest') /\ Len(<<newest + 1>>) = 1
      BY <3>1
    <3>3. files \in Seq(1..newest')
      BY <1>1, <3>1, SeqMonotonic
    <3>4. <<newest + 1>> \o files \in Seq(1..newest') /\ Len(<<newest + 1>> \o files) = 1 + Len(files)
      BY <3>2, <3>3, ConcatProperties
    <3> QED
      BY <1>0, <2>1, <3>4
  <2>3. Len(files) <= newest /\ Hits <= newest
    BY DEF ResultsTypes
  <2> QED
    BY <1>0, <2>1, <2>2, <2>3, ListChanges
<1>12. ASSUME NEW i \in DOMAIN files, Results!Deleted(i) PROVE ResultsInv'
  <2>1. files' = SubSeq(files, 1, i - 1) \o SubSeq(files, i + 1, Len(files)) /\ newest' = newest /\ Results!Touched
    BY <1>12 DEF Results!Deleted
  <2>2. i \in 1..Len(files)
    BY <1>0, <1>12
  <2>3. files' \in Seq(1..newest') /\ Len(files') = Len(files) - 1
    BY <1>1, <2>1, <2>2, Without
  <2>4. Len(files) <= newest /\ newest <= Hits + MaxChanges
    BY DEF ResultsTypes
  <2> QED
    BY <1>0, <2>1, <2>3, <2>4, ListChanges
<1> QED
  BY <1>5, <1>6, <1>7, <1>8, <1>9, <1>10, <1>11, <1>12 DEF Results!Next

-----------------------------------------------------------------------------
(* The cached queries *)

KnownAs(k, name, key) == k.name = name /\ k.key = key

\* Who reads what.
LEMMA Readers ==
  ASSUME NEW k \in Cached!Queries
  PROVE  /\ "auto" \in k.reads => KnownAs(k, "billing", <<"billing">>)
         /\ "buckets" \in k.reads => KnownAs(k, "buckets", <<"buckets">>)
         /\ "capacity" \in k.reads => KnownAs(k, "usage", <<"usage">>) \/ KnownAs(k, "billing", <<"billing">>)
         /\ "categories" \in k.reads => KnownAs(k, "categories", <<"categories">>)
         /\ "clips" \in k.reads => KnownAs(k, "storyboards", <<"storyboards">>) \/ KnownAs(k, "storyboard", <<"storyboards", "id">>)
         /\ "filing" \in k.reads => KnownAs(k, "categories", <<"categories">>) \/ KnownAs(k, "media", <<"media", "id">>)
         /\ "items" \in k.reads => KnownAs(k, "sets", <<"sets">>) \/ KnownAs(k, "set", <<"sets", "id">>)
         /\ "keys" \in k.reads => KnownAs(k, "apiKeys", <<"apiKeys">>)
         /\ "objects" \in k.reads => KnownAs(k, "buckets", <<"buckets">>) \/ KnownAs(k, "usage", <<"usage">>) \/ KnownAs(k, "billing", <<"billing">>) \/ KnownAs(k, "media", <<"media", "id">>) \/ KnownAs(k, "library", <<"media-infinite">>)
         /\ "order" \in k.reads => KnownAs(k, "storyboard", <<"storyboards", "id">>)
         /\ "plan" \in k.reads => KnownAs(k, "billing", <<"billing">>)
         /\ "sets" \in k.reads => KnownAs(k, "sets", <<"sets">>)
         /\ "storyboards" \in k.reads => KnownAs(k, "storyboards", <<"storyboards">>)
         /\ "tagging" \in k.reads => KnownAs(k, "tags", <<"tags">>) \/ KnownAs(k, "media", <<"media", "id">>)
         /\ "tags" \in k.reads => KnownAs(k, "tags", <<"tags">>)
         /\ "variants" \in k.reads => KnownAs(k, "set", <<"sets", "id">>)
<1> USE DEF Cached!Query, KnownAs
<1>1. CASE k \in Cached!AccountQueries
  BY <1>1 DEF Cached!AccountQueries
<1>2. CASE k \in Cached!CatalogueQueries
  BY <1>2 DEF Cached!CatalogueQueries
<1>3. CASE k \in Cached!LibraryQueries
  BY <1>3 DEF Cached!LibraryQueries
<1> QED
  BY <1>1, <1>2, <1>3 DEF Cached!Queries

\* A hook refreshes a query whose key it names, or the first part of its key.
LEMMA Prefixed ==
  ASSUME NEW m, NEW k \in Cached!Queries
  PROVE  /\ k.key \in m.refreshes => Cached!Refreshes(m, k)
         /\ \A a, b : k.key = <<a, b>> /\ <<a>> \in m.refreshes => Cached!Refreshes(m, k)
<1>1. (\E a : k.key = <<a>>) \/ (\E a, b : k.key = <<a, b>>)
  <2> USE DEF Cached!Query
  <2>1. CASE k \in Cached!AccountQueries
    BY <2>1 DEF Cached!AccountQueries
  <2>2. CASE k \in Cached!CatalogueQueries
    BY <2>2 DEF Cached!CatalogueQueries
  <2>3. CASE k \in Cached!LibraryQueries
    BY <2>3 DEF Cached!LibraryQueries
  <2> QED
    BY <2>1, <2>2, <2>3 DEF Cached!Queries
<1>2. Cached!IsPrefix(k.key, k.key)
  BY <1>1 DEF Cached!IsPrefix
<1>3. \A a, b : Cached!IsPrefix(<<a>>, <<a, b>>)
  BY DEF Cached!IsPrefix
<1> QED
  BY <1>2, <1>3 DEF Cached!Refreshes

\* The hooks that leave a screen behind.
LEMMA LeftBehindBy ==
  ASSUME NEW m, NEW k, ~Cached!LeftOut(m, k)
  PROVE  /\ m.name = "addCapacity" => k.name # "usage"
         /\ m.name = "updateMedia" => k.name # "tags"
         /\ m.name \in {"addItem", "removeItem"} => k.name # "sets"
         /\ m.name \in {"addClip", "removeClip"} => k.name # "storyboards"
         /\ m.name = "deleteMedia" => k.name \notin {"library", "buckets", "usage", "billing"}
  BY DEF Cached!LeftOut, Cached!LeftBehind

\* Every hook names the keys of what it changes, but for the screens left to
\* the next visit.
LEMMA HooksCover ==
  ASSUME NEW m \in Cached!Hooks, NEW k \in Cached!Queries, Cached!Concerns(m, k), ~Cached!LeftOut(m, k)
  PROVE  Cached!Refreshes(m, k)
<1> DEFINE Is(name, writes, refreshes) == m.name = name /\ m.writes = writes /\ m.refreshes = refreshes
<1>0. PICK t \in m.writes : t \in k.reads
  BY DEF Cached!Concerns
<1>1. CASE m \in Cached!BillingHooks
  <2>1. \/ Is("addCapacity", {"capacity"}, {<<"billing">>})
        \/ Is("updateAutoCapacity", {"auto"}, {<<"billing">>})
        \/ Is("downgrade", {"plan", "capacity"}, {<<"billing">>, <<"usage">>})
    BY <1>1 DEF Cached!BillingHooks, Cached!Hook
  <2> QED
    BY <1>0, <2>1, Readers, Prefixed, LeftBehindBy DEF KnownAs
<1>2. CASE m \in Cached!ApiKeyHooks
  <2>1. \/ Is("createKey", {"keys"}, {<<"apiKeys">>})
        \/ Is("revokeKey", {"keys"}, {<<"apiKeys">>})
        \/ Is("rotateKey", {"keys"}, {<<"apiKeys">>})
    BY <1>2 DEF Cached!ApiKeyHooks, Cached!Hook
  <2> QED
    BY <1>0, <2>1, Readers, Prefixed, LeftBehindBy DEF KnownAs
<1>3. CASE m \in Cached!BucketHooks
  <2>1. \/ Is("createBucket", {"buckets"}, {<<"buckets">>})
        \/ Is("deleteBucket", {"buckets"}, {<<"buckets">>})
    BY <1>3 DEF Cached!BucketHooks, Cached!Hook
  <2> QED
    BY <1>0, <2>1, Readers, Prefixed, LeftBehindBy DEF KnownAs
<1>4. CASE m \in Cached!TagHooks
  <2>1. \/ Is("createTag", {"tags"}, {<<"tags">>})
        \/ Is("deleteTag", {"tags", "tagging"}, {<<"tags">>, <<"media">>})
    BY <1>4 DEF Cached!TagHooks, Cached!Hook
  <2> QED
    BY <1>0, <2>1, Readers, Prefixed, LeftBehindBy DEF KnownAs
<1>5. CASE m \in Cached!CategoryHooks
  <2>1. \/ Is("createCategory", {"categories"}, {<<"categories">>})
        \/ Is("deleteCategory", {"categories", "filing"}, {<<"categories">>, <<"media">>})
        \/ Is("setCategories", {"filing"}, {<<"categories">>, <<"media">>})
    BY <1>5 DEF Cached!CategoryHooks, Cached!Hook
  <2> QED
    BY <1>0, <2>1, Readers, Prefixed, LeftBehindBy DEF KnownAs
<1>6. CASE m \in Cached!SetHooks
  <2>1. \/ Is("createSet", {"sets"}, {<<"sets">>})
        \/ Is("deleteSet", {"sets", "items"}, {<<"sets">>})
        \/ Is("addItem", {"items"}, {<<"sets", "id">>})
        \/ Is("removeItem", {"items"}, {<<"sets", "id">>})
        \/ Is("generate", {"variants"}, {<<"sets", "id">>})
    BY <1>6 DEF Cached!SetHooks, Cached!Hook
  <2> QED
    BY <1>0, <2>1, Readers, Prefixed, LeftBehindBy DEF KnownAs
<1>7. CASE m \in Cached!StoryboardHooks
  <2>1. \/ Is("createStoryboard", {"storyboards"}, {<<"storyboards">>})
        \/ Is("deleteStoryboard", {"storyboards", "clips"}, {<<"storyboards">>})
        \/ Is("addClip", {"clips"}, {<<"storyboards", "id">>})
        \/ Is("removeClip", {"clips"}, {<<"storyboards", "id">>})
        \/ Is("reorder", {"order"}, {<<"storyboards", "id">>})
    BY <1>7 DEF Cached!StoryboardHooks, Cached!Hook
  <2> QED
    BY <1>0, <2>1, Readers, Prefixed, LeftBehindBy DEF KnownAs
<1>8. CASE m \in Cached!MediaHooks
  <2>1. \/ Is("deleteMedia", {"objects"}, {<<"media">>})
        \/ Is("updateMedia", {"tagging"}, {<<"media">>})
    BY <1>8 DEF Cached!MediaHooks, Cached!Hook
  <2> QED
    BY <1>0, <2>1, Readers, Prefixed, LeftBehindBy DEF KnownAs
<1> QED
  BY <1>1, <1>2, <1>3, <1>4, <1>5, <1>6, <1>7, <1>8 DEF Cached!Hooks

-----------------------------------------------------------------------------
CacheTypes ==
  /\ query \in Cached!Queries /\ mounted \in BOOLEAN /\ stale \in BOOLEAN
  /\ shown \in SUBSET SUBSET applied /\ AtMostOne(shown)
  /\ fetching \in [on : BOOLEAN, read : SUBSET SUBSET applied] /\ AtMostOne(fetching.read)
  /\ fetching.read # {} => fetching.on
  /\ open \in SUBSET Cached!Hooks /\ applied \in SUBSET Cached!Hooks
  /\ answered \in SUBSET applied /\ slipped \in SUBSET answered /\ open \cap answered = {}
  /\ fails \in Nat /\ fails <= MaxFails

\* What was answered and did not slip in has been read, or will be: whatever is
\* on its way has it, and what is shown has it or is marked.
AnsweredInv ==
  /\ \A m \in open \cup applied : Cached!Concerns(m, query)
  /\ \A m \in answered \ slipped : Cached!Refreshes(m, query) =>
       /\ \A read \in fetching.read : m \in read
       /\ ~stale => \A read \in shown : m \in read

CachedInv == CacheTypes /\ AnsweredInv

\* The invariant of the cached queries says what their property says.
LEMMA CachedIsSound == CachedInv => Cached!TypeOK /\ Cached!AnsweredIsShown
<1> SUFFICES ASSUME CachedInv PROVE Cached!TypeOK /\ Cached!AnsweredIsShown
  OBVIOUS
<1> USE DEF CachedInv
<1>1. Cached!TypeOK
  <2>1. \A S : Cached!Cardinality(S) = Cardinality(S)
    BY Zenon DEF Cached!Cardinality, Cardinality
  <2>2. Cached!Cardinality(shown) <= 1 /\ Cached!Cardinality(fetching.read) <= 1
    BY <2>1, CountsOne DEF CacheTypes
  <2>3. UNION shown \subseteq applied /\ UNION fetching.read \subseteq applied
    BY DEF CacheTypes
  <2>4. fails \in 0..MaxFails
    BY CachedAssumption DEF Cached!QueryCacheAssumption, CacheTypes
  <2> QED
    BY <2>2, <2>3, <2>4 DEF CacheTypes, Cached!TypeOK, Cached!Nothing
<1>2. ASSUME shown # {}, ~stale, NEW m \in answered \ slipped
      PROVE  Cached!LeftOut(m, query) \/ m \in UNION shown
  <2>1. m \in Cached!Hooks /\ query \in Cached!Queries /\ Cached!Concerns(m, query)
    BY DEF CacheTypes, AnsweredInv
  <2>2. Cached!LeftOut(m, query) \/ Cached!Refreshes(m, query)
    BY <2>1, HooksCover
  <2> QED
    BY <1>2, <2>2 DEF AnsweredInv
<1> QED
  BY <1>1, <1>2 DEF Cached!AnsweredIsShown, Cached!Nothing

\* It holds at first.
LEMMA InitCached == Cached!Init => CachedInv
<1> SUFFICES ASSUME Cached!Init PROVE CachedInv
  OBVIOUS
<1>1. fetching = [on |-> TRUE, read |-> {}]
  BY DEF Cached!Init, Cached!Asked, Cached!Nothing
<1>2. fetching \in [on : BOOLEAN, read : SUBSET SUBSET applied] /\ AtMostOne(fetching.read)
  BY <1>1 DEF AtMostOne
<1>3. fails \in Nat /\ fails <= MaxFails
  BY CachedAssumption DEF Cached!Init, Cached!QueryCacheAssumption
<1>4. CacheTypes
  <2>1. /\ query \in Cached!Queries /\ mounted = TRUE /\ shown = {} /\ stale = FALSE
        /\ applied = {} /\ open = {} /\ answered = {} /\ slipped = {}
    BY DEF Cached!Init, Cached!Nothing
  <2>2. AtMostOne(shown)
    BY <2>1 DEF AtMostOne
  <2> QED
    BY <1>1, <1>2, <1>3, <2>1, <2>2 DEF CacheTypes
<1> QED
  BY <1>4 DEF Cached!Init, CachedInv, AnsweredInv

\* Every hook and every screen keeps the invariant of the cached queries.
LEMMA CachedKeeps == CachedInv /\ Cached!Next => CachedInv'
<1> SUFFICES ASSUME CachedInv, Cached!Next PROVE CachedInv'
  OBVIOUS
<1> USE DEF CachedInv
<1>0. /\ Cached!Asked = [on |-> TRUE, read |-> {}] /\ Cached!Idle = [on |-> FALSE, read |-> {}]
      /\ AtMostOne({}) /\ \A x : AtMostOne({x})
  BY DEF Cached!Asked, Cached!Idle, Cached!Nothing, AtMostOne
<1>1. CASE Cached!Served
  <2>1. fetching' = [on |-> TRUE, read |-> {applied}]
    BY <1>1 DEF Cached!Served, Cached!Snapshot
  <2>2. UNCHANGED <<query, mounted, shown, stale, applied, open, answered, slipped, fails>>
    BY <1>1 DEF Cached!Served
  <2> QED
    BY <1>0, <2>1, <2>2 DEF CacheTypes, AnsweredInv
<1>2. CASE Cached!Lands
  BY <1>0, <1>2 DEF Cached!Lands, CacheTypes, AnsweredInv
<1>3. CASE Cached!FetchFails
  BY <1>0, <1>3, CachedAssumption DEF Cached!FetchFails, CacheTypes, AnsweredInv, Cached!QueryCacheAssumption
<1>4. CASE Cached!Refetch
  BY <1>0, <1>4 DEF Cached!Refetch, CacheTypes, AnsweredInv
<1>5. CASE Cached!Leave
  BY <1>5 DEF Cached!Leave, CacheTypes, AnsweredInv
<1>6. CASE Cached!Return
  BY <1>0, <1>6 DEF Cached!Return, CacheTypes, AnsweredInv
<1>7. ASSUME NEW m \in Cached!Hooks, Cached!Mutate(m) PROVE CachedInv'
  BY <1>7 DEF Cached!Mutate, CacheTypes, AnsweredInv
<1>8. ASSUME NEW m \in Cached!Hooks, Cached!Applied(m) PROVE CachedInv'
  BY <1>8 DEF Cached!Applied, CacheTypes, AnsweredInv
<1>9. ASSUME NEW m \in Cached!Hooks, Cached!Answered(m) PROVE CachedInv'
  <2>1. /\ m \in open \cap applied /\ open' = open \ {m} /\ answered' = answered \cup {m}
        /\ UNCHANGED <<query, mounted, shown, applied, fails>>
    BY <1>9 DEF Cached!Answered
  <2>2. CASE Cached!Refreshes(m, query)
    <3>1. /\ stale' = TRUE
          /\ fetching' = IF mounted /\ (shown # {} \/ ~fetching.on) THEN [on |-> TRUE, read |-> {}] ELSE fetching
          /\ slipped' = IF fetching.on /\ (shown = {} \/ ~mounted) THEN slipped \cup {m} ELSE slipped
      BY <1>0, <1>9, <2>2 DEF Cached!Answered, Cached!Invalidated, Cached!Nothing
    <3>2. CacheTypes'
      BY <1>0, <2>1, <3>1 DEF CacheTypes
    <3>3. fetching'.read = {} \/ (fetching' = fetching /\ (m \in slipped' \/ ~fetching.on))
      BY <3>1 DEF CacheTypes
    <3> QED
      BY <2>1, <3>1, <3>2, <3>3 DEF AnsweredInv, CacheTypes
  <2>3. CASE ~Cached!Refreshes(m, query)
    <3>1. UNCHANGED <<stale, fetching, slipped>>
      BY <1>9, <2>3 DEF Cached!Answered
    <3>2. CacheTypes'
      BY <2>1, <3>1 DEF CacheTypes
    <3> QED
      BY <2>1, <2>3, <3>1, <3>2 DEF AnsweredInv
  <2> QED
    BY <2>2, <2>3
<1>10. ASSUME NEW m \in Cached!Hooks, Cached!AnswerLost(m) PROVE CachedInv'
  BY <1>10 DEF Cached!AnswerLost, CacheTypes, AnsweredInv
<1>11. CASE Cached!Uploaded
  <2>1. /\ stale' = TRUE
        /\ fetching' = [on |-> TRUE, read |-> {}] \/ fetching' = fetching
        /\ UNCHANGED <<query, mounted, shown, applied, open, answered, slipped, fails>>
    BY <1>0, <1>11 DEF Cached!Uploaded, Cached!Invalidated
  <2>2. /\ fetching' \in [on : BOOLEAN, read : SUBSET SUBSET applied] /\ AtMostOne(fetching'.read)
        /\ fetching'.read # {} => fetching'.on /\ fetching'.read = fetching.read
    <3>1. CASE fetching' = fetching
      BY <3>1 DEF CacheTypes
    <3>2. CASE fetching' = [on |-> TRUE, read |-> {}]
      <4>1. AtMostOne({})
        BY DEF AtMostOne
      <4> QED
        BY <3>2, <4>1
    <3> QED
      BY <2>1, <3>1, <3>2
  <2>3. CacheTypes'
    BY <2>1, <2>2 DEF CacheTypes
  <2> QED
    BY <2>1, <2>2, <2>3 DEF AnsweredInv
<1> QED
  BY <1>1, <1>2, <1>3, <1>4, <1>5, <1>6, <1>7, <1>8, <1>9, <1>10, <1>11 DEF Cached!Next

-----------------------------------------------------------------------------
(* The panel of auto-capacity *)

Setting == [enabled : BOOLEAN, gb : Nat, pct : Nat, cap : Nat]
AllFields == {"enabled", "gb", "pct", "cap"}
Save ==
  [at : {"sent", "applied", "done", "refused", "lost"}, to : Setting, own : SUBSET AllFields,
   clean : BOOLEAN, late : BOOLEAN, early : BOOLEAN]

AllSaves == 1..Len(saves)
Went(i) == saves[i].at \in {"applied", "done"}

PanelTypes ==
  /\ stored \in Setting /\ form \in Setting
  /\ edited \in SUBSET AllFields /\ unsaved \in SUBSET edited
  /\ data \in SUBSET Setting /\ AtMostOne(data) /\ marked \in BOOLEAN
  /\ loading \in [on : BOOLEAN, read : SUBSET Setting] /\ AtMostOne(loading.read)
  /\ saves \in Seq(Save) /\ Len(saves) <= MaxSaves
  /\ edits \in Nat /\ edits <= MaxEdits /\ lost \in Nat /\ lost <= MaxLost
  /\ kept \in BOOLEAN

\* What has not been edited shows the data; what has been edited and sent is
\* what the last save sends.
FormInv ==
  /\ \A d \in data : \A f \in AllFields \ edited : form[f] = d[f]
  /\ edited # {} /\ unsaved = {} => saves # <<>> /\ saves[Len(saves)].to = form

\* A clean save is alone on its way, over what is stored.
CleanInv ==
  \A i \in AllSaves : saves[i].clean /\ saves[i].at \in {"sent", "applied"} =>
    /\ \A j \in AllSaves : j # i => saves[j].at \notin {"sent", "applied"}
    /\ lost = 0 /\ saves[i].at = "sent" => \A f \in AllFields \ saves[i].own : saves[i].to[f] = stored[f]

\* The data are what is stored, or are marked, or will be by a save that is
\* carried out; so is what a fetch has read.
OnItsWay == \E i \in AllSaves : saves[i].at = "applied"
FreshInv ==
  /\ data = {} => \A i \in AllSaves : saves[i].early
  /\ lost = 0 /\ (\A i \in AllSaves : ~saves[i].early) =>
       /\ \A r \in loading.read : r = stored \/ OnItsWay
       /\ ~marked => \A d \in data : d = stored \/ OnItsWay

\* What is stored is what the last save sent, unless an overtaken one has come
\* after it; and then the panel is filled anew before it shows it.
LastInv ==
  lost = 0 =>
    /\ \A i \in AllSaves : saves[i].at # "lost"
    /\ (\A i \in AllSaves : ~saves[i].late) =>
         \A i \in AllSaves : Went(i) /\ (\A j \in AllSaves : j > i => ~Went(j)) => stored = saves[i].to
    /\ (~kept /\ edited # {} /\ unsaved = {} /\ ~marked /\ saves # <<>> /\ Went(Len(saves))) =>
         stored = saves[Len(saves)].to \/ \E i \in AllSaves : saves[i].late /\ saves[i].at = "applied"

PanelInv == PanelTypes /\ carried = {} /\ FormInv /\ CleanInv /\ FreshInv /\ LastInv

\* Settings that agree on every field are the same.
LEMMA SameSettings ==
  ASSUME NEW s \in Setting, NEW t \in Setting, \A f \in AllFields : s[f] = t[f]
  PROVE  s = t
  BY DEF Setting, AllFields

\* The fields of the form, by name.
LEMMA PanelFields == Panel!Fields = AllFields
  BY PanelAssumption DEF Panel!AutoCapacityAssumption, Panel!Fields, AllFields

\* The invariant of the panel says what its properties say.
LEMMA PanelIsSound == PanelInv => Panel!TypeOK /\ Panel!SavesOnlyEdits /\ Panel!PanelIsStored
<1> SUFFICES ASSUME PanelInv PROVE Panel!TypeOK /\ Panel!SavesOnlyEdits /\ Panel!PanelIsStored
  OBVIOUS
<1> USE DEF PanelInv
<1>1. DOMAIN saves = AllSaves /\ Len(saves) \in Nat /\ \A i \in AllSaves : saves[i] \in Save
  BY DEF PanelTypes, AllSaves
<1>2. Panel!TypeOK
  <2>1. \A S : Panel!Cardinality(S) = Cardinality(S)
    BY Zenon DEF Panel!Cardinality, Cardinality
  <2>2. Panel!Cardinality(data) <= 1 /\ Panel!Cardinality(loading.read) <= 1
    BY <2>1, CountsOne DEF PanelTypes
  <2>3. {DOMAIN stored, DOMAIN form} = {Panel!Fields}
    BY PanelFields DEF PanelTypes, Setting, AllFields
  <2> QED
    BY <2>2, <2>3, PanelFields DEF PanelTypes, Panel!TypeOK
<1>3. Panel!SavesOnlyEdits
  BY DEF Panel!SavesOnlyEdits
<1>4. Panel!PanelIsStored
  <2> SUFFICES ASSUME data # {}, \A i \in AllSaves : saves[i].at \notin {"sent", "applied", "refused"}, ~marked,
                      unsaved = {}, lost = 0, ~kept, \A i \in AllSaves : ~saves[i].early
               PROVE  form = stored
    BY <1>1 DEF Panel!PanelIsStored, Panel!Quiet, Panel!Open, Panel!Early, Panel!Nothing
  <2>1. ~OnItsWay
    BY DEF OnItsWay
  <2>2. PICK d \in data : d = stored
    BY <2>1 DEF FreshInv
  <2>3. CASE edited = {}
    <3>1. \A f \in AllFields : form[f] = stored[f]
      BY <2>2, <2>3 DEF FormInv
    <3> QED
      BY <3>1, SameSettings DEF PanelTypes
  <2>4. CASE edited # {}
    <3>1. saves # <<>> /\ saves[Len(saves)].to = form
      BY <2>4 DEF FormInv
    <3>2. Len(saves) \in AllSaves
      BY <1>1, <3>1, EmptySeq DEF PanelTypes, AllSaves
    <3>3. Went(Len(saves))
      BY <1>1, <3>2 DEF LastInv, Went, Save
    <3> QED
      BY <2>4, <3>1, <3>3 DEF LastInv
  <2> QED
    BY <2>3, <2>4
<1> QED
  BY <1>2, <1>3, <1>4

\* It holds at first.
LEMMA InitPanel == Panel!Init => PanelInv
<1> SUFFICES ASSUME Panel!Init PROVE PanelInv
  OBVIOUS
<1> USE PanelAssumption DEF Panel!AutoCapacityAssumption
<1>1. saves = <<>> /\ Len(saves) = 0 /\ AllSaves = {} /\ saves \in Seq(Save)
  BY EmptySeq DEF Panel!Init, AllSaves
<1>2. loading = [on |-> TRUE, read |-> {}] /\ data = {}
  BY DEF Panel!Init, Panel!Asked, Panel!Nothing
<1>3. PanelTypes
  <2>1. stored \in Setting /\ form \in Setting
    BY DEF Panel!Init, Setting
  <2>2. loading \in [on : BOOLEAN, read : SUBSET Setting] /\ AtMostOne(loading.read) /\ AtMostOne(data)
    BY <1>2 DEF AtMostOne
  <2>3. /\ edited = {} /\ unsaved = {} /\ marked = FALSE /\ kept = FALSE
        /\ edits \in Nat /\ edits <= MaxEdits /\ lost \in Nat /\ lost <= MaxLost /\ Len(saves) <= MaxSaves
    BY <1>1 DEF Panel!Init
  <2> QED
    BY <1>1, <1>2, <2>1, <2>2, <2>3 DEF PanelTypes
<1> QED
  BY <1>1, <1>2, <1>3 DEF Panel!Init, PanelInv, FormInv, CleanInv, FreshInv, LastInv

\* The saves that were sent.
LEMMA SavesAre ==
  ASSUME PanelTypes
  PROVE  Len(saves) \in Nat /\ DOMAIN saves = AllSaves /\ \A i \in AllSaves : saves[i] \in Save
  BY DEF PanelTypes, AllSaves

\* What else a save keeps when it moves on.
OtherSavesStay(s, t) == s.to = t.to /\ s.own = t.own /\ s.clean = t.clean /\ s.early = t.early

\* A save moves on: the others stay what they are.
LEMMA SaveMoves ==
  ASSUME PanelTypes, NEW i \in AllSaves, NEW s \in Save, saves' = [saves EXCEPT ![i] = s]
  PROVE  /\ saves' \in Seq(Save) /\ Len(saves') = Len(saves) /\ AllSaves' = AllSaves
         /\ saves'[i] = s /\ \A j \in AllSaves : j # i => saves'[j] = saves[j]
  BY ExceptSeq DEF PanelTypes, AllSaves

\* A save is done, refused or lost.
LEMMA SaveGoes ==
  ASSUME PanelTypes, NEW i \in AllSaves, NEW place \in {"done", "refused", "lost"}, Panel!Goes(i, place)
  PROVE  /\ saves' \in Seq(Save) /\ Len(saves') = Len(saves) /\ AllSaves' = AllSaves
         /\ saves'[i].at = place /\ saves'[i].late = saves[i].late /\ OtherSavesStay(saves'[i], saves[i])
         /\ \A j \in AllSaves : j # i => saves'[j] = saves[j]
<1> DEFINE s == [saves[i] EXCEPT !.at = place]
<1>1. saves[i] \in Save
  BY SavesAre
<1>2. s \in Save /\ s.at = place /\ s.late = saves[i].late /\ OtherSavesStay(s, saves[i])
  BY <1>1 DEF Save, OtherSavesStay
<1>3. saves' = [saves EXCEPT ![i] = s]
  BY DEF Panel!Goes
<1> HIDE DEF s
<1> QED
  BY <1>2, <1>3, SaveMoves

SaveApplied(s, late) == [s EXCEPT !.at = "applied", !.late = late]

\* A save that is applied is a save.
LEMMA SaveAppliedFits ==
  ASSUME NEW s \in Save, NEW late \in BOOLEAN
  PROVE  LET t == SaveApplied(s, late) IN
         t \in Save /\ t.at = "applied" /\ t.late = late /\ OtherSavesStay(t, s)
  BY DEF Save, OtherSavesStay, SaveApplied

\* A save is sent: those on their way are clean no more.
LEMMA SaveSent ==
  ASSUME PanelTypes, NEW settings \in Setting, NEW own \in SUBSET AllFields, Panel!Persist(settings, own)
  PROVE  /\ saves' \in Seq(Save) /\ Len(saves') = Len(saves) + 1 /\ Len(saves') <= MaxSaves
         /\ AllSaves' = AllSaves \cup {Len(saves')} /\ Len(saves') \notin AllSaves
         /\ \A i \in AllSaves :
              /\ saves'[i].at = saves[i].at /\ saves'[i].to = saves[i].to /\ saves'[i].own = saves[i].own
              /\ saves'[i].late = saves[i].late /\ saves'[i].early = saves[i].early
              /\ saves'[i].clean => saves[i].clean /\ saves[i].at \notin {"sent", "applied"}
         /\ saves'[Len(saves')] =
              [at |-> "sent", to |-> settings, own |-> own, clean |-> Panel!Clean, late |-> FALSE, early |-> data = {}]
         /\ unsaved' = {}
<1> DEFINE over == [i \in AllSaves |-> Panel!Overlapped(saves[i])]
           new == [at |-> "sent", to |-> settings, own |-> own, clean |-> Panel!Clean, late |-> FALSE,
                   early |-> data = {}]
<1>1. Len(saves) \in Nat /\ DOMAIN saves = AllSaves /\ \A i \in AllSaves : saves[i] \in Save
  BY SavesAre
<1>2. saves' = Append(over, new) /\ Len(saves) < MaxSaves /\ unsaved' = {}
  BY <1>1 DEF Panel!Persist, Panel!Nothing
<1>3. ASSUME NEW i \in AllSaves
      PROVE  /\ over[i] \in Save
             /\ over[i].at = saves[i].at /\ over[i].to = saves[i].to /\ over[i].own = saves[i].own
             /\ over[i].late = saves[i].late /\ over[i].early = saves[i].early
             /\ over[i].clean => saves[i].clean /\ saves[i].at \notin {"sent", "applied"}
  BY <1>1 DEF Panel!Overlapped, Save
<1>4. new \in Save
  <2>1. Panel!Clean \in BOOLEAN
    BY DEF Panel!Clean
  <2> QED
    BY <2>1 DEF Save
<1>5. over \in Seq(Save) /\ Len(over) = Len(saves)
  <2>1. over \in [1..Len(saves) -> Save]
    BY <1>3 DEF AllSaves
  <2> QED
    BY <1>1, <2>1, FunIsSeq
<1> HIDE DEF over, new
<1>6. /\ saves' \in Seq(Save) /\ Len(saves') = Len(saves) + 1
      /\ \A i \in 1..Len(saves) : saves'[i] = over[i]
      /\ saves'[Len(saves) + 1] = new
  <2>1. /\ Append(over, new) \in Seq(Save) /\ Len(Append(over, new)) = Len(over) + 1
        /\ \A i \in 1..Len(over) : Append(over, new)[i] = over[i]
        /\ Append(over, new)[Len(over) + 1] = new
    BY <1>4, <1>5, AppendProperties
  <2> QED
    BY <1>2, <1>5, <2>1
<1>7. AllSaves' = AllSaves \cup {Len(saves')} /\ Len(saves') \notin AllSaves /\ Len(saves') <= MaxSaves
  BY <1>1, <1>2, <1>6, PanelAssumption DEF AllSaves, Panel!AutoCapacityAssumption
<1>8. \A i \in AllSaves : saves'[i] = over[i]
  BY <1>6 DEF AllSaves
<1>9. saves'[Len(saves')] = new
  BY <1>6
<1>10. ASSUME NEW i \in AllSaves
       PROVE  /\ saves'[i].at = saves[i].at /\ saves'[i].to = saves[i].to /\ saves'[i].own = saves[i].own
              /\ saves'[i].late = saves[i].late /\ saves'[i].early = saves[i].early
              /\ saves'[i].clean => saves[i].clean /\ saves[i].at \notin {"sent", "applied"}
  <2>1. saves'[i] = over[i]
    BY <1>8
  <2> QED
    BY <1>3, <2>1
<1>11. saves'[Len(saves')] = [at |-> "sent", to |-> settings, own |-> own, clean |-> Panel!Clean, late |-> FALSE,
                              early |-> data = {}]
  BY <1>9 DEF new
<1> QED
  BY <1>2, <1>6, <1>7, <1>10, <1>11

\* A save of the form, with the fields edited so far.
LEMMA PersistKeeps ==
  ASSUME PanelInv, form' \in Setting, edited' \in SUBSET AllFields, edited \subseteq edited',
         \A f \in AllFields \ edited' : form'[f] = form[f],
         Panel!Persist(form', edited'),
         UNCHANGED <<stored, data, marked, loading, edits, lost, carried, kept>>
  PROVE  PanelInv'
<1> USE DEF PanelInv
<1>0. PICK last : last = Len(saves')
  OBVIOUS
<1>1. /\ saves' \in Seq(Save) /\ last = Len(saves) + 1 /\ last <= MaxSaves
      /\ AllSaves' = AllSaves \cup {last} /\ last \notin AllSaves
      /\ \A i \in AllSaves :
           /\ saves'[i].at = saves[i].at /\ saves'[i].to = saves[i].to /\ saves'[i].own = saves[i].own
           /\ saves'[i].late = saves[i].late /\ saves'[i].early = saves[i].early
           /\ saves'[i].clean => saves[i].clean /\ saves[i].at \notin {"sent", "applied"}
      /\ saves'[last] =
           [at |-> "sent", to |-> form', own |-> edited', clean |-> Panel!Clean, late |-> FALSE, early |-> data = {}]
      /\ unsaved' = {}
  BY <1>0, SaveSent
<1>2. /\ saves'[last].at = "sent" /\ saves'[last].to = form' /\ saves'[last].own = edited'
      /\ saves'[last].clean = Panel!Clean /\ saves'[last].late = FALSE /\ saves'[last].early = (data = {})
  BY <1>1
<1>3. saves' # <<>> /\ last \in AllSaves' /\ Len(saves) \in Nat /\ \A i \in AllSaves : i < last /\ i # last
  <2>1. Len(saves) \in Nat
    BY SavesAre
  <2>2. saves' # <<>>
    <3>1. Len(<<>>) = 0 /\ Len(saves') # 0
      BY <1>0, <1>1, <2>1
    <3> QED
      BY <3>1
  <2> QED
    BY <1>1, <2>1, <2>2 DEF AllSaves
<1>4. PanelTypes'
  <2>1. saves' \in Seq(Save) /\ Len(saves') <= MaxSaves /\ unsaved' \in SUBSET edited'
    BY <1>0, <1>1
  <2> QED
    BY <2>1 DEF PanelTypes
<1>5. FormInv'
  BY <1>0, <1>1, <1>2, <1>3 DEF FormInv
<1>6. CleanInv'
  <2>1. CASE Panel!Clean
    <3>1. data # {} /\ ~marked /\ (\A i \in AllSaves : saves[i].at \notin {"sent", "applied"})
          /\ \A i \in AllSaves : ~saves[i].early
      BY <2>1, SavesAre DEF Panel!Clean, Panel!Quiet, Panel!Open, Panel!Early, Panel!Nothing
    <3>2. ASSUME lost = 0, NEW f \in AllFields \ edited' PROVE form'[f] = stored[f]
      <4>1. PICK d \in data : TRUE
        BY <3>1
      <4>2. d = stored
        BY <3>1, <3>2, <4>1 DEF FreshInv, OnItsWay
      <4>3. form[f] = d[f]
        BY <3>2, <4>1 DEF FormInv
      <4> QED
        BY <3>2, <4>2, <4>3
    <3> QED
      BY <1>1, <1>2, <1>3, <3>1, <3>2 DEF CleanInv
  <2>2. CASE ~Panel!Clean
    BY <1>1, <1>2, <1>3, <2>2 DEF CleanInv
  <2> QED
    BY <2>1, <2>2
<1>7. FreshInv'
  <2>1. OnItsWay => OnItsWay'
    BY <1>1 DEF OnItsWay
  <2> QED
    BY <1>1, <1>2, <1>3, <2>1 DEF FreshInv
<1>8. LastInv'
  <2>1. \A i \in AllSaves : Went(i)' = Went(i)
    BY <1>1 DEF Went
  <2>2. ~Went(last)'
    BY <1>2 DEF Went
  <2> QED
    BY <1>0, <1>1, <1>2, <1>3, <2>1, <2>2 DEF LastInv
<1> QED
  BY <1>4, <1>5, <1>6, <1>7, <1>8

\* The step of a fetch, or of nobody: the panel and its saves stay.
LEMMA PanelKeeps == PanelInv /\ Panel!Next => PanelInv'
<1> SUFFICES ASSUME PanelInv, Panel!Next PROVE PanelInv'
  OBVIOUS
<1> USE DEF PanelInv
<1>0. /\ Panel!Asked = [on |-> TRUE, read |-> {}] /\ Panel!Idle = [on |-> FALSE, read |-> {}]
      /\ Panel!Asked \in [on : BOOLEAN, read : SUBSET Setting] /\ Panel!Idle \in [on : BOOLEAN, read : SUBSET Setting]
      /\ AtMostOne({}) /\ \A x : AtMostOne({x})
      /\ MaxLost \in Nat /\ MaxEdits \in Nat
  BY PanelAssumption DEF Panel!Asked, Panel!Idle, Panel!Nothing, AtMostOne, Panel!AutoCapacityAssumption
<1>1. DOMAIN saves = AllSaves /\ Len(saves) \in Nat /\ \A i \in AllSaves : saves[i] \in Save
  BY SavesAre
<1>2. ASSUME NEW f \in Panel!Fields \ {"enabled"}, NEW v \in Offered[f], Panel!Edit(f, v) PROVE PanelInv'
  <2>1. /\ form' = [form EXCEPT ![f] = v] /\ edited' = edited \cup {f} /\ unsaved' = unsaved \cup {f}
        /\ edits < MaxEdits /\ edits' = edits + 1
        /\ UNCHANGED <<stored, data, marked, loading, saves, lost, carried, kept>>
    BY <1>2 DEF Panel!Edit, Panel!queryVars
  <2>2. f \in {"gb", "pct", "cap"} /\ v \in Nat
    BY <1>2, PanelFields, PanelAssumption DEF AllFields, Panel!AutoCapacityAssumption
  <2>3. form' \in Setting /\ \A g \in AllFields : g # f => form'[g] = form[g]
    BY <2>1, <2>2 DEF PanelTypes, Setting, AllFields
  <2>4. PanelTypes'
    BY <1>0, <2>1, <2>2, <2>3 DEF PanelTypes, AllFields
  <2>5. FormInv'
    BY <2>1, <2>3 DEF FormInv
  <2>6. CleanInv'
    BY <2>1 DEF CleanInv, AllSaves
  <2>7. FreshInv'
    BY <2>1 DEF FreshInv, AllSaves, OnItsWay
  <2>8. LastInv'
    BY <2>1 DEF LastInv, AllSaves, Went
  <2> QED
    BY <2>1, <2>4, <2>5, <2>6, <2>7, <2>8
<1>3. CASE Panel!LetGo
  <2>1. /\ Panel!Persist(form, edited) /\ form' = form /\ edited' = edited
        /\ UNCHANGED <<stored, data, marked, loading, edits, lost, carried, kept>>
    BY <1>3 DEF Panel!LetGo, Panel!queryVars
  <2>2. Panel!Persist(form', edited')
    BY <2>1
  <2>3. form' \in Setting /\ edited' \in SUBSET AllFields
    BY <2>1 DEF PanelTypes
  <2> QED
    BY <2>1, <2>2, <2>3, PersistKeeps
<1>4. CASE Panel!Toggle
  <2>1. /\ form' = [form EXCEPT !.enabled = ~@] /\ edited' = edited \cup {"enabled"}
        /\ Panel!Persist(form', edited')
        /\ UNCHANGED <<stored, data, marked, loading, edits, lost, carried, kept>>
    BY <1>4 DEF Panel!Toggle, Panel!queryVars
  <2>2. form' \in Setting /\ \A g \in AllFields \ edited' : form'[g] = form[g]
    BY <2>1 DEF PanelTypes, Setting, AllFields
  <2>3. edited' \in SUBSET AllFields
    BY <2>1 DEF PanelTypes, AllFields
  <2> QED
    BY <2>1, <2>2, <2>3, PersistKeeps
<1>5. ASSUME NEW i \in DOMAIN saves, Panel!Served(i) PROVE PanelInv'
  <2>1. /\ i \in AllSaves /\ saves[i].at = "sent" /\ saves[i] \in Save
        /\ UNCHANGED <<form, edited, unsaved, data, marked, loading, edits, lost, kept>>
    BY <1>1, <1>5 DEF Panel!Served, Panel!queryVars
  <2>2. CASE Panel!Accepted(saves[i].to)
    <3> DEFINE late == \E j \in AllSaves : j > i /\ Went(j)
    <3>1. /\ stored' = saves[i].to /\ saves' = [saves EXCEPT ![i] = SaveApplied(saves[i], late)]
          /\ carried' = IF saves[i].clean /\ lost = 0
                        THEN carried \cup {f \in Panel!Fields \ saves[i].own : stored[f] # stored'[f]}
                        ELSE carried
      <4>1. Panel!Overtaken(i) <=> late
        BY <1>1 DEF Panel!Overtaken, Went
      <4>2. saves' = [saves EXCEPT ![i] = [saves[i] EXCEPT !.at = "applied", !.late = Panel!Overtaken(i)]]
        BY <1>5, <2>2 DEF Panel!Served
      <4>3. saves' = [saves EXCEPT ![i] = SaveApplied(saves[i], Panel!Overtaken(i))]
        BY <4>2, Zenon DEF SaveApplied
      <4>4. Panel!Overtaken(i) = late
        BY <4>1 DEF Panel!Overtaken
      <4> QED
        BY <1>5, <2>2, <4>3, <4>4 DEF Panel!Served
    <3>2. late \in BOOLEAN
      OBVIOUS
    <3>3. /\ SaveApplied(saves[i], late) \in Save /\ SaveApplied(saves[i], late).at = "applied"
          /\ SaveApplied(saves[i], late).late = late /\ OtherSavesStay(SaveApplied(saves[i], late), saves[i])
      BY <2>1, <3>2, SaveAppliedFits
    <3>4. late => \E j \in AllSaves : j > i /\ Went(j)
      OBVIOUS
    <3>5. ~late => \A j \in AllSaves : j > i => ~Went(j)
      OBVIOUS
    <3> HIDE DEF late
    <3>6. /\ saves' \in Seq(Save) /\ Len(saves') = Len(saves) /\ AllSaves' = AllSaves
          /\ saves'[i].at = "applied" /\ saves'[i].late = late /\ OtherSavesStay(saves'[i], saves[i])
          /\ \A j \in AllSaves : j # i => saves'[j] = saves[j]
      BY <2>1, <3>1, <3>3, SaveMoves
    <3>7. PanelTypes'
      BY <2>1, <3>1, <3>6 DEF PanelTypes, Save
    <3>8. carried' = {}
      BY <2>1, <3>1, PanelFields DEF CleanInv
    <3>9. FormInv'
      BY <1>1, <2>1, <3>6 DEF FormInv, OtherSavesStay, AllSaves
    <3>10. CleanInv'
      BY <2>1, <3>6 DEF CleanInv, OtherSavesStay
    <3>11. FreshInv'
      BY <2>1, <3>6 DEF FreshInv, OnItsWay, OtherSavesStay
    <3>12. LastInv'
      <4>1. ASSUME lost = 0 PROVE \A j \in AllSaves : saves'[j].at # "lost"
        BY <3>6, <4>1 DEF LastInv
      <4>2. ASSUME \A j \in AllSaves : ~saves'[j].late, NEW h \in AllSaves, Went(h)',
                   \A j \in AllSaves : j > h => ~Went(j)'
            PROVE  stored' = saves'[h].to
        <5>1. ~late /\ Went(i)'
          BY <2>1, <3>6, <4>2 DEF Went
        <5>2. h = i
          BY <1>1, <2>1, <3>5, <3>6, <4>2, <5>1 DEF Went, AllSaves
        <5> QED
          BY <3>1, <3>6, <5>2 DEF OtherSavesStay
      <4>3. ASSUME Went(Len(saves))', saves # <<>>
            PROVE  \/ stored' = saves'[Len(saves)].to
                   \/ \E j \in AllSaves : saves'[j].late /\ saves'[j].at = "applied"
        <5>1. Len(saves) \in AllSaves
          BY <1>1, <2>1 DEF AllSaves
        <5>2. CASE i = Len(saves)
          BY <3>1, <3>6, <5>2 DEF OtherSavesStay
        <5>3. CASE i # Len(saves)
          <6>1. Went(Len(saves)) /\ Len(saves) > i
            BY <1>1, <2>1, <3>6, <4>3, <5>1, <5>3 DEF Went, AllSaves
          <6>2. late
            BY <3>5, <5>1, <6>1
          <6> QED
            BY <2>1, <3>6, <6>2
        <5> QED
          BY <5>2, <5>3
      <4>4. saves' # <<>> /\ saves # <<>>
        BY <1>1, <2>1, <3>6 DEF AllSaves
      <4> QED
        BY <2>1, <3>6, <4>1, <4>2, <4>3, <4>4 DEF LastInv
    <3> QED
      BY <3>7, <3>8, <3>9, <3>10, <3>11, <3>12
  <2>3. CASE ~Panel!Accepted(saves[i].to)
    <3>1. Panel!Goes(i, "refused") /\ UNCHANGED <<stored, carried>>
      BY <1>5, <2>3 DEF Panel!Served
    <3>2. /\ saves' \in Seq(Save) /\ Len(saves') = Len(saves) /\ AllSaves' = AllSaves
          /\ saves'[i].at = "refused" /\ saves'[i].late = saves[i].late /\ OtherSavesStay(saves'[i], saves[i])
          /\ \A j \in AllSaves : j # i => saves'[j] = saves[j]
      BY <2>1, <3>1, SaveGoes
    <3>3. PanelTypes'
      BY <2>1, <3>1, <3>2 DEF PanelTypes
    <3>4. FormInv'
      BY <1>1, <2>1, <3>2 DEF FormInv, OtherSavesStay, AllSaves
    <3>5. CleanInv'
      BY <2>1, <3>1, <3>2 DEF CleanInv, OtherSavesStay
    <3>6. OnItsWay' = OnItsWay
      BY <2>1, <3>2 DEF OnItsWay
    <3>7. FreshInv'
      BY <2>1, <3>1, <3>2, <3>6 DEF FreshInv, OtherSavesStay
    <3>8. \A j \in AllSaves : Went(j)' = Went(j)
      BY <2>1, <3>2 DEF Went
    <3>9. LastInv'
      BY <1>1, <2>1, <3>1, <3>2, <3>8 DEF LastInv, OtherSavesStay, AllSaves
    <3> QED
      BY <3>1, <3>3, <3>4, <3>5, <3>7, <3>9
  <2> QED
    BY <2>2, <2>3
<1>6. ASSUME NEW i \in DOMAIN saves, Panel!Answered(i) PROVE PanelInv'
  <2>1. /\ i \in AllSaves /\ saves[i].at = "applied" /\ saves[i] \in Save /\ Panel!Goes(i, "done")
        /\ marked' = TRUE /\ UNCHANGED <<stored, form, edited, unsaved, data, edits, lost, carried, kept>>
        /\ loading' = IF data # {} \/ ~loading.on THEN [on |-> TRUE, read |-> {}] ELSE loading
    BY <1>0, <1>1, <1>6 DEF Panel!Answered, Panel!Nothing
  <2>2. /\ saves' \in Seq(Save) /\ Len(saves') = Len(saves) /\ AllSaves' = AllSaves
        /\ saves'[i].at = "done" /\ saves'[i].late = saves[i].late /\ OtherSavesStay(saves'[i], saves[i])
        /\ \A j \in AllSaves : j # i => saves'[j] = saves[j]
    BY <2>1, SaveGoes
  <2>3. loading' \in [on : BOOLEAN, read : SUBSET Setting] /\ AtMostOne(loading'.read)
    BY <1>0, <2>1 DEF PanelTypes
  <2>4. PanelTypes'
    BY <2>1, <2>2, <2>3 DEF PanelTypes
  <2>5. FormInv'
    BY <1>1, <2>1, <2>2 DEF FormInv, OtherSavesStay, AllSaves
  <2>6. CleanInv'
    BY <2>1, <2>2 DEF CleanInv, OtherSavesStay
  <2>7. FreshInv'
    <3>1. data = {} => \A j \in AllSaves : saves'[j].early
      BY <2>2 DEF FreshInv, OtherSavesStay
    <3>2. data # {} => loading'.read = {}
      BY <2>1
    <3> QED
      BY <2>1, <2>2, <3>1, <3>2 DEF FreshInv
  <2>8. \A j \in AllSaves : Went(j)' = Went(j)
    BY <2>1, <2>2 DEF Went
  <2>9. LastInv'
    BY <2>1, <2>2, <2>8 DEF LastInv, OtherSavesStay
  <2> QED
    BY <2>1, <2>4, <2>5, <2>6, <2>7, <2>9
<1>7. ASSUME NEW i \in DOMAIN saves, Panel!Loses(i) PROVE PanelInv'
  <2>1. /\ i \in AllSaves /\ saves[i] \in Save /\ Panel!Goes(i, "lost") /\ lost < MaxLost /\ lost' = lost + 1
        /\ UNCHANGED <<stored, form, edited, unsaved, data, marked, loading, edits, carried, kept>>
    BY <1>1, <1>7 DEF Panel!Loses, Panel!queryVars
  <2>2. /\ saves' \in Seq(Save) /\ Len(saves') = Len(saves) /\ AllSaves' = AllSaves
        /\ saves'[i].at = "lost" /\ saves'[i].late = saves[i].late /\ OtherSavesStay(saves'[i], saves[i])
        /\ \A j \in AllSaves : j # i => saves'[j] = saves[j]
    BY <2>1, SaveGoes
  <2>3. PanelTypes' /\ lost' # 0
    BY <1>0, <2>1, <2>2 DEF PanelTypes
  <2>4. FormInv'
    BY <1>1, <2>1, <2>2 DEF FormInv, OtherSavesStay, AllSaves
  <2>5. CleanInv'
    BY <2>1, <2>2, <2>3 DEF CleanInv, OtherSavesStay
  <2>6. FreshInv' /\ LastInv'
    BY <2>1, <2>2, <2>3 DEF FreshInv, LastInv, OtherSavesStay
  <2> QED
    BY <2>1, <2>3, <2>4, <2>5, <2>6
<1>8. CASE Panel!TurnedOff
  <2>1. /\ stored' = [stored EXCEPT !.enabled = FALSE] /\ lost < MaxLost /\ lost' = lost + 1
        /\ UNCHANGED <<form, edited, unsaved, data, marked, loading, saves, edits, carried, kept>>
    BY <1>8 DEF Panel!TurnedOff, Panel!queryVars
  <2>2. stored' \in Setting
    BY <2>1 DEF PanelTypes, Setting
  <2>3. PanelTypes' /\ lost' # 0
    BY <1>0, <2>1, <2>2 DEF PanelTypes
  <2>4. FormInv' /\ CleanInv' /\ FreshInv' /\ LastInv'
    BY <2>1, <2>3 DEF FormInv, CleanInv, FreshInv, LastInv, AllSaves
  <2> QED
    BY <2>1, <2>3, <2>4
<1>9. CASE Panel!Reads
  <2>1. /\ loading' = [on |-> TRUE, read |-> {stored}]
        /\ UNCHANGED <<stored, form, edited, unsaved, data, marked, saves, edits, lost, carried, kept>>
    BY <1>9 DEF Panel!Reads
  <2>2. loading' \in [on : BOOLEAN, read : SUBSET Setting] /\ loading'.read = {stored} /\ AtMostOne(loading'.read)
    BY <1>0, <2>1 DEF PanelTypes
  <2>3. PanelTypes'
    BY <2>1, <2>2 DEF PanelTypes
  <2>4. FormInv' /\ CleanInv' /\ LastInv'
    BY <2>1 DEF FormInv, CleanInv, LastInv, AllSaves, Went
  <2>5. FreshInv'
    BY <2>1, <2>2 DEF FreshInv, AllSaves, OnItsWay
  <2> QED
    BY <2>1, <2>3, <2>4, <2>5
<1>10. CASE Panel!Lands
  <2>1. /\ loading.read # {} /\ data' = loading.read /\ marked' = FALSE /\ loading' = [on |-> FALSE, read |-> {}]
        /\ \/ Panel!Fills /\ edited' = {} /\ unsaved' = {} /\ UNCHANGED kept
           \/ /\ data = loading.read /\ UNCHANGED <<form, edited, unsaved>>
              /\ kept' = (kept \/ \E i \in AllSaves : saves[i].late)
        /\ UNCHANGED <<stored, saves, edits, lost, carried>>
    BY <1>0, <1>1, <1>10 DEF Panel!Lands, Panel!Nothing
  <2>2. PICK d \in Setting : loading.read = {d}
    BY <2>1 DEF PanelTypes, AtMostOne
  <2>3. Panel!Fills => form' = d
    BY <2>2 DEF Panel!Fills
  <2>4. PanelTypes'
    <3>1. /\ data' \in SUBSET Setting /\ AtMostOne(data')
          /\ loading' \in [on : BOOLEAN, read : SUBSET Setting] /\ AtMostOne(loading'.read)
      BY <1>0, <2>1, <2>2
    <3>2. form' \in Setting /\ edited' \in SUBSET AllFields /\ unsaved' \in SUBSET edited' /\ kept' \in BOOLEAN
      BY <2>1, <2>2, <2>3 DEF PanelTypes
    <3> QED
      BY <2>1, <3>1, <3>2 DEF PanelTypes
  <2>5. FormInv'
    BY <2>1, <2>2, <2>3 DEF FormInv
  <2>6. CleanInv'
    BY <2>1 DEF CleanInv, AllSaves
  <2>7. FreshInv'
    <3>1. loading'.read = {} /\ data' # {}
      BY <2>1
    <3> QED
      BY <2>1, <3>1 DEF FreshInv, AllSaves, OnItsWay
  <2>8. LastInv'
    <3>1. CASE Panel!Fills /\ edited' = {} /\ unsaved' = {} /\ UNCHANGED kept
      BY <2>1, <3>1 DEF LastInv, AllSaves, Went
    <3>2. CASE UNCHANGED <<form, edited, unsaved>> /\ kept' = (kept \/ \E i \in AllSaves : saves[i].late)
      <4>1. ASSUME lost = 0, ~kept', saves # <<>>, Went(Len(saves))
            PROVE  stored = saves[Len(saves)].to
        <5>1. \A i \in AllSaves : ~saves[i].late
          BY <3>2, <4>1
        <5>2. Len(saves) \in AllSaves /\ \A j \in AllSaves : ~(j > Len(saves))
          BY <1>1, <4>1, EmptySeq DEF AllSaves, PanelTypes
        <5> QED
          BY <4>1, <5>1, <5>2 DEF LastInv
      <4> QED
        BY <2>1, <3>2, <4>1 DEF LastInv, AllSaves, Went
    <3> QED
      BY <2>1, <3>1, <3>2
  <2> QED
    BY <2>1, <2>4, <2>5, <2>6, <2>7, <2>8
<1>11. CASE Panel!Refetch
  <2>1. /\ loading' = [on |-> TRUE, read |-> {}]
        /\ UNCHANGED <<stored, form, edited, unsaved, data, marked, saves, edits, lost, carried, kept>>
    BY <1>0, <1>11 DEF Panel!Refetch
  <2>2. PanelTypes'
    BY <1>0, <2>1 DEF PanelTypes
  <2>3. FormInv' /\ CleanInv' /\ LastInv'
    BY <2>1 DEF FormInv, CleanInv, LastInv, AllSaves, Went
  <2>4. FreshInv'
    BY <2>1 DEF FreshInv, AllSaves, OnItsWay
  <2> QED
    BY <2>1, <2>2, <2>3, <2>4
<1>12. CASE Panel!FetchFails
  <2>1. /\ loading' = [on |-> FALSE, read |-> {}] /\ marked' = TRUE /\ lost < MaxLost /\ lost' = lost + 1
        /\ UNCHANGED <<stored, form, edited, unsaved, data, saves, edits, carried, kept>>
    BY <1>0, <1>12 DEF Panel!FetchFails
  <2>2. PanelTypes' /\ lost' # 0
    BY <1>0, <2>1 DEF PanelTypes
  <2>3. FormInv' /\ CleanInv' /\ FreshInv' /\ LastInv'
    BY <2>1, <2>2 DEF FormInv, CleanInv, FreshInv, LastInv, AllSaves
  <2> QED
    BY <2>1, <2>2, <2>3
<1> QED
  BY <1>2, <1>3, <1>4, <1>5, <1>6, <1>7, <1>8, <1>9, <1>10, <1>11, <1>12 DEF Panel!Next

-----------------------------------------------------------------------------
(* The library *)

AllBuckets == Buckets \cup {Later}
Deletion ==
  [file : Files, single : BOOLEAN, at : {"sent", "done", "refused", "answered", "lost"},
   over : BOOLEAN, again : BOOLEAN]

Sends == 1..Len(deletes)

LibraryTypes ==
  /\ live \in SUBSET Files /\ buckets \in Seq(AllBuckets) /\ buckets # <<>>
  /\ bucket \in SUBSET AllBuckets /\ AtMostOne(bucket)
  /\ loaded \in [AllBuckets -> SUBSET Files] /\ \A b \in AllBuckets : \A f \in loaded[b] : BucketOf[f] = b
  /\ selected \in SUBSET Files /\ sheet \in SUBSET Files /\ AtMostOne(sheet)
  /\ deletes \in Seq(Deletion) /\ Len(deletes) <= MaxDeletes
  /\ gone \in Nat /\ gone <= MaxLost

\* What is ticked and not deleted is in the list on screen.
TicksInv == jumped \/ (unseen = {} /\ selected \cap live \subseteq Library!Shown)

\* A request that was carried out has left no file.
GoneInv == \A i \in Sends : deletes[i].at \in {"done", "refused", "answered"} => deletes[i].file \notin live

\* A request that is not the last has lost its observer; one that has it takes
\* the file out of the ticks and the drawer, where it stays out.
LeavesInv ==
  \A i \in Sends : deletes[i].single /\ ~deletes[i].over =>
    /\ deletes[i].at \in {"sent", "done"} => i = Len(deletes)
    /\ deletes[i].at = "answered" /\ ~deletes[i].again => deletes[i].file \notin selected \cup sheet

LibraryInv == LibraryTypes /\ TicksInv /\ GoneInv /\ LeavesInv

\* The invariant of the library says what its properties say.
LEMMA LibraryIsSound ==
  LibraryInv => Library!TypeOK /\ Library!BulkIsOnScreen /\ Library!AskedAreGone /\ Library!DeletedLeaves
<1> SUFFICES ASSUME LibraryInv
             PROVE  Library!TypeOK /\ Library!BulkIsOnScreen /\ Library!AskedAreGone /\ Library!DeletedLeaves
  OBVIOUS
<1> USE DEF LibraryInv
<1>1. DOMAIN deletes = Sends /\ \A i \in Sends : deletes[i] \in Deletion
  BY DEF LibraryTypes, Sends
<1>2. Library!TypeOK
  <2>1. \A S : Library!Cardinality(S) = Cardinality(S)
    BY Zenon DEF Library!Cardinality, Cardinality
  <2>2. Library!Cardinality(bucket) <= 1 /\ Library!Cardinality(sheet) <= 1
    BY <2>1, CountsOne DEF LibraryTypes
  <2>3. \A b \in DOMAIN loaded : loaded[b] \subseteq {f \in Files : BucketOf[f] = b}
    BY DEF LibraryTypes
  <2> QED
    BY <2>2, <2>3 DEF LibraryTypes, Library!TypeOK
<1>3. Library!BulkIsOnScreen
  BY DEF TicksInv, Library!BulkIsOnScreen
<1>4. Library!AskedAreGone
  BY <1>1 DEF GoneInv, Library!AskedAreGone, Library!Underway, Library!Sent, Deletion
<1>5. Library!DeletedLeaves
  BY <1>1 DEF LeavesInv, Library!DeletedLeaves, Library!Sent
<1> QED
  BY <1>2, <1>3, <1>4, <1>5

\* The bucket on screen is one of the buckets.
LEMMA ActiveIsABucket ==
  ASSUME NEW list \in Seq(AllBuckets), list # <<>>, NEW pick \in SUBSET AllBuckets
  PROVE  Library!BucketIn(list, pick) \in AllBuckets
  BY HeadTailProperties DEF Library!BucketIn

\* The ways to put a set in order are sequences.
LEMMA Orders ==
  ASSUME NEW S, IsFiniteSet(S), NEW order \in Library!SetToSeqs(S)
  PROVE  order \in Seq(S) /\ Len(order) = Cardinality(S) /\ (S # {} => order # <<>>)
<1>1. \A T : Library!Cardinality(T) = Cardinality(T)
  BY Zenon DEF Library!Cardinality, Cardinality
<1>2. order \in [1..Cardinality(S) -> S] /\ Cardinality(S) \in Nat
  BY <1>1, FS_CardinalityType DEF Library!SetToSeqs
<1>3. order \in Seq(S) /\ Len(order) = Cardinality(S)
  BY <1>2, FunIsSeq
<1>4. S # {} => Cardinality(S) # 0
  BY FS_EmptySet
<1> QED
  BY <1>3, <1>4, EmptySeq

\* It holds at first.
LEMMA InitLibrary == Library!Init => LibraryInv
<1> SUFFICES ASSUME Library!Init PROVE LibraryInv
  OBVIOUS
<1> USE LibraryScreenAssumption DEF Library!LibraryAssumption
<1>1. \A S : IsFiniteSet(S) => Library!IsFiniteSet(S)
  BY Zenon DEF Library!IsFiniteSet, IsFiniteSet
<1>2. buckets \in Seq(AllBuckets) /\ buckets # <<>>
  <2>1. IsFiniteSet(Buckets)
    BY Zenon DEF Library!IsFiniteSet, IsFiniteSet
  <2>2. buckets \in Seq(Buckets) /\ buckets # <<>>
    BY <2>1, Orders DEF Library!Init
  <2> QED
    BY <2>2, SeqMonotonic DEF AllBuckets
<1>3. deletes \in Seq(Deletion) /\ Len(deletes) = 0 /\ Sends = {}
  BY EmptySeq DEF Library!Init, Sends
<1>4. LibraryTypes
  BY <1>2, <1>3 DEF Library!Init, LibraryTypes, AllBuckets, AtMostOne
<1> QED
  BY <1>3, <1>4 DEF Library!Init, LibraryInv, TicksInv, GoneInv, LeavesInv

\* What a step leaves of a request.
SameRequest(c, d) == c.file = d.file /\ c.single = d.single

\* A file is picked again: its requests have it noted.
LEMMA PickedAgain ==
  ASSUME LibraryTypes, NEW f, Library!Again(f)
  PROVE  /\ deletes' \in Seq(Deletion) /\ Len(deletes') = Len(deletes) /\ Sends' = Sends
         /\ \A i \in Sends :
              /\ SameRequest(deletes'[i], deletes[i]) /\ deletes'[i].at = deletes[i].at
              /\ deletes'[i].over = deletes[i].over
              /\ ~deletes'[i].again => ~deletes[i].again /\ deletes[i].file # f
<1>1. Len(deletes) \in Nat /\ DOMAIN deletes = Sends /\ \A i \in Sends : deletes[i] \in Deletion
  BY DEF LibraryTypes, Sends
<1>2. deletes' = [i \in Sends |->
        IF deletes[i].file = f THEN [deletes[i] EXCEPT !.again = TRUE] ELSE deletes[i]]
  BY <1>1 DEF Library!Again
<1>3. \A i \in Sends : deletes'[i] \in Deletion
  BY <1>1, <1>2 DEF Deletion
<1>4. deletes' \in [1..Len(deletes) -> Deletion]
  BY <1>2, <1>3 DEF Sends
<1>5. deletes' \in Seq(Deletion) /\ Len(deletes') = Len(deletes)
  BY <1>1, <1>4, FunIsSeq
<1>6. ASSUME NEW i \in Sends
      PROVE  /\ SameRequest(deletes'[i], deletes[i]) /\ deletes'[i].at = deletes[i].at
             /\ deletes'[i].over = deletes[i].over
             /\ ~deletes'[i].again => ~deletes[i].again /\ deletes[i].file # f
  BY <1>1, <1>2 DEF Deletion, SameRequest
<1> QED
  BY <1>5, <1>6 DEF Sends

\* A request moves on.
LEMMA DeletionMoves ==
  ASSUME LibraryTypes, NEW i \in Sends, NEW place \in {"sent", "done", "refused", "answered", "lost"},
         Library!Goes(i, place)
  PROVE  /\ deletes' \in Seq(Deletion) /\ Len(deletes') = Len(deletes) /\ Sends' = Sends
         /\ deletes'[i].at = place
         /\ \A j \in Sends :
              /\ SameRequest(deletes'[j], deletes[j]) /\ deletes'[j].over = deletes[j].over
              /\ deletes'[j].again = deletes[j].again /\ (j # i => deletes'[j] = deletes[j])
<1>1. deletes[i] \in Deletion
  BY DEF LibraryTypes, Sends
<1> DEFINE moved == [deletes[i] EXCEPT !.at = place]
<1>2. /\ moved \in Deletion /\ moved.at = place /\ SameRequest(moved, deletes[i])
      /\ moved.over = deletes[i].over /\ moved.again = deletes[i].again
  BY <1>1 DEF Deletion, SameRequest
<1>3. deletes' = [deletes EXCEPT ![i] = moved]
  BY DEF Library!Goes
<1> HIDE DEF moved
<1> QED
  BY <1>2, <1>3, ExceptSeq DEF LibraryTypes, Sends, SameRequest

\* Requests are sent: those that are not answered lose their observer.
LEMMA DeletionsSent ==
  ASSUME LibraryTypes, NEW batch \in Seq(Deletion), Library!Send(batch)
  PROVE  /\ deletes' \in Seq(Deletion) /\ Len(deletes') = Len(deletes) + Len(batch)
         /\ Len(deletes') <= MaxDeletes
         /\ \A i \in Sends :
              /\ i \in Sends' /\ SameRequest(deletes'[i], deletes[i]) /\ deletes'[i].at = deletes[i].at
              /\ deletes'[i].again = deletes[i].again
              /\ ~deletes'[i].over => ~deletes[i].over /\ deletes[i].at \notin {"sent", "done"}
         /\ \A i \in Sends' \ Sends :
              i - Len(deletes) \in 1..Len(batch) /\ deletes'[i] = batch[i - Len(deletes)]
<1>1. Len(deletes) \in Nat /\ DOMAIN deletes = Sends /\ \A i \in Sends : deletes[i] \in Deletion
  BY DEF LibraryTypes, Sends
<1> DEFINE taken == [i \in Sends |->
             IF deletes[i].at \in {"sent", "done"} THEN [deletes[i] EXCEPT !.over = TRUE] ELSE deletes[i]]
<1>2. deletes' = taken \o batch /\ Len(deletes) + Len(batch) <= MaxDeletes
  BY <1>1 DEF Library!Send, Library!Underway, Library!Sent
<1>3. \A i \in Sends : taken[i] \in Deletion
  BY <1>1 DEF Deletion
<1>4. taken \in Seq(Deletion) /\ Len(taken) = Len(deletes)
  <2>1. taken \in [1..Len(deletes) -> Deletion]
    BY <1>3 DEF Sends
  <2> QED
    BY <1>1, <2>1, FunIsSeq
<1>5. ASSUME NEW i \in Sends
      PROVE  /\ SameRequest(taken[i], deletes[i]) /\ taken[i].at = deletes[i].at
             /\ taken[i].again = deletes[i].again
             /\ ~taken[i].over => ~deletes[i].over /\ deletes[i].at \notin {"sent", "done"}
  BY <1>1 DEF Deletion, SameRequest
<1> HIDE DEF taken
<1>6. /\ deletes' \in Seq(Deletion) /\ Len(deletes') = Len(deletes) + Len(batch)
      /\ \A i \in 1..Len(deletes) + Len(batch) :
           deletes'[i] = IF i <= Len(deletes) THEN taken[i] ELSE batch[i - Len(deletes)]
  <2>1. /\ taken \o batch \in Seq(Deletion) /\ Len(taken \o batch) = Len(taken) + Len(batch)
        /\ \A i \in 1..Len(taken) + Len(batch) :
             (taken \o batch)[i] = IF i <= Len(taken) THEN taken[i] ELSE batch[i - Len(taken)]
    BY <1>4, ConcatProperties
  <2> QED
    BY <1>2, <1>4, <2>1
<1>7. Len(batch) \in Nat
  BY LenProperties
<1>8. \A i \in Sends : i \in Sends' /\ deletes'[i] = taken[i]
  BY <1>1, <1>6, <1>7 DEF Sends
<1>9. \A i \in Sends' \ Sends :
        i - Len(deletes) \in 1..Len(batch) /\ deletes'[i] = batch[i - Len(deletes)]
  BY <1>1, <1>6, <1>7 DEF Sends
<1> QED
  BY <1>2, <1>5, <1>6, <1>8, <1>9

\* A request has started, and one that is single is alone.
NotPickedAgain(c) == c.at = "sent" /\ ~c.again

LEMMA DeletionSentKeeps ==
  ASSUME LibraryInv, NEW batch \in Seq(Deletion), Library!Send(batch),
         \A n \in 1..Len(batch) : NotPickedAgain(batch[n]) /\ (batch[n].single => Len(batch) = 1),
         UNCHANGED <<live, sheet>>, selected' \subseteq selected
  PROVE  /\ deletes' \in Seq(Deletion) /\ Len(deletes') <= MaxDeletes /\ GoneInv' /\ LeavesInv'
<1> USE DEF LibraryInv
<1>1. /\ deletes' \in Seq(Deletion) /\ Len(deletes') = Len(deletes) + Len(batch)
      /\ Len(deletes') <= MaxDeletes
      /\ \A i \in Sends :
           /\ i \in Sends' /\ SameRequest(deletes'[i], deletes[i]) /\ deletes'[i].at = deletes[i].at
           /\ deletes'[i].again = deletes[i].again
           /\ ~deletes'[i].over => ~deletes[i].over /\ deletes[i].at \notin {"sent", "done"}
      /\ \A i \in Sends' \ Sends :
           i - Len(deletes) \in 1..Len(batch) /\ deletes'[i] = batch[i - Len(deletes)]
  BY DeletionsSent
<1>2. \A i \in Sends' \ Sends : NotPickedAgain(deletes'[i]) /\ (deletes'[i].single => i = Len(deletes'))
  <2> SUFFICES ASSUME NEW i \in Sends' \ Sends
               PROVE  NotPickedAgain(deletes'[i]) /\ (deletes'[i].single => i = Len(deletes'))
    OBVIOUS
  <2>1. i - Len(deletes) \in 1..Len(batch) /\ deletes'[i] = batch[i - Len(deletes)]
    BY <1>1
  <2>2. i \in Nat /\ Len(deletes) \in Nat /\ Len(batch) \in Nat
    BY <1>1, LenProperties DEF LibraryTypes, Sends
  <2>3. NotPickedAgain(deletes'[i]) /\ (deletes'[i].single => Len(batch) = 1)
    BY <2>1
  <2> QED
    BY <1>1, <2>1, <2>2, <2>3
<1>3. GoneInv'
  BY <1>1, <1>2 DEF GoneInv, SameRequest, NotPickedAgain
<1>4. LeavesInv'
  BY <1>1, <1>2 DEF LeavesInv, SameRequest, NotPickedAgain
<1> QED
  BY <1>1, <1>3, <1>4

\* The fields of a request that is sent.
LEMMA DeletionFields ==
  ASSUME NEW f \in Files, NEW single \in BOOLEAN
  PROVE  /\ Library!Request(f, single) \in Deletion /\ NotPickedAgain(Library!Request(f, single))
         /\ Library!Request(f, single).single = single
  BY DEF Library!Request, Deletion, NotPickedAgain

\* Every step of the library keeps its invariant.
LEMMA LibraryKeeps == LibraryInv /\ Library!Next => LibraryInv'
<1> SUFFICES ASSUME LibraryInv, Library!Next PROVE LibraryInv'
  OBVIOUS
<1> USE DEF LibraryInv
<1>0. DOMAIN deletes = Sends /\ Len(deletes) \in Nat /\ \A i \in Sends : deletes[i] \in Deletion
  BY DEF LibraryTypes, Sends
<1>1. Library!Active \in AllBuckets /\ Library!Shown \subseteq Files
  BY ActiveIsABucket DEF LibraryTypes, Library!Active, Library!Shown
<1>2. ASSUME NEW f \in Files, Library!Tick(f) PROVE LibraryInv'
  <2>1. /\ f \in Library!Shown /\ Library!Again(f)
        /\ selected' = (IF f \in selected THEN selected \ {f} ELSE selected \cup {f})
        /\ UNCHANGED <<live, buckets, gone, bucket, loaded, sheet, jumped, unseen>>
    BY <1>2 DEF Library!Tick, Library!serverVars
  <2>2. /\ deletes' \in Seq(Deletion) /\ Len(deletes') = Len(deletes) /\ Sends' = Sends
        /\ \A i \in Sends :
             /\ SameRequest(deletes'[i], deletes[i]) /\ deletes'[i].at = deletes[i].at
             /\ deletes'[i].over = deletes[i].over
             /\ ~deletes'[i].again => ~deletes[i].again /\ deletes[i].file # f
    BY <2>1, PickedAgain
  <2>3. Library!Shown' = Library!Shown /\ selected' \subseteq selected \cup {f}
    BY <2>1 DEF Library!Shown, Library!Active
  <2>4. LibraryTypes'
    BY <2>1, <2>2, <2>3 DEF LibraryTypes
  <2>5. TicksInv'
    BY <2>1, <2>3 DEF TicksInv
  <2>6. GoneInv' /\ LeavesInv'
    BY <2>1, <2>2, <2>3 DEF GoneInv, LeavesInv, SameRequest
  <2> QED
    BY <2>4, <2>5, <2>6
<1>3. ASSUME NEW f \in Files, Library!OpenDrawer(f) PROVE LibraryInv'
  <2>1. /\ f \in Library!Shown /\ Library!Again(f) /\ sheet' = {f}
        /\ UNCHANGED <<live, buckets, gone, bucket, loaded, selected, jumped, unseen>>
    BY <1>3 DEF Library!OpenDrawer, Library!serverVars
  <2>2. /\ deletes' \in Seq(Deletion) /\ Len(deletes') = Len(deletes) /\ Sends' = Sends
        /\ \A i \in Sends :
             /\ SameRequest(deletes'[i], deletes[i]) /\ deletes'[i].at = deletes[i].at
             /\ deletes'[i].over = deletes[i].over
             /\ ~deletes'[i].again => ~deletes[i].again /\ deletes[i].file # f
    BY <2>1, PickedAgain
  <2>3. Library!Shown' = Library!Shown
    BY <2>1 DEF Library!Shown, Library!Active
  <2>4. LibraryTypes'
    BY <2>1, <2>2 DEF LibraryTypes, AtMostOne
  <2>5. TicksInv'
    BY <2>1, <2>3 DEF TicksInv
  <2>6. GoneInv' /\ LeavesInv'
    BY <2>1, <2>2 DEF GoneInv, LeavesInv, SameRequest
  <2> QED
    BY <2>4, <2>5, <2>6
<1>4. ASSUME NEW f \in Files, Library!Delete(f) PROVE LibraryInv'
  <2>1. /\ Library!Send(<<Library!Request(f, TRUE)>>)
        /\ UNCHANGED <<live, buckets, gone, bucket, loaded, selected, sheet, jumped, unseen>>
    BY <1>4 DEF Library!Delete, Library!serverVars
  <2> DEFINE batch == <<Library!Request(f, TRUE)>>
  <2>2. batch \in Seq(Deletion) /\ Len(batch) = 1 /\ \A n \in 1..Len(batch) : NotPickedAgain(batch[n])
    <3>1. Library!Request(f, TRUE) \in Deletion /\ NotPickedAgain(Library!Request(f, TRUE))
      BY DeletionFields
    <3>2. \A c \in Deletion : <<c>> \in Seq(Deletion) /\ Len(<<c>>) = 1 /\ \A n \in 1..Len(<<c>>) : <<c>>[n] = c
      OBVIOUS
    <3> QED
      BY <3>1, <3>2
  <2> HIDE DEF batch
  <2>3. deletes' \in Seq(Deletion) /\ Len(deletes') <= MaxDeletes /\ GoneInv' /\ LeavesInv'
    <3>1. Library!Send(batch)
      BY <2>1 DEF batch
    <3>2. \A n \in 1..Len(batch) : NotPickedAgain(batch[n]) /\ (batch[n].single => Len(batch) = 1)
      BY <2>2
    <3>3. UNCHANGED <<live, sheet>> /\ selected' \subseteq selected
      BY <2>1
    <3> QED
      BY <2>2, <3>1, <3>2, <3>3, DeletionSentKeeps
  <2>4. LibraryTypes'
    BY <2>1, <2>3 DEF LibraryTypes
  <2>5. TicksInv'
    BY <2>1 DEF TicksInv, Library!Shown, Library!Active
  <2> QED
    BY <2>3, <2>4, <2>5
<1>5. ASSUME NEW f \in Files, Library!DeletedElsewhere(f) PROVE LibraryInv'
  <2>1. /\ gone < MaxLost /\ gone' = gone + 1 /\ live' = live \ {f}
        /\ UNCHANGED <<buckets, bucket, loaded, selected, sheet, deletes, jumped, unseen>>
    BY <1>5 DEF Library!DeletedElsewhere
  <2>2. LibraryTypes'
    BY <2>1, LibraryScreenAssumption DEF LibraryTypes, Library!LibraryAssumption
  <2>3. TicksInv'
    BY <2>1 DEF TicksInv, Library!Shown, Library!Active
  <2>4. GoneInv' /\ LeavesInv'
    BY <2>1 DEF GoneInv, LeavesInv, Sends
  <2> QED
    BY <2>2, <2>3, <2>4
<1>6. ASSUME NEW b \in DOMAIN loaded, Library!PickBucket(b) PROVE LibraryInv'
  <2>1. /\ bucket' = {b} /\ selected' = {}
        /\ UNCHANGED <<live, buckets, gone, loaded, sheet, deletes, jumped, unseen>>
    BY <1>6 DEF Library!PickBucket, Library!serverVars
  <2>2. LibraryTypes'
    BY <2>1 DEF LibraryTypes, AtMostOne
  <2>3. TicksInv' /\ GoneInv' /\ LeavesInv'
    BY <2>1 DEF TicksInv, GoneInv, LeavesInv, Sends
  <2> QED
    BY <2>2, <2>3
<1>7. CASE Library!Clear
  <2>1. /\ selected' \subseteq selected /\ sheet' \subseteq sheet
        /\ UNCHANGED <<live, buckets, gone, bucket, loaded, deletes, jumped, unseen>>
    BY <1>7 DEF Library!Clear, Library!serverVars
  <2>2. LibraryTypes'
    BY <2>1 DEF LibraryTypes, AtMostOne
  <2>3. TicksInv'
    BY <2>1 DEF TicksInv, Library!Shown, Library!Active
  <2>4. GoneInv' /\ LeavesInv'
    BY <2>1 DEF GoneInv, LeavesInv, Sends
  <2> QED
    BY <2>2, <2>3, <2>4
<1>8. CASE Library!BulkDelete
  <2>1. PICK order \in Library!SetToSeqs(selected) :
          Library!Send([i \in DOMAIN order |-> Library!Request(order[i], FALSE)])
    BY <1>8 DEF Library!BulkDelete
  <2>2. /\ selected' = {} /\ unseen' = unseen \cup ((selected \cap live) \ Library!Shown)
        /\ UNCHANGED <<live, buckets, gone, bucket, loaded, sheet, jumped>>
    BY <1>8 DEF Library!BulkDelete, Library!serverVars
  <2> DEFINE batch == [i \in DOMAIN order |-> Library!Request(order[i], FALSE)]
  <2>3. order \in Seq(Files)
    <3>1. IsFiniteSet(Files)
      BY Zenon, LibraryScreenAssumption DEF Library!LibraryAssumption, Library!IsFiniteSet, IsFiniteSet
    <3>2. selected \in SUBSET Files /\ IsFiniteSet(selected)
      BY <3>1, FS_Subset DEF LibraryTypes
    <3> QED
      BY <3>2, Orders, SeqMonotonic
  <2>4. batch \in Seq(Deletion) /\ \A n \in 1..Len(batch) : NotPickedAgain(batch[n]) /\ ~batch[n].single
    <3>1. Len(order) \in Nat /\ DOMAIN order = 1..Len(order) /\ \A i \in 1..Len(order) : order[i] \in Files
      BY <2>3
    <3>2. batch \in [1..Len(order) -> Deletion]
      BY <3>1, DeletionFields
    <3>3. batch \in Seq(Deletion) /\ Len(batch) = Len(order)
      BY <3>1, <3>2, FunIsSeq
    <3> QED
      BY <3>1, <3>3, DeletionFields
  <2> HIDE DEF batch
  <2>5. deletes' \in Seq(Deletion) /\ Len(deletes') <= MaxDeletes /\ GoneInv' /\ LeavesInv'
    <3>1. Library!Send(batch)
      BY <2>1 DEF batch
    <3>2. UNCHANGED <<live, sheet>> /\ selected' \subseteq selected
      BY <2>2
    <3> QED
      BY <2>4, <3>1, <3>2, DeletionSentKeeps
  <2>6. LibraryTypes'
    BY <2>2, <2>5 DEF LibraryTypes
  <2>7. TicksInv'
    BY <2>2 DEF TicksInv
  <2> QED
    BY <2>5, <2>6, <2>7
<1>9. CASE Library!Loads
  <2>1. /\ loaded' = [loaded EXCEPT ![Library!Active] = {f \in live : BucketOf[f] = Library!Active}]
        /\ UNCHANGED <<live, buckets, gone, bucket, selected, sheet, deletes, jumped, unseen>>
    BY <1>9 DEF Library!Loads, Library!serverVars
  <2>2. Library!Active' = Library!Active
    BY <2>1 DEF Library!Active
  <2>3. Library!Shown' = {f \in live : BucketOf[f] = Library!Active}
    BY <1>1, <2>1, <2>2 DEF Library!Shown, LibraryTypes
  <2>4. LibraryTypes'
    <3>1. loaded' \in [AllBuckets -> SUBSET Files] /\ \A b \in AllBuckets : \A f \in loaded'[b] : BucketOf[f] = b
      BY <1>1, <2>1 DEF LibraryTypes
    <3> QED
      BY <2>1, <3>1 DEF LibraryTypes
  <2>5. TicksInv'
    BY <1>1, <2>1, <2>3 DEF TicksInv, LibraryTypes, Library!Shown
  <2>6. GoneInv' /\ LeavesInv'
    BY <2>1 DEF GoneInv, LeavesInv, Sends
  <2> QED
    BY <2>4, <2>5, <2>6
<1>10. CASE Library!BucketsChange
  <2>1. /\ gone < MaxLost /\ gone' = gone + 1
        /\ \/ buckets' = <<Later>> \o buckets
           \/ \E i \in DOMAIN buckets : Len(buckets) > 1 /\ buckets' = Library!RemoveAt(buckets, i)
        /\ jumped' = (jumped \/ (selected # {} /\ Library!BucketIn(buckets', bucket) # Library!Active))
        /\ UNCHANGED <<live, bucket, loaded, selected, sheet, deletes, unseen>>
    BY <1>10 DEF Library!BucketsChange
  <2>2. buckets' \in Seq(AllBuckets) /\ buckets' # <<>>
    <3>1. CASE buckets' = <<Later>> \o buckets
      <4>1. <<Later>> \in Seq(AllBuckets) /\ Len(<<Later>>) = 1
        BY DEF AllBuckets
      <4> QED
        BY <3>1, <4>1, ConcatProperties, ConcatEqualIffEmpty, EmptySeq DEF LibraryTypes
    <3>2. ASSUME NEW i \in DOMAIN buckets, Len(buckets) > 1, buckets' = Library!RemoveAt(buckets, i)
          PROVE  buckets' \in Seq(AllBuckets) /\ buckets' # <<>>
      <4>1. Len(buckets) \in Nat /\ i \in 1..Len(buckets) /\ \A n \in 1..Len(buckets) : buckets[n] \in AllBuckets
        BY <3>2 DEF LibraryTypes
      <4> DEFINE t == SubSeq(buckets, 1, i - 1) \o SubSeq(buckets, i + 1, Len(buckets))
      <4>2. t \in Seq(AllBuckets) /\ Len(t) = Len(buckets) - 1
        BY <4>1, Without DEF LibraryTypes
      <4>3. buckets' = t
        BY <3>2 DEF Library!RemoveAt
      <4> HIDE DEF t
      <4> QED
        BY <3>2, <4>1, <4>2, <4>3, EmptySeq
    <3> QED
      BY <2>1, <3>1, <3>2
  <2>3. LibraryTypes'
    BY <2>1, <2>2, LibraryScreenAssumption DEF LibraryTypes, Library!LibraryAssumption
  <2>4. TicksInv'
    <3>1. Library!Active' = Library!BucketIn(buckets', bucket)
      BY <2>1 DEF Library!Active
    <3> QED
      BY <2>1, <3>1 DEF TicksInv, Library!Shown
  <2>5. GoneInv' /\ LeavesInv'
    BY <2>1 DEF GoneInv, LeavesInv, Sends
  <2> QED
    BY <2>3, <2>4, <2>5
<1>11. ASSUME NEW i \in DOMAIN deletes, Library!Served(i) PROVE LibraryInv'
  <2> DEFINE place == IF deletes[i].file \in live THEN "done" ELSE "refused"
  <2>1. /\ deletes[i].at = "sent" /\ live' = live \ {deletes[i].file} /\ Library!Goes(i, place)
        /\ UNCHANGED <<buckets, gone, bucket, loaded, selected, sheet, jumped, unseen>>
    BY <1>11 DEF Library!Served, Library!Sent
  <2>2. place \in {"done", "refused"} /\ i \in Sends
    BY <1>0
  <2> HIDE DEF place
  <2>3. /\ deletes' \in Seq(Deletion) /\ Len(deletes') = Len(deletes) /\ Sends' = Sends
        /\ deletes'[i].at = place
        /\ \A j \in Sends :
             /\ SameRequest(deletes'[j], deletes[j]) /\ deletes'[j].over = deletes[j].over
             /\ deletes'[j].again = deletes[j].again /\ (j # i => deletes'[j] = deletes[j])
    BY <2>1, <2>2, DeletionMoves
  <2>4. LibraryTypes'
    BY <2>1, <2>3 DEF LibraryTypes
  <2>5. TicksInv'
    BY <2>1 DEF TicksInv, Library!Shown, Library!Active
  <2>6. GoneInv'
    BY <2>1, <2>3 DEF GoneInv, SameRequest
  <2>7. LeavesInv'
    BY <2>1, <2>2, <2>3 DEF LeavesInv, SameRequest
  <2> QED
    BY <2>4, <2>5, <2>6, <2>7
<1>12. ASSUME NEW i \in DOMAIN deletes, Library!Answered(i) PROVE LibraryInv'
  <2>1. /\ deletes[i].at = "done" /\ Library!Goes(i, "answered") /\ i \in Sends
        /\ UNCHANGED <<live, buckets, gone, bucket, loaded, jumped, unseen>>
    BY <1>0, <1>12 DEF Library!Answered, Library!Sent, Library!serverVars
  <2>2. /\ selected' \subseteq selected /\ sheet' \subseteq sheet
        /\ i = Len(deletes) /\ deletes[i].single => deletes[i].file \notin selected' \cup sheet'
    BY <1>12 DEF Library!Answered, Library!Watched
  <2>3. /\ deletes' \in Seq(Deletion) /\ Len(deletes') = Len(deletes) /\ Sends' = Sends
        /\ deletes'[i].at = "answered"
        /\ \A j \in Sends :
             /\ SameRequest(deletes'[j], deletes[j]) /\ deletes'[j].over = deletes[j].over
             /\ deletes'[j].again = deletes[j].again /\ (j # i => deletes'[j] = deletes[j])
    BY <2>1, DeletionMoves
  <2>4. LibraryTypes'
    BY <2>1, <2>2, <2>3 DEF LibraryTypes, AtMostOne
  <2>5. TicksInv'
    BY <2>1, <2>2 DEF TicksInv, Library!Shown, Library!Active
  <2>6. GoneInv'
    BY <2>1, <2>3 DEF GoneInv, SameRequest
  <2>7. LeavesInv'
    BY <2>1, <2>2, <2>3 DEF LeavesInv, SameRequest
  <2> QED
    BY <2>4, <2>5, <2>6, <2>7
<1>13. ASSUME NEW i \in DOMAIN deletes, Library!Loses(i) PROVE LibraryInv'
  <2>1. /\ gone < MaxLost /\ gone' = gone + 1 /\ Library!Goes(i, "lost") /\ i \in Sends
        /\ UNCHANGED <<live, buckets, bucket, loaded, selected, sheet, jumped, unseen>>
    BY <1>0, <1>13 DEF Library!Loses
  <2>3. /\ deletes' \in Seq(Deletion) /\ Len(deletes') = Len(deletes) /\ Sends' = Sends
        /\ deletes'[i].at = "lost"
        /\ \A j \in Sends :
             /\ SameRequest(deletes'[j], deletes[j]) /\ deletes'[j].over = deletes[j].over
             /\ deletes'[j].again = deletes[j].again /\ (j # i => deletes'[j] = deletes[j])
    BY <2>1, DeletionMoves
  <2>4. LibraryTypes'
    BY <2>1, <2>3, LibraryScreenAssumption DEF LibraryTypes, Library!LibraryAssumption
  <2>5. TicksInv'
    BY <2>1 DEF TicksInv, Library!Shown, Library!Active
  <2>6. GoneInv'
    BY <2>1, <2>3 DEF GoneInv, SameRequest
  <2>7. LeavesInv'
    BY <2>1, <2>3 DEF LeavesInv, SameRequest
  <2> QED
    BY <2>4, <2>5, <2>6, <2>7
<1> QED
  BY <1>2, <1>3, <1>4, <1>5, <1>6, <1>7, <1>8, <1>9, <1>10, <1>11, <1>12, <1>13 DEF Library!Next

-----------------------------------------------------------------------------
(* Links *)

Stale == IF kind = "media" THEN 10 ELSE 6
Valid == IF kind = "media" THEN 12 ELSE 288

LinkTypes ==
  /\ kind \in {"media", "thumbnail"} /\ now \in Nat /\ now <= MaxTime
  /\ made \in SUBSET (0..now) /\ AtMostOne(made)
  /\ link \in SUBSET [url : SUBSET Nat, at : 0..now] /\ AtMostOne(link)
  /\ signing \in [on : BOOLEAN, since : 0..now, read : SUBSET SUBSET Nat] /\ AtMostOne(signing.read)
  /\ viewing \in BOOLEAN /\ looked \in 0..now /\ left \in 0..now
  /\ failed \in BOOLEAN /\ failures \in Nat /\ failures <= MaxFails

\* A request is not under way for long; what it has read is of its time.
SigningInv ==
  /\ signing.on => now <= signing.since + MaxDelay
  /\ signing.read # {} => signing.on
  /\ \A url \in signing.read :
       /\ \A s \in url : signing.since <= s /\ s <= now
       /\ url = {} => kind = "thumbnail" /\ \A t \in made : signing.since <= t

\* So is the cached answer, unless the last request failed; and what is looked
\* at was not stale then.
LinkInv ==
  /\ kind = "media" => made # {}
  /\ \A a \in link :
       /\ \A s \in a.url : s <= a.at /\ a.at <= s + MaxDelay
       /\ a.url = {} => kind = "thumbnail" /\ (failed \/ \A t \in made : a.at <= t + MaxDelay)
  /\ Previews!Settled => link # {} /\ \A a \in link : looked < a.at + Stale

LinksInv == LinkTypes /\ SigningInv /\ LinkInv

\* The invariant of the links says what their properties say.
LEMMA LinksAreSound == LinksInv => Previews!TypeOK /\ Previews!LinkLasts /\ Previews!ThumbnailAppears
<1> SUFFICES ASSUME LinksInv PROVE Previews!TypeOK /\ Previews!LinkLasts /\ Previews!ThumbnailAppears
  OBVIOUS
<1> USE DEF LinksInv
<1>1. MaxDelay \in Nat /\ MaxTime \in Nat
  BY PreviewsAssumption DEF Previews!LinksAssumption
<1>2. DOMAIN Previews!Links = {"media", "thumbnail"} /\ Previews!Its.stale = Stale /\ Previews!Its.ttl = Valid
  BY DEF LinkTypes, Previews!Links, Previews!Its, Previews!Times, Stale, Valid
<1>3. Previews!TypeOK
  <2>1. \A S : Previews!Cardinality(S) = Cardinality(S)
    BY Zenon DEF Previews!Cardinality, Cardinality
  <2>2. Previews!Cardinality(made) <= 1 /\ Previews!Cardinality(link) <= 1 /\ Previews!Cardinality(signing.read) <= 1
    BY <2>1, CountsOne DEF LinkTypes
  <2>3. \A a \in link : a.at <= now /\ a.url \subseteq 0..now
    BY DEF LinkTypes, LinkInv
  <2> QED
    BY <1>1, <1>2, <2>2, <2>3 DEF LinkTypes, Previews!TypeOK
<1>4. Previews!LinkLasts
  <2> SUFFICES ASSUME Previews!Settled, now - looked <= 2 - MaxDelay, NEW a \in link, NEW s \in a.url
               PROVE  now < s + Valid
    BY <1>2 DEF Previews!LinkLasts, Previews!Link, Previews!TenMinutes
  <2>1. looked < a.at + Stale /\ a.at <= s + MaxDelay
    BY DEF LinkInv
  <2>2. a.at \in Nat /\ s \in Nat /\ now \in Nat /\ looked \in Nat
    BY DEF LinkTypes
  <2> QED
    BY <1>1, <2>1, <2>2 DEF Stale, Valid
<1>5. Previews!ThumbnailAppears
  <2> SUFFICES ASSUME Previews!Settled, NEW t \in made, looked >= t + 6 + MaxDelay, \A a \in link : a.url = {}
               PROVE  FALSE
    BY DEF Previews!ThumbnailAppears, Previews!Link, Previews!HalfAnHour, Previews!Nothing
  <2>1. PICK a \in link : TRUE
    BY DEF LinkInv
  <2>2. kind = "thumbnail" /\ a.at <= t + MaxDelay /\ looked < a.at + 6
    BY DEF LinkInv, Previews!Settled, Stale
  <2>3. a.at \in Nat /\ t \in Nat /\ looked \in Nat
    BY DEF LinkTypes
  <2> QED
    BY <1>1, <2>2, <2>3
<1> QED
  BY <1>3, <1>4, <1>5

\* It holds at first.
LEMMA InitLinks == Previews!Init => LinksInv
<1> SUFFICES ASSUME Previews!Init PROVE LinksInv
  OBVIOUS
<1>1. LinkTypes
  <2>1. /\ kind \in {"media", "thumbnail"} /\ now = 0 /\ made = (IF kind = "media" THEN {0} ELSE {})
        /\ link = {} /\ signing = [on |-> FALSE, since |-> 0, read |-> {}]
        /\ viewing = FALSE /\ looked = 0 /\ left = 0 /\ failed = FALSE /\ failures = 0
    BY DEF Previews!Init, Previews!Links, Previews!Idle, Previews!Nothing
  <2>2. signing \in [on : BOOLEAN, since : 0..now, read : SUBSET SUBSET Nat]
    BY <2>1
  <2>3. /\ now \in Nat /\ now <= MaxTime /\ made \in SUBSET (0..now) /\ looked \in 0..now /\ left \in 0..now
        /\ failures \in Nat /\ failures <= MaxFails
        /\ AtMostOne(made) /\ AtMostOne(link) /\ AtMostOne(signing.read)
    BY <2>1, PreviewsAssumption DEF AtMostOne, Previews!LinksAssumption
  <2> QED
    BY <2>1, <2>2, <2>3 DEF LinkTypes
<1>2. SigningInv /\ LinkInv
  BY DEF Previews!Init, SigningInv, LinkInv, Previews!Idle, Previews!Nothing, Previews!Settled
<1> QED
  BY <1>1, <1>2 DEF LinksInv

\* Opening a screen and looking at it: what is stale is asked for.
LEMMA LinkAskedFor ==
  ASSUME LinksInv, Previews!Asks, viewing' = TRUE, looked' = now, left' \in 0..now,
         UNCHANGED <<kind, now, made, link, failed, failures>>
  PROVE  LinksInv'
<1> USE DEF LinksInv
<1>1. Previews!Stale <=> \A a \in link : now - a.at >= Stale
  BY DEF Previews!Stale, Previews!Its, Previews!Links, Previews!Times, LinkTypes, Stale
<1>2. \/ /\ \A a \in link : now - a.at >= Stale
         /\ ~signing.on /\ signing' = [on |-> TRUE, since |-> now, read |-> {}]
      \/ (signing.on \/ \E a \in link : ~(now - a.at >= Stale)) /\ signing' = signing
  BY <1>1 DEF Previews!Asks, Previews!Nothing
<1>3. LinkTypes'
  <2>1. signing' \in [on : BOOLEAN, since : 0..now, read : SUBSET SUBSET Nat]
    <3>1. now \in 0..now
      BY DEF LinkTypes
    <3>2. [on |-> TRUE, since |-> now, read |-> {}] \in [on : BOOLEAN, since : 0..now, read : SUBSET SUBSET Nat]
      BY <3>1
    <3> QED
      BY <1>2, <3>2 DEF LinkTypes
  <2>2. AtMostOne(signing'.read)
    BY <1>2 DEF LinkTypes, AtMostOne
  <2> QED
    BY <2>1, <2>2 DEF LinkTypes
<1>4. SigningInv'
  BY <1>2, PreviewsAssumption DEF LinkTypes, SigningInv, Previews!LinksAssumption
<1>5. LinkInv'
  <2>1. ASSUME ~signing'.on PROVE link # {} /\ \A a \in link : now < a.at + Stale
    <3>1. PICK a \in link : ~(now - a.at >= Stale)
      BY <1>2, <2>1
    <3>2. \A b \in link : b = a
      BY DEF LinkTypes, AtMostOne
    <3>3. now \in Nat /\ a.at \in Nat /\ Stale \in Nat
      BY DEF LinkTypes, Stale
    <3> QED
      BY <3>1, <3>2, <3>3
  <2>2. Stale' = Stale
    BY DEF Stale
  <2> QED
    BY <2>1, <2>2 DEF LinkInv, Previews!Settled
<1> QED
  BY <1>3, <1>4, <1>5

\* A request that ends with an answer, or with none.
LEMMA LinkRequestEnds ==
  ASSUME LinksInv, Previews!Ends, signing.on, failures' \in Nat, failures' <= MaxFails,
         \/ failed' = TRUE /\ link' = link
         \/ failed' = TRUE /\ kind = "thumbnail" /\ link' = {[url |-> {}, at |-> now]}
         \/ /\ failed' = FALSE /\ signing.read # {}
            /\ link' = {[url |-> url, at |-> now] : url \in signing.read}
  PROVE  LinksInv'
<1> USE DEF LinksInv
<1>1. /\ signing' = [on |-> FALSE, since |-> 0, read |-> {}] /\ left' = IF viewing THEN left ELSE now
      /\ UNCHANGED <<kind, now, made, viewing, looked>>
  BY DEF Previews!Ends, Previews!Idle, Previews!Nothing
<1>2. MaxDelay \in Nat /\ now \in Nat /\ Stale' = Stale /\ Stale \in Nat /\ Stale > 0
      /\ looked \in 0..now /\ left \in 0..now /\ now \in 0..now
  BY <1>1, PreviewsAssumption DEF Previews!LinksAssumption, LinkTypes, Stale
<1>3. SigningInv'
  BY <1>1 DEF SigningInv
<1>4. CASE failed' = TRUE /\ link' = link
  BY <1>1, <1>3, <1>4 DEF LinkTypes, LinkInv, AtMostOne, Previews!Settled
<1>5. CASE failed' = TRUE /\ kind = "thumbnail" /\ link' = {[url |-> {}, at |-> now]}
  <2>1. LinkTypes'
    BY <1>1, <1>5 DEF LinkTypes, AtMostOne
  <2>2. LinkInv'
    BY <1>1, <1>5 DEF LinkInv, Previews!Settled
  <2> QED
    BY <1>3, <2>1, <2>2
<1>6. CASE /\ failed' = FALSE /\ signing.read # {}
           /\ link' = {[url |-> url, at |-> now] : url \in signing.read}
  <2>1. PICK url \in signing.read : signing.read = {url}
    BY <1>6 DEF LinkTypes, AtMostOne
  <2>2. link' = {[url |-> url, at |-> now]} /\ url \in SUBSET Nat
    BY <1>6, <2>1 DEF LinkTypes
  <2>3. LinkTypes'
    <3>1. link' \in SUBSET [url : SUBSET Nat, at : 0..now] /\ AtMostOne(link')
      BY <1>2, <2>2 DEF AtMostOne
    <3>2. signing' \in [on : BOOLEAN, since : 0..now, read : SUBSET SUBSET Nat] /\ AtMostOne(signing'.read)
      BY <1>1, <1>2 DEF AtMostOne
    <3>3. left' \in 0..now /\ failed' \in BOOLEAN
      BY <1>1, <1>2, <1>6
    <3> QED
      BY <1>1, <3>1, <3>2, <3>3 DEF LinkTypes
  <2>4. \A s \in url : s <= now /\ now <= s + MaxDelay
    <3> SUFFICES ASSUME NEW s \in url PROVE s <= now /\ now <= s + MaxDelay
      OBVIOUS
    <3>1. signing.since <= s /\ s <= now /\ now <= signing.since + MaxDelay
      BY DEF SigningInv
    <3>2. signing.since \in Nat /\ s \in Nat
      BY <2>2 DEF LinkTypes
    <3> QED
      BY <1>2, <3>1, <3>2
  <2>5. url = {} => kind = "thumbnail" /\ \A t \in made : now <= t + MaxDelay
    <3> SUFFICES ASSUME url = {}, NEW t \in made PROVE kind = "thumbnail" /\ now <= t + MaxDelay
      BY DEF SigningInv
    <3>1. kind = "thumbnail" /\ signing.since <= t /\ now <= signing.since + MaxDelay
      BY DEF SigningInv
    <3>2. signing.since \in Nat /\ t \in Nat
      BY DEF LinkTypes
    <3> QED
      BY <1>2, <3>1, <3>2
  <2>6. looked < now + Stale
    BY <1>2
  <2>7. \A a \in link' : a.url = url /\ a.at = now
    BY <2>2
  <2>8. LinkInv'
    <3>1. link' # {}
      BY <2>2
    <3> QED
      BY <1>1, <1>2, <1>6, <2>4, <2>5, <2>6, <2>7, <3>1 DEF LinkInv
  <2> QED
    BY <1>3, <2>3, <2>8
<1> QED
  BY <1>4, <1>5, <1>6

\* Every step of the links keeps their invariant.
LEMMA LinksKeep == LinksInv /\ Previews!Next => LinksInv'
<1> SUFFICES ASSUME LinksInv, Previews!Next PROVE LinksInv'
  OBVIOUS
<1> USE DEF LinksInv
<1>1. CASE Previews!Open
  BY <1>1, LinkAskedFor DEF Previews!Open, LinkTypes
<1>2. CASE Previews!Look
  BY <1>2, LinkAskedFor DEF Previews!Look, LinkTypes
<1>3. CASE Previews!Leave
  <2>1. /\ viewing' = FALSE /\ left' = now /\ looked' = 0
        /\ UNCHANGED <<kind, now, made, link, signing, failed, failures>>
    BY <1>3 DEF Previews!Leave
  <2>2. now \in 0..now /\ 0 \in 0..now
    BY DEF LinkTypes
  <2>3. LinkTypes'
    BY <2>1, <2>2 DEF LinkTypes
  <2> QED
    BY <2>1, <2>3 DEF SigningInv, LinkInv, Previews!Settled
<1>4. CASE Previews!Collect
  BY <1>4 DEF Previews!Collect, LinkTypes, SigningInv, LinkInv, Previews!Settled, Previews!Nothing, AtMostOne
<1>5. CASE Previews!Signs
  <2> DEFINE url == IF made = {} THEN {} ELSE {now}
  <2>1. /\ signing.on /\ signing.read = {} /\ signing' = [signing EXCEPT !.read = {url}]
        /\ UNCHANGED <<kind, now, made, link, viewing, left, looked, failed, failures>>
    BY <1>5 DEF Previews!Signs, Previews!Nothing
  <2>2. url \in SUBSET Nat /\ \A s \in url : s = now
    BY DEF LinkTypes
  <2>3. url = {} => made = {}
    OBVIOUS
  <2> HIDE DEF url
  <2>4. signing'.on = signing.on /\ signing'.since = signing.since /\ signing'.read = {url}
    BY <2>1 DEF LinkTypes
  <2>5. LinkTypes'
    BY <2>1, <2>2, <2>4 DEF LinkTypes, AtMostOne
  <2>6. SigningInv'
    BY <2>1, <2>2, <2>3, <2>4 DEF LinkTypes, SigningInv, LinkInv
  <2>7. LinkInv'
    BY <2>1, <2>4 DEF LinkInv, Previews!Settled, Stale
  <2> QED
    BY <2>5, <2>6, <2>7
<1>6. CASE Previews!Lands
  BY <1>6, LinkRequestEnds DEF Previews!Lands, Previews!Nothing, SigningInv, LinkTypes
<1>7. CASE Previews!Fails
  <2>1. failures' \in Nat /\ failures' <= MaxFails
    BY <1>7, PreviewsAssumption DEF Previews!Fails, LinkTypes, Previews!LinksAssumption
  <2> QED
    BY <1>7, <2>1, LinkRequestEnds DEF Previews!Fails, Previews!Nothing
<1>8. CASE Previews!Made
  <2>1. made = {} /\ made' = {now} /\ UNCHANGED <<kind, now, link, signing, viewing, left, looked, failed, failures>>
    BY <1>8 DEF Previews!Made, Previews!Nothing
  <2>2. LinkTypes'
    BY <2>1 DEF LinkTypes, AtMostOne
  <2>3. SigningInv'
    BY <2>1 DEF LinkTypes, SigningInv
  <2>4. \A a \in link : a.at <= now + MaxDelay
    BY PreviewsAssumption DEF LinkTypes, Previews!LinksAssumption
  <2>5. LinkInv'
    BY <2>1, <2>4 DEF LinkInv, Previews!Settled, Stale
  <2> QED
    BY <2>2, <2>3, <2>5
<1>9. CASE Previews!Passes
  <2>1. /\ now < MaxTime /\ now' = now + 1 /\ (signing.on => now - signing.since < MaxDelay)
        /\ UNCHANGED <<kind, made, link, signing, viewing, left, looked, failed, failures>>
    BY <1>9 DEF Previews!Passes
  <2>2. MaxTime \in Nat /\ MaxDelay \in Nat /\ now \in Nat
    BY PreviewsAssumption DEF LinkTypes, Previews!LinksAssumption
  <2>3. LinkTypes'
    <3>1. 0..now \subseteq 0..now'
      BY <2>1, <2>2
    <3>2. [url : SUBSET Nat, at : 0..now] \subseteq [url : SUBSET Nat, at : 0..now']
      BY <3>1
    <3>3. [on : BOOLEAN, since : 0..now, read : SUBSET SUBSET Nat] \subseteq
            [on : BOOLEAN, since : 0..now', read : SUBSET SUBSET Nat]
      BY <3>1
    <3>4. /\ now' \in Nat /\ now' <= MaxTime
          /\ made \in SUBSET (0..now') /\ link \in SUBSET [url : SUBSET Nat, at : 0..now']
          /\ signing \in [on : BOOLEAN, since : 0..now', read : SUBSET SUBSET Nat]
          /\ looked \in 0..now' /\ left \in 0..now'
      BY <2>1, <2>2, <3>1, <3>2, <3>3 DEF LinkTypes
    <3> QED
      BY <2>1, <3>4 DEF LinkTypes, AtMostOne
  <2>4. SigningInv'
    <3>1. signing.on => now' <= signing.since + MaxDelay
      BY <2>1, <2>2 DEF LinkTypes
    <3>2. \A url \in signing.read : \A s \in url : s <= now'
      BY <2>1, <2>2 DEF LinkTypes, SigningInv
    <3> QED
      BY <2>1, <3>1, <3>2 DEF SigningInv
  <2>5. LinkInv'
    BY <2>1 DEF LinkInv, Previews!Settled, Stale
  <2> QED
    BY <2>3, <2>4, <2>5
<1> QED
  BY <1>1, <1>2, <1>3, <1>4, <1>5, <1>6, <1>7, <1>8, <1>9 DEF Previews!Next

-----------------------------------------------------------------------------
(* Secrets that are answered once *)

\* The requests of the screen.
KeyCalls == 1..Len(requests)
KeyCall ==
  [hook : {"create", "rotate", "revoke"}, key : {K \in SUBSET Keys : AtMostOne(K)},
   at : {"sent", "found", "refused", "done", "answered", "lost"}, secret : Nat]

SecretTypes ==
  /\ status \in [Keys -> {"none", "live", "revoked"}] /\ minted \in Nat /\ secret \in [Keys -> 0..minted]
  /\ listed \in SUBSET Keys /\ creating \in BOOLEAN /\ hasty \in BOOLEAN
  /\ requests \in Seq(KeyCall) /\ Len(requests) <= MaxRequests
  /\ AtMostOne(dialog) /\ others \in Nat /\ others <= MaxLost

\* The requests of this screen that have minted a secret of the key.
Minters(k) == {i \in KeyCalls : requests[i].hook \in Secrets!Mints /\ k \in requests[i].key /\ requests[i].secret # 0}

\* A request has a secret once it is done. The only one that has minted for a
\* key has minted the secret the key has.
MintedInv ==
  /\ \A i \in KeyCalls :
       /\ requests[i].secret # 0 => requests[i].at \in {"done", "answered", "lost"} /\ requests[i].hook \in Secrets!Mints
       /\ requests[i].at \in {"done", "answered"} /\ requests[i].hook \in Secrets!Mints => requests[i].secret # 0
       /\ requests[i].at = "found" => requests[i].hook = "rotate"
  /\ \A k \in Keys \ foreign : \A i \in Minters(k) : Minters(k) = {i} => secret[k] = requests[i].secret

\* What is shown was answered.
DialogInv ==
  \A d \in dialog : \E i \in KeyCalls :
    requests[i].at = "answered" /\ i \in Minters(d[1]) /\ d = <<d[1], requests[i].secret>>

Waiting(i) == requests[i].hook \in Secrets!Mints /\ requests[i].at \in {"sent", "found", "done"}

\* While the user waits for a secret nothing else is asked for that could
\* replace it, and what it will replace is saved.
PatientInv ==
  ~hasty =>
    \A i \in KeyCalls : Waiting(i) =>
      dialog \subseteq saved /\ \A j \in KeyCalls : j > i => requests[j].hook \notin Secrets!Mints

\* The secret of a key is known, or on its way, or its answer was lost.
IsKnown(k) ==
  \/ k \in Old /\ secret[k] = 0
  \/ \E i \in Minters(k) :
       /\ requests[i].secret = secret[k]
       /\ requests[i].at = "answered" /\ ~hasty => <<k, secret[k]>> \in saved \cup dialog
KnownInv == \A k \in Keys : status[k] = "live" /\ k \notin foreign => IsKnown(k)

SecretsInv == SecretTypes /\ MintedInv /\ DialogInv /\ PatientInv /\ KnownInv

\* The invariant of the secrets says what their properties say.
LEMMA SecretsAreSound == SecretsInv => Secrets!TypeOK /\ Secrets!ShownSecretWorks /\ Secrets!NoSecretIsLost
<1> SUFFICES ASSUME SecretsInv PROVE Secrets!TypeOK /\ Secrets!ShownSecretWorks /\ Secrets!NoSecretIsLost
  OBVIOUS
<1> USE DEF SecretsInv
<1>1. \A S : Secrets!Cardinality(S) = Cardinality(S)
  BY Zenon DEF Secrets!Cardinality, Cardinality
<1>2. DOMAIN requests = KeyCalls /\ Len(requests) \in Nat /\ \A i \in KeyCalls : requests[i] \in KeyCall
  BY DEF SecretTypes, KeyCalls
<1>3. Secrets!TypeOK
  BY <1>1, CountsOne DEF SecretTypes, Secrets!TypeOK
<1>4. Secrets!ShownSecretWorks
  <2> SUFFICES ASSUME NEW d \in dialog, d[1] \notin foreign, Cardinality(Secrets!Writers(d[1])) = 1
               PROVE  secret[d[1]] = d[2]
    BY <1>1 DEF Secrets!ShownSecretWorks
  <2>1. PICK i \in KeyCalls : requests[i].at = "answered" /\ i \in Minters(d[1]) /\ d = <<d[1], requests[i].secret>>
    BY DEF DialogInv
  <2>2. d[1] \in Keys
    BY <1>2, <2>1 DEF Minters, KeyCall
  <2>3. Minters(d[1]) \subseteq Secrets!Writers(d[1])
    BY <1>2 DEF Minters, MintedInv, Secrets!Writers
  <2>4. IsFiniteSet(Secrets!Writers(d[1]))
    <3>1. Secrets!Writers(d[1]) \in SUBSET (1..Len(requests))
      BY <1>2 DEF Secrets!Writers, KeyCalls
    <3>2. IsFiniteSet(1..Len(requests))
      BY <1>2, FS_Interval
    <3> QED
      BY <3>1, <3>2, FS_Subset
  <2>5. PICK j : Secrets!Writers(d[1]) = {j}
    BY <2>4, FS_Singleton
  <2>6. Minters(d[1]) = {i}
    BY <2>1, <2>3, <2>5
  <2> QED
    BY <2>1, <2>2, <2>6 DEF MintedInv
<1>5. Secrets!NoSecretIsLost
  <2> SUFFICES ASSUME Secrets!Underway = {}, Secrets!At("lost") = {}, ~hasty,
                      NEW k \in Keys, status[k] = "live", k \notin foreign
               PROVE  (k \in Old /\ secret[k] = 0) \/ <<k, secret[k]>> \in saved \cup dialog
    BY DEF Secrets!NoSecretIsLost, Secrets!Live
  <2>1. \A i \in KeyCalls : requests[i].at \notin {"sent", "found", "done", "lost"}
    BY <1>2 DEF Secrets!Underway, Secrets!At
  <2>2. IsKnown(k)
    BY DEF KnownInv
  <2>3. ASSUME NEW i \in Minters(k) PROVE requests[i].at = "answered"
    BY <2>1, <2>3 DEF Minters, MintedInv
  <2> QED
    BY <2>2, <2>3 DEF IsKnown
<1> QED
  BY <1>3, <1>4, <1>5

\* It holds at first.
LEMMA InitSecrets == Secrets!Init => SecretsInv
<1> SUFFICES ASSUME Secrets!Init PROVE SecretsInv
  OBVIOUS
<1>1. requests = <<>> /\ Len(requests) = 0 /\ KeyCalls = {} /\ requests \in Seq(KeyCall)
  BY EmptySeq DEF Secrets!Init, KeyCalls
<1>2. SecretTypes
  <2>1. status \in [Keys -> {"none", "live", "revoked"}] /\ minted = 0 /\ secret \in [Keys -> 0..minted]
    BY DEF Secrets!Init
  <2>2. others \in Nat /\ others <= MaxLost /\ Len(requests) <= MaxRequests /\ listed \in SUBSET Keys
    BY <1>1, KeysAssumption DEF Secrets!Init, Secrets!SecretsAssumption
  <2>3. AtMostOne(dialog) /\ creating \in BOOLEAN /\ hasty \in BOOLEAN
    BY DEF Secrets!Init, AtMostOne
  <2> QED
    BY <1>1, <2>1, <2>2, <2>3 DEF SecretTypes
<1> QED
  BY <1>1, <1>2 DEF Secrets!Init, SecretsInv, MintedInv, DialogInv, PatientInv, KnownInv, IsKnown, Minters

\* One request moves on: the others stay what they are.
LEMMA KeyCallMoves ==
  ASSUME SecretTypes, NEW i \in KeyCalls, NEW c \in KeyCall, requests' = [requests EXCEPT ![i] = c]
  PROVE  /\ requests' \in Seq(KeyCall) /\ Len(requests') = Len(requests) /\ KeyCalls' = KeyCalls
         /\ requests'[i] = c /\ \A j \in KeyCalls : j # i => requests'[j] = requests[j]
  BY ExceptSeq DEF SecretTypes, KeyCalls

\* A request is one wherever it has got to.
LEMMA IsCall ==
  ASSUME SecretTypes, NEW i \in KeyCalls
  PROVE  /\ requests[i] \in KeyCall
         /\ \A p \in {"found", "refused", "done", "answered", "lost"} : [requests[i] EXCEPT !.at = p] \in KeyCall
<1>1. requests[i] \in KeyCall
  BY DEF SecretTypes, KeyCalls
<1> QED
  BY <1>1 DEF KeyCall

\* A request that has minted a secret for a key.
KeyCallDone(c, k, n) == [c EXCEPT !.at = "done", !.key = {k}, !.secret = n]

\* It is a request.
LEMMA KeyCallDoneFits ==
  ASSUME NEW c \in KeyCall, NEW k \in Keys, NEW n \in Nat
  PROVE  LET d == KeyCallDone(c, k, n) IN
         d \in KeyCall /\ d.at = "done" /\ d.key = {k} /\ d.secret = n /\ d.hook = c.hook
<1>1. {k} \in {K \in SUBSET Keys : AtMostOne(K)}
  BY DEF AtMostOne
<1> QED
  BY <1>1 DEF KeyCall, KeyCallDone

\* A request mints a secret for a key.
LEMMA Minting ==
  ASSUME SecretsInv, NEW i \in KeyCalls, NEW k \in Keys, requests[i].at \in {"sent", "found"},
         requests[i].hook \in Secrets!Mints, Secrets!Minted(i, k),
         status' \in [Keys -> {"none", "live", "revoked"}],
         \A l \in Keys : l # k => status'[l] = status[l],
         UNCHANGED <<listed, creating, dialog, saved, hasty, others, foreign>>
  PROVE  SecretsInv'
<1> DEFINE c == KeyCallDone(requests[i], k, minted + 1)
<1>1. /\ minted' = minted + 1 /\ secret' = [secret EXCEPT ![k] = minted + 1]
      /\ requests' = [requests EXCEPT ![i] = c]
  BY DEF Secrets!Minted, KeyCallDone
<1>2. minted \in Nat /\ requests[i] \in KeyCall /\ requests[i].secret = 0
  BY IsCall DEF SecretsInv, SecretTypes, MintedInv
<1>3. c \in KeyCall /\ c.at = "done" /\ c.key = {k} /\ c.secret = minted + 1 /\ c.hook = requests[i].hook
  <2>1. minted + 1 \in Nat
    BY <1>2
  <2> QED
    BY <1>2, <2>1, KeyCallDoneFits
<1> HIDE DEF c
<1> USE DEF SecretsInv
<1>4. /\ requests' \in Seq(KeyCall) /\ Len(requests') = Len(requests) /\ KeyCalls' = KeyCalls
      /\ requests'[i] = c /\ \A j \in KeyCalls : j # i => requests'[j] = requests[j]
  BY <1>1, <1>3, KeyCallMoves
<1>5. secret'[k] = minted + 1 /\ \A l \in Keys : l # k => secret'[l] = secret[l]
  BY <1>1 DEF SecretTypes
<1>6. Minters(k)' = Minters(k) \cup {i} /\ i \notin Minters(k) /\ \A l \in Keys : l # k => Minters(l)' = Minters(l)
  BY <1>2, <1>3, <1>4 DEF Minters
<1>7. SecretTypes'
  BY <1>1, <1>2, <1>4 DEF SecretTypes
<1>8. MintedInv'
  <2>1. \A j \in KeyCalls :
       /\ requests'[j].secret # 0 => requests'[j].at \in {"done", "answered", "lost"} /\ requests'[j].hook \in Secrets!Mints
       /\ requests'[j].at \in {"done", "answered"} /\ requests'[j].hook \in Secrets!Mints => requests'[j].secret # 0
       /\ requests'[j].at = "found" => requests'[j].hook = "rotate"
    BY <1>2, <1>3, <1>4 DEF MintedInv
  <2>2. ASSUME NEW l \in Keys, l \notin foreign, NEW j \in Minters(l)', Minters(l)' = {j}
        PROVE  secret'[l] = requests'[j].secret
    <3>1. CASE l = k
      BY <1>3, <1>4, <1>5, <1>6, <2>2, <3>1
    <3>2. CASE l # k
      <4>1. j \in KeyCalls /\ j # i /\ secret[l] = requests[j].secret
        BY <1>2, <1>6, <2>2, <3>2 DEF MintedInv, Minters
      <4> QED
        BY <1>4, <1>5, <3>2, <4>1
    <3> QED
      BY <3>1, <3>2
  <2> QED
    BY <1>4, <2>1, <2>2 DEF MintedInv
<1>9. DialogInv'
  <2> SUFFICES ASSUME NEW d \in dialog
               PROVE  \E j \in KeyCalls : /\ requests'[j].at = "answered" /\ j \in Minters(d[1])'
                                      /\ d = <<d[1], requests'[j].secret>>
    BY <1>4 DEF DialogInv
  <2>1. PICK j \in KeyCalls : requests[j].at = "answered" /\ j \in Minters(d[1]) /\ d = <<d[1], requests[j].secret>>
    BY DEF DialogInv
  <2>2. j # i /\ requests'[j] = requests[j]
    BY <1>4, <2>1
  <2> QED
    BY <1>4, <2>1, <2>2 DEF Minters
<1>10. PatientInv'
  BY <1>3, <1>4 DEF PatientInv, Waiting
<1>11. KnownInv'
  <2> SUFFICES ASSUME NEW l \in Keys, status'[l] = "live", l \notin foreign PROVE IsKnown(l)'
    BY DEF KnownInv
  <2>1. CASE l = k
    BY <1>3, <1>4, <1>5, <1>6, <2>1 DEF IsKnown
  <2>2. CASE l # k
    <3>1. IsKnown(l)
      BY <2>2 DEF KnownInv
    <3>2. \A j \in Minters(l) : requests'[j] = requests[j]
      BY <1>2, <1>4 DEF Minters
    <3> QED
      BY <1>5, <1>6, <2>2, <3>1, <3>2 DEF IsKnown
  <2> QED
    BY <2>1, <2>2
<1> QED
  BY <1>7, <1>8, <1>9, <1>10, <1>11

\* A request goes on that mints nothing now.
LEMMA MintsNothing ==
  ASSUME SecretsInv, NEW i \in KeyCalls, NEW p \in {"found", "refused", "done", "lost"}, Secrets!Goes(i, p),
         requests[i].at \in {"sent", "found", "done"},
         p \in {"found", "refused"} => requests[i].at = "sent",
         p = "found" => requests[i].hook = "rotate",
         p = "done" => requests[i].hook = "revoke",
         status' \in [Keys -> {"none", "live", "revoked"}],
         \A l \in Keys : status'[l] = "live" => status[l] = "live",
         others' \in Nat, others' <= MaxLost,
         UNCHANGED <<secret, minted, listed, creating, dialog, saved, hasty, foreign>>
  PROVE  SecretsInv'
<1> USE DEF SecretsInv
<1> DEFINE c == [requests[i] EXCEPT !.at = p]
<1>1. requests' = [requests EXCEPT ![i] = c]
  BY DEF Secrets!Goes
<1>2. c \in KeyCall /\ requests[i] \in KeyCall
  BY IsCall
<1>3. c.at = p /\ c.key = requests[i].key /\ c.secret = requests[i].secret /\ c.hook = requests[i].hook
  BY <1>2 DEF KeyCall
<1> HIDE DEF c
<1>4. /\ requests' \in Seq(KeyCall) /\ Len(requests') = Len(requests) /\ KeyCalls' = KeyCalls
      /\ requests'[i] = c /\ \A j \in KeyCalls : j # i => requests'[j] = requests[j]
  BY <1>1, <1>2, KeyCallMoves
<1>5. \A l : Minters(l)' = Minters(l)
  BY <1>3, <1>4 DEF Minters
<1>6. \A j \in KeyCalls : requests'[j].secret = requests[j].secret /\ requests'[j].hook = requests[j].hook
  BY <1>3, <1>4
<1>7. SecretTypes'
  BY <1>4 DEF SecretTypes
<1>8. MintedInv'
  <2>1. \A j \in KeyCalls :
       /\ requests'[j].secret # 0 => requests'[j].at \in {"done", "answered", "lost"} /\ requests'[j].hook \in Secrets!Mints
       /\ requests'[j].at \in {"done", "answered"} /\ requests'[j].hook \in Secrets!Mints => requests'[j].secret # 0
       /\ requests'[j].at = "found" => requests'[j].hook = "rotate"
    BY <1>2, <1>3, <1>4 DEF MintedInv, Secrets!Mints
  <2>2. \A l \in Keys \ foreign : \A j \in Minters(l) : Minters(l) = {j} => secret[l] = requests'[j].secret
    BY <1>6 DEF MintedInv, Minters
  <2> QED
    BY <1>4, <1>5, <2>1, <2>2 DEF MintedInv
<1>9. DialogInv'
  <2> SUFFICES ASSUME NEW d \in dialog
               PROVE  \E j \in KeyCalls : /\ requests'[j].at = "answered" /\ j \in Minters(d[1])
                                      /\ d = <<d[1], requests'[j].secret>>
    BY <1>4, <1>5 DEF DialogInv
  <2>1. PICK j \in KeyCalls : requests[j].at = "answered" /\ j \in Minters(d[1]) /\ d = <<d[1], requests[j].secret>>
    BY DEF DialogInv
  <2> QED
    BY <1>4, <2>1
<1>10. PatientInv'
  BY <1>3, <1>4, <1>6 DEF PatientInv, Waiting
<1>11. KnownInv'
  <2> SUFFICES ASSUME NEW l \in Keys, status'[l] = "live", l \notin foreign PROVE IsKnown(l)'
    BY DEF KnownInv
  <2>1. IsKnown(l)
    BY DEF KnownInv
  <2>2. \A j \in Minters(l) : requests'[j].secret = requests[j].secret /\ (requests'[j].at = "answered" => requests[j].at = "answered")
    BY <1>3, <1>4, <1>6 DEF Minters
  <2> QED
    BY <1>5, <2>1, <2>2 DEF IsKnown
<1> QED
  BY <1>7, <1>8, <1>9, <1>10, <1>11

\* A request is sent.
LEMMA KeyCallSent ==
  ASSUME SecretsInv, NEW h \in {"create", "rotate", "revoke"}, NEW K \in {L \in SUBSET Keys : AtMostOne(L)},
         Secrets!Sends(h, K), UNCHANGED <<status, secret, minted, listed, creating, dialog, saved, others, foreign>>
  PROVE  SecretsInv'
<1> USE DEF SecretsInv
<1> DEFINE c == [hook |-> h, key |-> K, at |-> "sent", secret |-> 0]
           n == Len(requests) + 1
<1>1. /\ Len(requests) < MaxRequests /\ requests' = Append(requests, c)
      /\ hasty' = (hasty \/ (h \in Secrets!Mints
           /\ (Secrets!Unsaved \/ \E i \in Secrets!Underway : requests[i].hook \in Secrets!Mints)))
  BY DEF Secrets!Sends
<1>2. c \in KeyCall /\ c.secret = 0 /\ c.at = "sent" /\ c.hook = h
  BY DEF KeyCall
<1> HIDE DEF c
<1>3. Len(requests) \in Nat /\ DOMAIN requests = KeyCalls
  BY DEF SecretTypes, KeyCalls
<1>4. /\ requests' \in Seq(KeyCall) /\ Len(requests') = n /\ requests'[n] = c
      /\ \A i \in KeyCalls : requests'[i] = requests[i]
  BY <1>1, <1>2, AppendProperties DEF SecretTypes, KeyCalls
<1>5. KeyCalls' = KeyCalls \cup {n} /\ n \notin KeyCalls /\ \A i \in KeyCalls : n > i
  BY <1>3, <1>4 DEF KeyCalls
<1> HIDE DEF n
<1>6. \A k : Minters(k)' = Minters(k)
  BY <1>2, <1>4, <1>5 DEF Minters
<1>7. hasty \in BOOLEAN /\ hasty' \in BOOLEAN /\ (~hasty' => ~hasty)
  BY <1>1 DEF SecretTypes
<1>8. SecretTypes'
  <2>1. Len(requests') <= MaxRequests
    BY <1>1, <1>3, <1>4, KeysAssumption DEF n, Secrets!SecretsAssumption
  <2> QED
    BY <1>4, <1>7, <2>1 DEF SecretTypes
<1>9. MintedInv'
  <2>1. \A j \in KeyCalls \cup {n} :
       /\ requests'[j].secret # 0 => requests'[j].at \in {"done", "answered", "lost"} /\ requests'[j].hook \in Secrets!Mints
       /\ requests'[j].at \in {"done", "answered"} /\ requests'[j].hook \in Secrets!Mints => requests'[j].secret # 0
       /\ requests'[j].at = "found" => requests'[j].hook = "rotate"
    BY <1>2, <1>4 DEF MintedInv
  <2>2. \A l \in Keys \ foreign : \A j \in Minters(l) : Minters(l) = {j} => secret[l] = requests'[j].secret
    BY <1>4 DEF MintedInv, Minters
  <2> QED
    BY <1>5, <1>6, <2>1, <2>2 DEF MintedInv
<1>10. DialogInv'
  <2> SUFFICES ASSUME NEW d \in dialog
               PROVE  \E j \in KeyCalls : /\ requests'[j].at = "answered" /\ j \in Minters(d[1])
                                      /\ d = <<d[1], requests'[j].secret>>
    BY <1>5, <1>6 DEF DialogInv
  <2> QED
    BY <1>4 DEF DialogInv
<1>11. PatientInv'
  <2> SUFFICES ASSUME ~hasty', NEW i \in KeyCalls \cup {n}, Waiting(i)'
               PROVE  dialog \subseteq saved /\ \A j \in KeyCalls \cup {n} : j > i => requests'[j].hook \notin Secrets!Mints
    BY <1>5 DEF PatientInv
  <2>1. CASE i \in KeyCalls
    <3>1. Waiting(i) /\ requests[i].hook \in Secrets!Mints /\ i \in Secrets!Underway
      BY <1>3, <1>4, <2>1 DEF Waiting, Secrets!Underway, Secrets!At
    <3>2. h \notin Secrets!Mints
      BY <1>1, <3>1
    <3> QED
      BY <1>2, <1>4, <1>7, <2>1, <3>1, <3>2 DEF PatientInv
  <2>2. CASE i = n
    <3>1. h \in Secrets!Mints
      BY <1>2, <1>4, <2>2 DEF Waiting
    <3>2. dialog \subseteq saved
      BY <1>1, <3>1 DEF Secrets!Unsaved
    <3>3. \A j \in KeyCalls \cup {n} : ~(j > n)
      BY <1>3 DEF n, KeyCalls
    <3> QED
      BY <2>2, <3>2, <3>3
  <2> QED
    BY <2>1, <2>2
<1>12. KnownInv'
  <2> SUFFICES ASSUME NEW l \in Keys, status[l] = "live", l \notin foreign PROVE IsKnown(l)'
    BY DEF KnownInv
  <2>1. IsKnown(l)
    BY DEF KnownInv
  <2>2. \A j \in Minters(l) : requests'[j] = requests[j]
    BY <1>4 DEF Minters
  <2> QED
    BY <1>6, <1>7, <2>1, <2>2 DEF IsKnown
<1> QED
  BY <1>8, <1>9, <1>10, <1>11, <1>12

\* Every step of the secrets keeps their invariant.
LEMMA SecretsKeep == SecretsInv /\ Secrets!Next => SecretsInv'
<1> SUFFICES ASSUME SecretsInv, Secrets!Next PROVE SecretsInv'
  OBVIOUS
<1> USE DEF SecretsInv
<1>0. DOMAIN requests = KeyCalls /\ Len(requests) \in Nat /\ \A i \in KeyCalls : requests[i] \in KeyCall
  BY DEF SecretTypes, KeyCalls
<1>1. CASE Secrets!OpenForm \/ Secrets!Lists
  <2>1. /\ creating' \in BOOLEAN /\ listed' \in SUBSET Keys
        /\ UNCHANGED <<status, secret, minted, requests, dialog, saved, hasty, others, foreign>>
    BY <1>1 DEF Secrets!OpenForm, Secrets!Lists, Secrets!rowVars, Secrets!userVars, Secrets!Live, SecretTypes
  <2> QED
    BY <2>1 DEF SecretTypes, MintedInv, DialogInv, PatientInv, KnownInv, IsKnown, Waiting, Minters, KeyCalls
<1>2. CASE Secrets!Create
  <2>1. {} \in {L \in SUBSET Keys : AtMostOne(L)}
    BY DEF AtMostOne
  <2> QED
    BY <1>2, <2>1, KeyCallSent DEF Secrets!Create, Secrets!rowVars
<1>3. CASE Secrets!Copy
  <2>1. saved' = saved \cup dialog
        /\ UNCHANGED <<status, secret, minted, listed, creating, requests, dialog, hasty, others, foreign>>
    BY <1>3 DEF Secrets!Copy, Secrets!rowVars
  <2> QED
    BY <2>1 DEF SecretTypes, MintedInv, DialogInv, PatientInv, KnownInv, IsKnown, Waiting, Minters, KeyCalls
<1>4. CASE Secrets!Close
  <2>1. /\ dialog' = {} /\ hasty' = (hasty \/ ~(dialog \subseteq saved))
        /\ UNCHANGED <<status, secret, minted, listed, creating, requests, saved, others, foreign>>
    BY <1>4 DEF Secrets!Close, Secrets!rowVars, Secrets!Unsaved
  <2>2. SecretTypes' /\ MintedInv' /\ DialogInv' /\ PatientInv'
    BY <2>1 DEF SecretTypes, AtMostOne, MintedInv, DialogInv, PatientInv, Waiting, Minters, KeyCalls
  <2>3. KnownInv'
    BY <2>1 DEF KnownInv, IsKnown, Minters, KeyCalls
  <2> QED
    BY <2>2, <2>3
<1>5. ASSUME NEW k \in Keys, Secrets!Rotate(k) \/ Secrets!Revoke(k) PROVE SecretsInv'
  <2>1. {k} \in {L \in SUBSET Keys : AtMostOne(L)}
    BY DEF AtMostOne
  <2> QED
    BY <1>5, <2>1, KeyCallSent DEF Secrets!Rotate, Secrets!Revoke, Secrets!rowVars
<1>6. ASSUME NEW k \in Keys, Secrets!Elsewhere(k) PROVE SecretsInv'
  <2>1. /\ others < MaxLost /\ others' = others + 1 /\ foreign' = foreign \cup {k}
        /\ UNCHANGED <<listed, creating, requests, dialog, saved, hasty>>
    BY <1>6 DEF Secrets!Elsewhere, Secrets!userVars
  <2>2. \/ minted' = minted + 1 /\ secret' = [secret EXCEPT ![k] = minted + 1] /\ UNCHANGED status
        \/ status' = [status EXCEPT ![k] = "revoked"] /\ UNCHANGED <<secret, minted>>
    BY <1>6 DEF Secrets!Elsewhere
  <2>3. /\ status' \in [Keys -> {"none", "live", "revoked"}] /\ minted' \in Nat /\ secret' \in [Keys -> 0..minted']
        /\ \A l \in Keys : l # k => status'[l] = status[l] /\ secret'[l] = secret[l]
    BY <2>2 DEF SecretTypes
  <2>4. others' \in Nat /\ others' <= MaxLost
    BY <2>1, KeysAssumption DEF SecretTypes, Secrets!SecretsAssumption
  <2>5. SecretTypes'
    BY <2>1, <2>3, <2>4 DEF SecretTypes
  <2>6. KeyCalls' = KeyCalls /\ \A l : Minters(l)' = Minters(l)
    BY <2>1 DEF KeyCalls, Minters
  <2>7. MintedInv' /\ DialogInv' /\ PatientInv'
    BY <2>1, <2>3, <2>6 DEF MintedInv, DialogInv, PatientInv, Waiting
  <2>8. KnownInv'
    BY <2>1, <2>3, <2>6 DEF KnownInv, IsKnown
  <2> QED
    BY <2>5, <2>7, <2>8
<1>7. ASSUME NEW i \in KeyCalls, Secrets!Inserts(i) PROVE SecretsInv'
  <2>1. PICK k \in Keys : status' = [status EXCEPT ![k] = "live"] /\ Secrets!Minted(i, k)
    BY <1>7 DEF Secrets!Inserts
  <2>2. requests[i].at = "sent" /\ requests[i].hook \in Secrets!Mints
    BY <1>7 DEF Secrets!Inserts, Secrets!At, Secrets!Mints
  <2>3. status' \in [Keys -> {"none", "live", "revoked"}] /\ \A l \in Keys : l # k => status'[l] = status[l]
    BY <2>1 DEF SecretTypes
  <2> QED
    BY <1>7, <2>1, <2>2, <2>3, Minting DEF Secrets!Inserts, Secrets!userVars
<1>8. ASSUME NEW i \in KeyCalls, Secrets!Finds(i) PROVE SecretsInv'
  <2>1. PICK p \in {"found", "refused"} : Secrets!Goes(i, p)
    BY <1>8 DEF Secrets!Finds
  <2>2. requests[i].at = "sent" /\ requests[i].hook = "rotate"
    BY <1>8 DEF Secrets!Finds, Secrets!At
  <2> QED
    BY <1>8, <2>1, <2>2, MintsNothing DEF Secrets!Finds, Secrets!rowVars, Secrets!userVars, SecretTypes
<1>9. ASSUME NEW i \in KeyCalls, Secrets!Updates(i) PROVE SecretsInv'
  <2>1. PICK k \in requests[i].key : Secrets!Minted(i, k)
    BY <1>9 DEF Secrets!Updates
  <2>2. k \in Keys
    BY <1>0 DEF KeyCall
  <2>3. requests[i].at = "found" /\ requests[i].hook \in Secrets!Mints
    BY <1>9 DEF Secrets!Updates, Secrets!At, Secrets!Mints, MintedInv
  <2> QED
    BY <1>9, <2>1, <2>2, <2>3, Minting DEF Secrets!Updates, Secrets!userVars, SecretTypes
<1>10. ASSUME NEW i \in KeyCalls, Secrets!Revokes(i) PROVE SecretsInv'
  <2>1. PICK p \in {"done", "refused"} : Secrets!Goes(i, p)
    BY <1>10 DEF Secrets!Revokes
  <2>2. requests[i].at = "sent" /\ requests[i].hook = "revoke"
    BY <1>10 DEF Secrets!Revokes, Secrets!At
  <2>3. /\ status' \in [Keys -> {"none", "live", "revoked"}]
        /\ \A l \in Keys : status'[l] = "live" => status[l] = "live"
    BY <1>10 DEF Secrets!Revokes, SecretTypes
  <2> QED
    BY <1>10, <2>1, <2>2, <2>3, MintsNothing DEF Secrets!Revokes, Secrets!userVars, SecretTypes
<1>11. ASSUME NEW i \in KeyCalls, Secrets!Loses(i) PROVE SecretsInv'
  <2>1. requests[i].at \in {"sent", "found", "done"}
    BY <1>11 DEF Secrets!Loses, Secrets!Underway, Secrets!At
  <2>2. others' \in Nat /\ others' <= MaxLost
    BY <1>11, KeysAssumption DEF Secrets!Loses, SecretTypes, Secrets!SecretsAssumption
  <2> QED
    BY <1>11, <2>1, <2>2, MintsNothing DEF Secrets!Loses, Secrets!rowVars, Secrets!userVars, SecretTypes
<1>12. ASSUME NEW i \in KeyCalls, Secrets!Answered(i) PROVE SecretsInv'
  <2> DEFINE c == [requests[i] EXCEPT !.at = "answered"]
             tells == requests[i].hook \in Secrets!Mints /\ Secrets!Told(i)
  <2>1. /\ requests[i].at = "done" /\ requests' = [requests EXCEPT ![i] = c]
        /\ dialog' = IF tells THEN Secrets!Shows(i) ELSE dialog
        /\ creating' \in BOOLEAN
        /\ UNCHANGED <<status, secret, minted, listed, saved, hasty, others, foreign>>
    BY <1>12 DEF Secrets!Answered, Secrets!At, Secrets!Goes, Secrets!rowVars, Secrets!userVars, SecretTypes
  <2>2. c \in KeyCall /\ requests[i] \in KeyCall
    BY IsCall
  <2>3. c.at = "answered" /\ c.key = requests[i].key /\ c.secret = requests[i].secret /\ c.hook = requests[i].hook
    BY <2>2 DEF KeyCall
  <2> HIDE DEF c
  <2>4. /\ requests' \in Seq(KeyCall) /\ Len(requests') = Len(requests) /\ KeyCalls' = KeyCalls
        /\ requests'[i] = c /\ \A j \in KeyCalls : j # i => requests'[j] = requests[j]
    BY <2>1, <2>2, KeyCallMoves
  <2>5. \A l : Minters(l)' = Minters(l)
    BY <2>3, <2>4 DEF Minters
  <2>6. \A j \in KeyCalls : requests'[j].secret = requests[j].secret /\ requests'[j].hook = requests[j].hook
    BY <2>3, <2>4
  <2>7. Secrets!Shows(i) = {<<k, requests[i].secret>> : k \in requests[i].key}
    BY DEF Secrets!Shows
  <2>8. tells => requests[i].secret # 0
    BY <2>1 DEF MintedInv
  <2>9. SecretTypes'
    <3>1. AtMostOne(dialog')
      BY <2>1, <2>2, <2>7 DEF SecretTypes, AtMostOne, KeyCall
    <3> QED
      BY <2>1, <2>4, <3>1 DEF SecretTypes
  <2>10. MintedInv'
    <3>1. \A j \in KeyCalls :
         /\ requests'[j].secret # 0 => requests'[j].at \in {"done", "answered", "lost"} /\ requests'[j].hook \in Secrets!Mints
         /\ requests'[j].at \in {"done", "answered"} /\ requests'[j].hook \in Secrets!Mints => requests'[j].secret # 0
         /\ requests'[j].at = "found" => requests'[j].hook = "rotate"
      BY <2>1, <2>3, <2>4 DEF MintedInv
    <3>2. \A l \in Keys \ foreign : \A j \in Minters(l) : Minters(l) = {j} => secret[l] = requests'[j].secret
      BY <2>6 DEF MintedInv, Minters
    <3> QED
      BY <2>1, <2>4, <2>5, <3>1, <3>2 DEF MintedInv
  <2>11. DialogInv'
    <3> SUFFICES ASSUME NEW d \in dialog'
                 PROVE  \E j \in KeyCalls : /\ requests'[j].at = "answered" /\ j \in Minters(d[1])
                                        /\ d = <<d[1], requests'[j].secret>>
      BY <2>4, <2>5 DEF DialogInv
    <3>1. CASE tells
      <4>1. PICK k \in requests[i].key : d = <<k, requests[i].secret>>
        BY <2>1, <2>7, <3>1
      <4>2. i \in Minters(d[1])
        BY <2>8, <3>1, <4>1 DEF Minters
      <4> QED
        BY <2>3, <2>4, <4>1, <4>2
    <3>2. CASE ~tells
      <4>1. PICK j \in KeyCalls : requests[j].at = "answered" /\ j \in Minters(d[1]) /\ d = <<d[1], requests[j].secret>>
        BY <2>1, <3>2 DEF DialogInv
      <4> QED
        BY <2>1, <2>4, <4>1
    <3> QED
      BY <3>1, <3>2
  <2>12. ASSUME ~hasty, requests[i].hook \in Secrets!Mints PROVE tells /\ dialog \subseteq saved
    <3>1. Waiting(i)
      BY <2>1, <2>12 DEF Waiting
    <3>2. dialog \subseteq saved /\ \A j \in KeyCalls : j > i => requests[j].hook \notin Secrets!Mints
      BY <2>12, <3>1 DEF PatientInv
    <3> QED
      BY <1>0, <2>12, <3>2 DEF Secrets!Told
  <2>13. PatientInv'
    <3> SUFFICES ASSUME ~hasty, NEW j \in KeyCalls, Waiting(j)'
                 PROVE  dialog' \subseteq saved /\ \A l \in KeyCalls : l > j => requests'[l].hook \notin Secrets!Mints
      BY <2>1, <2>4 DEF PatientInv
    <3>1. j # i /\ Waiting(j)
      BY <2>3, <2>4 DEF Waiting
    <3>2. dialog \subseteq saved /\ \A l \in KeyCalls : l > j => requests'[l].hook \notin Secrets!Mints
      BY <2>6, <3>1 DEF PatientInv
    <3>3. requests[i].hook \notin Secrets!Mints
      <4> SUFFICES ASSUME requests[i].hook \in Secrets!Mints PROVE FALSE
        OBVIOUS
      <4>1. Waiting(i)
        BY <2>1 DEF Waiting
      <4>2. ~(i > j) /\ ~(j > i)
        BY <3>1, <4>1 DEF PatientInv, Waiting
      <4> QED
        BY <1>0, <3>1, <4>2 DEF KeyCalls
    <3> QED
      BY <2>1, <3>2, <3>3
  <2>14. KnownInv'
    <3> SUFFICES ASSUME NEW l \in Keys, status[l] = "live", l \notin foreign PROVE IsKnown(l)'
      BY <2>1 DEF KnownInv
    <3>1. IsKnown(l)
      BY DEF KnownInv
    <3> SUFFICES ASSUME NEW j \in Minters(l), requests[j].secret = secret[l],
                        requests[j].at = "answered" /\ ~hasty => <<l, secret[l]>> \in saved \cup dialog
                 PROVE  requests'[j].at = "answered" /\ ~hasty => <<l, secret[l]>> \in saved \cup dialog'
      BY <2>1, <2>5, <2>6, <3>1 DEF IsKnown, Minters
    <3> SUFFICES ASSUME requests'[j].at = "answered", ~hasty PROVE <<l, secret[l]>> \in saved \cup dialog'
      OBVIOUS
    <3>2. CASE j = i
      <4>1. requests[i].hook \in Secrets!Mints /\ l \in requests[i].key
        BY <3>2 DEF Minters
      <4> QED
        BY <2>1, <2>7, <2>12, <3>2, <4>1
    <3>3. CASE j # i
      <4>1. <<l, secret[l]>> \in saved \cup dialog
        BY <2>4, <3>3 DEF Minters
      <4>2. CASE requests[i].hook \in Secrets!Mints
        BY <2>12, <4>1, <4>2
      <4>3. CASE requests[i].hook \notin Secrets!Mints
        BY <2>1, <4>1, <4>3
      <4> QED
        BY <4>2, <4>3
    <3> QED
      BY <3>2, <3>3
  <2> QED
    BY <2>9, <2>10, <2>11, <2>13, <2>14
<1> QED
  BY <1>0, <1>1, <1>2, <1>3, <1>4, <1>5, <1>6, <1>7, <1>8, <1>9, <1>10, <1>11, <1>12 DEF Secrets!Next

-----------------------------------------------------------------------------
(* The session *)

Carried ==
  [kind : Browser!Kinds \cup {"none"}, sent : 0..issued, back : {"none", "keep", "set", "clear"}, set : 0..issued]

SessionTypes ==
  /\ issued \in Nat /\ issued <= MaxTokens /\ owner \in [1..issued -> Nat] /\ expired \in 0..issued
  /\ jar \in 0..issued /\ faults \in 0..MaxFaults
  /\ request \in [Requests -> Carried]
  /\ \A r \in Requests : request[r].kind = "none" => request[r] = Browser!Free

Newest(t) == \A u \in 1..issued : owner[u] = owner[t] => u <= t

\* Sign-ins are numbered, and only the newest token of one may be good still.
OwnersInv ==
  /\ \E m \in Nat : Browser!SignIns = 1..m
  /\ \A t, u \in 1..issued : owner[t] = owner[u] /\ t < u => t <= expired
  /\ out \subseteq Browser!SignIns

\* What is newer than a token in flight is good still, and what its answer sets
\* is newer.
FlightInv ==
  \A r \in Requests :
    /\ request[r].sent # 0 =>
         \A u \in 1..issued : owner[u] = owner[request[r].sent] /\ u > request[r].sent => u > expired
    /\ request[r].back = "set" =>
         /\ request[r].sent # 0 /\ request[r].set > request[r].sent
         /\ owner[request[r].set] = owner[request[r].sent]

\* The token in the jar is the newest, or an answer on its way replaces it.
JarInv ==
  jar # 0 => Newest(jar) \/ \E r \in Requests : request[r].back = "set" /\ request[r].sent = jar

SessionInv == SessionTypes /\ OwnersInv /\ FlightInv /\ JarInv /\ revoked \subseteq out

\* The invariant of the session says what its property says.
LEMMA SessionIsSound == SessionInv => Browser!TypeOK /\ Browser!SessionsLast
<1> SUFFICES ASSUME SessionInv PROVE Browser!TypeOK /\ Browser!SessionsLast
  OBVIOUS
<1>1. \A r \in Requests :
        /\ request[r].kind \in Browser!Kinds \union {"none"} /\ request[r].sent \in 0..issued
        /\ request[r].back \in {"none", "keep", "set", "clear"}
        /\ request[r].set \in 0..issued
  BY DEF SessionInv, SessionTypes, Carried
<1> QED
  BY <1>1 DEF SessionInv, SessionTypes, OwnersInv, Browser!TypeOK, Browser!SessionsLast, Browser!Tokens

\* It holds at first.
LEMMA InitSession == Browser!Init => SessionInv
<1> SUFFICES ASSUME Browser!Init PROVE SessionInv
  OBVIOUS
<1>1. owner \in [1..issued -> Nat]
  BY DEF Browser!Init
<1>2. Browser!SignIns = 1..0
  BY DEF Browser!Init, Browser!SignIns, Browser!Tokens
<1> QED
  BY <1>1, <1>2, BrowserAssumption
  DEF Browser!Init, SessionInv, SessionTypes, Carried, OwnersInv, FlightInv, JarInv, Browser!Free, Browser!NoCookies,
      Browser!SessionAssumption

\* Of the tokens of its owner at most one is newer than one in flight.
LEMMA OneIsNewer ==
  ASSUME SessionInv, NEW r \in Requests, request[r].sent # 0
  PROVE  LET t == request[r].sent IN
         /\ t \in 1..issued
         /\ \/ Newest(t) /\ Browser!Newest(owner[t]) = t
            \/ /\ ~Newest(t) /\ Browser!Newest(owner[t]) \in 1..issued /\ Browser!Newest(owner[t]) > t
               /\ owner[Browser!Newest(owner[t])] = owner[t] /\ Browser!Parent(t)
<1> DEFINE t == request[r].sent
<1>1. t \in 1..issued
  BY DEF SessionInv, SessionTypes, Carried
<1>2. issued \in Nat /\ expired \in Nat /\ owner[t] \in Browser!SignIns
  BY <1>1 DEF SessionInv, SessionTypes, Browser!SignIns, Browser!Tokens
<1>3. CASE Newest(t)
  <2>1. \A u \in Browser!Tokens : (owner[u] = owner[t] /\ \A v \in Browser!Tokens : owner[v] = owner[t] => v <= u) => u = t
    BY <1>1, <1>2, <1>3 DEF Newest, Browser!Tokens
  <2> QED
    BY <1>1, <1>3, <2>1 DEF Newest, Browser!Newest, Browser!Tokens
<1>4. CASE ~Newest(t)
  <2>1. PICK n \in 1..issued : owner[n] = owner[t] /\ n > t
    BY <1>1, <1>2, <1>4 DEF Newest
  <2>2. n > expired
    BY <2>1 DEF SessionInv, FlightInv
  <2>3. \A u \in 1..issued : owner[u] = owner[t] => u <= n
    BY <1>2, <2>1, <2>2 DEF SessionInv, OwnersInv
  <2>4. \A u \in 1..issued : owner[u] = owner[t] /\ u > t => u = n
    <3> SUFFICES ASSUME NEW u \in 1..issued, owner[u] = owner[t], u > t, u # n PROVE FALSE
      OBVIOUS
    <3>1. u < n
      BY <1>2, <2>3
    <3>2. u > expired
      BY DEF SessionInv, FlightInv
    <3> QED
      BY <1>2, <2>1, <3>1, <3>2 DEF SessionInv, OwnersInv
  <2>5. Browser!Newest(owner[t]) = n
    <3>1. \A u \in Browser!Tokens :
            (owner[u] = owner[t] /\ \A v \in Browser!Tokens : owner[v] = owner[t] => v <= u) => u = n
      BY <1>2, <2>1, <2>3 DEF Browser!Tokens
    <3> QED
      BY <1>2, <2>1, <2>3, <3>1 DEF Browser!Newest, Browser!Tokens
  <2> QED
    BY <1>1, <1>2, <1>4, <2>1, <2>4, <2>5 DEF Browser!Parent, Browser!Tokens
<1> QED
  BY <1>1, <1>3, <1>4

\* A request that is answered is one.
LEMMA AnswerFits ==
  ASSUME NEW c \in Carried, NEW b \in {"keep", "set", "clear"}, NEW t \in 0..issued
  PROVE  [c EXCEPT !.back = b, !.set = t] \in Carried
BY DEF Carried

\* Every step of the browser keeps the invariant of the session.
LEMMA SessionKeeps == SessionInv /\ Browser!Next => SessionInv'
<1> SUFFICES ASSUME SessionInv, Browser!Next PROVE SessionInv'
  OBVIOUS
<1> USE DEF SessionInv
<1>0. /\ issued \in Nat /\ expired \in 0..issued /\ jar \in 0..issued /\ owner \in [1..issued -> Nat]
      /\ \A r \in Requests : request[r] \in Carried
      /\ \A t, u \in 1..issued : owner[t] = owner[u] /\ t < u => t <= expired
  BY DEF SessionTypes, OwnersInv
<1> USE <1>0
<1>1. CASE Browser!SignIn
  <2>1. PICK m \in Nat : Browser!SignIns = 1..m
    BY DEF OwnersInv
  <2>2. Browser!Cardinality(Browser!SignIns) = m
    <3>1. Cardinality(1..m) = m
      BY FS_Interval
    <3>2. Browser!Cardinality(1..m) = Cardinality(1..m)
      BY Zenon DEF Browser!Cardinality, Cardinality
    <3> QED
      BY <2>1, <3>1, <3>2
  <2>3. /\ issued < MaxTokens /\ issued' = issued + 1
        /\ owner' = [t \in 1..(issued + 1) |-> IF t > issued THEN m + 1 ELSE owner[t]]
        /\ jar' = issued + 1 /\ UNCHANGED <<revoked, expired, out, request, faults>>
    BY <1>1, <2>2 DEF Browser!SignIn, Browser!Issues
  <2>4. \A t \in 1..issued : owner'[t] = owner[t] /\ owner[t] \in 1..m
    <3>1. \A t \in 1..issued : owner[t] \in Browser!SignIns
      BY DEF Browser!SignIns, Browser!Tokens
    <3> QED
      BY <2>1, <2>3, <3>1
  <2>5. Browser!SignIns' = 1..(m + 1)
    <3>1. Browser!SignIns' = Browser!SignIns \cup {m + 1}
      BY <2>3, <2>4 DEF Browser!SignIns, Browser!Tokens
    <3> QED
      BY <2>1, <3>1
  <2>6. SessionTypes'
    BY <2>3, BrowserAssumption DEF Browser!SessionAssumption, SessionTypes, Carried
  <2>7. OwnersInv'
    <3>1. out' \subseteq Browser!SignIns'
      BY <2>1, <2>3, <2>5 DEF OwnersInv
    <3>2. \A t, u \in 1..issued' : owner'[t] = owner'[u] /\ t < u => t <= expired'
      <4> SUFFICES ASSUME NEW t \in 1..issued', NEW u \in 1..issued', owner'[t] = owner'[u], t < u PROVE t <= expired
        BY <2>3
      <4>1. t \in 1..issued
        BY <2>3
      <4>2. CASE u \in 1..issued
        BY <2>4, <4>1, <4>2
      <4>3. CASE u = issued + 1
        <5>1. owner'[u] = m + 1
          BY <2>3, <4>3
        <5> QED
          BY <2>4, <4>1, <5>1
      <4> QED
        BY <2>3, <4>2, <4>3
    <3> QED
      BY <2>5, <3>1, <3>2 DEF OwnersInv
  <2>8. FlightInv'
    BY <2>3, <2>4 DEF FlightInv, SessionTypes, Carried
  <2>9. JarInv'
    BY <2>3, <2>4 DEF JarInv, Newest
  <2> QED
    BY <2>3, <2>6, <2>7, <2>8, <2>9
<1>2. CASE Browser!Expires
  <2>1. /\ expired < issued /\ expired' = expired + 1
        /\ \A r \in Requests : request[r].sent # 0 => expired < request[r].sent
        /\ UNCHANGED <<issued, owner, revoked, jar, out, request, faults>>
    BY <1>2 DEF Browser!Expires, Browser!NoCookies
  <2>2. SessionTypes'
    BY <2>1 DEF SessionTypes, Carried
  <2>3. OwnersInv'
    <3>1. \A t, u \in 1..issued' : owner'[t] = owner'[u] /\ t < u => t <= expired'
      BY <2>1
    <3>2. Browser!SignIns' = Browser!SignIns
      BY <2>1 DEF Browser!SignIns, Browser!Tokens
    <3> QED
      BY <2>1, <3>1, <3>2 DEF OwnersInv
  <2>4. JarInv'
    BY <2>1 DEF JarInv, Newest
  <2>5. FlightInv'
    BY <2>1 DEF FlightInv, SessionTypes, Carried
  <2> QED
    BY <2>1, <2>2, <2>3, <2>4, <2>5
<1>3. CASE Browser!SignOut
  <2>1. jar \in 1..issued /\ revoked' = revoked \cup {owner[jar]} /\ out' = out \cup {owner[jar]} /\ jar' = 0
        /\ UNCHANGED <<issued, owner, expired, request, faults>>
    BY <1>3 DEF Browser!SignOut, Browser!NoCookies
  <2>2. SessionTypes'
    BY <2>1 DEF SessionTypes, Carried
  <2>3. OwnersInv'
    BY <2>1 DEF OwnersInv, Browser!SignIns, Browser!Tokens
  <2> QED
    BY <2>1, <2>2, <2>3 DEF FlightInv, JarInv
<1>4. CASE Browser!SignOutFails
  <2>1. faults < MaxFaults /\ faults' = faults + 1 /\ UNCHANGED <<issued, owner, revoked, expired, jar, out, request>>
    BY <1>4 DEF Browser!SignOutFails
  <2>2. SessionTypes'
    BY <2>1, BrowserAssumption DEF SessionTypes, Carried, Browser!SessionAssumption
  <2>3. OwnersInv'
    BY <2>1 DEF OwnersInv, Browser!SignIns, Browser!Tokens
  <2> QED
    BY <2>1, <2>2, <2>3 DEF FlightInv, JarInv, Newest
<1>5. ASSUME NEW r \in Requests, NEW k \in Browser!Kinds, Browser!Sends(r, k) PROVE SessionInv'
  <2>1. /\ request[r] = Browser!Free
        /\ request' = [request EXCEPT ![r] = [Browser!Free EXCEPT !.kind = k, !.sent = jar]]
        /\ UNCHANGED <<issued, owner, revoked, expired, jar, out, faults>>
    BY <1>5 DEF Browser!Sends, SessionTypes
  <2>2. /\ request'[r].kind = k /\ request'[r].sent = jar /\ request'[r].back = "none" /\ request'[r].set = 0
        /\ \A q \in Requests : q # r => request'[q] = request[q]
    BY <2>1 DEF Browser!Free, Browser!NoCookies, SessionTypes
  <2>3. SessionTypes'
    BY <2>1, <2>2 DEF Browser!Kinds, Browser!Free, Browser!NoCookies, SessionTypes, Carried
  <2>4. OwnersInv'
    BY <2>1 DEF OwnersInv, Browser!SignIns, Browser!Tokens
  <2>5. JarInv'
    BY <2>1, <2>2 DEF Browser!Free, JarInv, Newest
  <2>6. FlightInv'
    <3>1. ASSUME jar # 0, NEW u \in 1..issued, owner[u] = owner[jar], u > jar PROVE u > expired
      BY <3>1 DEF JarInv, Newest, FlightInv
    <3> QED
      BY <2>1, <2>2, <3>1 DEF FlightInv
  <2> QED
    BY <2>1, <2>3, <2>4, <2>5, <2>6
<1>6. ASSUME NEW r \in Requests, Browser!HandlesAsIs(r) \/ Browser!HandlesRefused(r) PROVE SessionInv'
  <2>1. PICK b \in {"keep", "clear"} :
          /\ request[r].kind # "none" /\ request[r].back = "none"
          /\ request' = [request EXCEPT ![r].back = b, ![r].set = 0]
          /\ UNCHANGED <<issued, owner, revoked, expired, jar, out, faults>>
    BY <1>6 DEF Browser!HandlesAsIs, Browser!HandlesRefused, Browser!Back, Browser!Refusal, Browser!NoCookies
  <2>2. /\ request'[r].kind = request[r].kind /\ request'[r].sent = request[r].sent /\ request'[r].back = b
        /\ request'[r].set = 0 /\ \A q \in Requests : q # r => request'[q] = request[q]
    BY <2>1 DEF Carried, SessionTypes
  <2>3. SessionTypes'
    <3>1. [request[r] EXCEPT !.back = b, !.set = 0] \in Carried
      <4>1. request[r] \in Carried /\ b \in {"keep", "set", "clear"} /\ 0 \in 0..issued
        OBVIOUS
      <4> QED
        BY <4>1, AnswerFits, Zenon
    <3>3. request' \in [Requests -> Carried]
      BY <2>1, <3>1 DEF SessionTypes
    <3>2. \A q \in Requests : request'[q].kind = "none" => request'[q] = Browser!Free
      BY <2>1, <2>2 DEF SessionTypes
    <3> QED
      BY <2>1, <3>2, <3>3 DEF SessionTypes, Carried
  <2>4. OwnersInv'
    BY <2>1 DEF OwnersInv, Browser!SignIns, Browser!Tokens
  <2>6. FlightInv'
    BY <2>1, <2>2 DEF FlightInv
  <2>5. JarInv'
    BY <2>1, <2>2 DEF JarInv, Newest
  <2> QED
    BY <2>1, <2>3, <2>4, <2>5, <2>6
<1>7. ASSUME NEW r \in Requests, Browser!HandlesRefreshing(r) PROVE SessionInv'
  <2> DEFINE t == request[r].sent
  <2>1. /\ request[r].kind # "none" /\ request[r].back = "none" /\ t # 0 /\ t <= expired
        /\ UNCHANGED <<expired, jar, out, faults>>
    BY <1>7 DEF Browser!HandlesRefreshing, Browser!Presented, Browser!NoCookies
  <2>2. t \in 1..issued
    BY <2>1, OneIsNewer
  <2>3. CASE Newest(t)
    <3>1. /\ Browser!Newest(owner[t]) = t /\ ~Browser!Parent(t)
      BY <2>1, <2>3, OneIsNewer DEF Browser!Parent
    <3>2. /\ issued < MaxTokens /\ issued' = issued + 1 /\ UNCHANGED revoked
          /\ owner' = [u \in 1..(issued + 1) |-> IF u > issued THEN owner[t] ELSE owner[u]]
          /\ request' = [request EXCEPT ![r].back = "set", ![r].set = issued + 1]
      BY <1>7, <3>1 DEF Browser!HandlesRefreshing, Browser!Presented, Browser!Issues, Browser!Back, Newest
    <3>3. /\ request'[r].kind = request[r].kind /\ request'[r].sent = t /\ request'[r].back = "set"
          /\ request'[r].set = issued + 1 /\ \A q \in Requests : q # r => request'[q] = request[q]
      BY <3>2 DEF SessionTypes, Carried
    <3>4. /\ \A u \in 1..issued : owner'[u] = owner[u]
          /\ owner'[issued + 1] = owner[t]
      BY <3>2
    <3>5. SessionTypes'
      BY <2>1, <2>2, <3>2, <3>3, <3>4, BrowserAssumption DEF Browser!SessionAssumption, SessionTypes, Carried
    <3>6. OwnersInv'
      <4>1. Browser!SignIns' = Browser!SignIns
        BY <2>2, <3>2, <3>4 DEF Browser!SignIns, Browser!Tokens
      <4>2. \A v, w \in 1..issued' : owner'[v] = owner'[w] /\ v < w => v <= expired'
        <5> SUFFICES ASSUME NEW v \in 1..(issued + 1), NEW w \in 1..(issued + 1), owner'[v] = owner'[w], v < w
                     PROVE  v <= expired
          BY <2>1, <3>2
        <5>1. CASE w \in 1..issued
          BY <3>2, <3>4, <5>1
        <5>2. CASE w = issued + 1
          BY <2>1, <2>2, <2>3, <3>2, <3>4, <5>2 DEF Newest
        <5> QED
          BY <5>1, <5>2
      <4> QED
        BY <2>1, <4>1, <4>2 DEF OwnersInv
    <3>7. FlightInv'
      <4> SUFFICES ASSUME NEW q \in Requests, request[q].sent # 0,
                          NEW u \in 1..issued', owner'[u] = owner'[request[q].sent], u > request[q].sent
                   PROVE u > expired
        BY <2>1, <2>2, <3>2, <3>3, <3>4 DEF FlightInv, SessionTypes, Carried
      <4> QED
        BY <2>1, <3>2, <3>4 DEF FlightInv, SessionTypes, Carried
    <3>8. JarInv'
      <4> SUFFICES ASSUME jar # 0 PROVE JarInv'
        BY <2>1 DEF JarInv
      <4>1. CASE owner[jar] = owner[t] /\ Newest(jar)
        BY <2>1, <2>2, <2>3, <3>3, <4>1 DEF JarInv, Newest
      <4>2. CASE owner[jar] # owner[t] /\ Newest(jar)
        BY <2>1, <2>2, <3>2, <3>4, <4>2 DEF JarInv, Newest
      <4>3. CASE \E q \in Requests : request[q].back = "set" /\ request[q].sent = jar
        BY <2>1, <3>3, <4>3 DEF JarInv
      <4> QED
        BY <4>1, <4>2, <4>3 DEF JarInv
    <3> QED
      BY <2>1, <3>2, <3>5, <3>6, <3>7, <3>8
  <2>4. CASE ~Newest(t)
    <3> DEFINE n == Browser!Newest(owner[t])
    <3>1. n \in 1..issued /\ n > t /\ owner[n] = owner[t] /\ Browser!Parent(t)
      BY <2>1, <2>4, OneIsNewer
    <3>2. /\ UNCHANGED <<issued, owner, revoked>>
          /\ request' = [request EXCEPT ![r].back = "set", ![r].set = n]
      BY <1>7, <3>1 DEF Browser!HandlesRefreshing, Browser!Presented, Browser!Back
    <3>3. /\ request'[r].kind = request[r].kind /\ request'[r].sent = t /\ request'[r].back = "set"
          /\ request'[r].set = n /\ \A q \in Requests : q # r => request'[q] = request[q]
      BY <3>2 DEF SessionTypes, Carried
    <3> HIDE DEF n
    <3>4. SessionTypes'
      <4>3. [request[r] EXCEPT !.back = "set", !.set = n] \in Carried
        <5>1. request[r] \in Carried /\ "set" \in {"keep", "set", "clear"} /\ n \in 0..issued
          BY <3>1
        <5> QED
          BY <5>1, AnswerFits, Zenon
      <4>1. request' \in [Requests -> Carried]
        BY <3>2, <4>3 DEF SessionTypes
      <4>2. \A q \in Requests : request'[q].kind = "none" => request'[q] = Browser!Free
        BY <2>1, <3>3 DEF SessionTypes
      <4> QED
        BY <2>1, <3>2, <4>1, <4>2 DEF SessionTypes, Carried
    <3>5. OwnersInv'
      BY <2>1, <3>2 DEF OwnersInv, Browser!SignIns, Browser!Tokens
    <3>6. FlightInv'
      BY <2>1, <3>1, <3>2, <3>3 DEF FlightInv
    <3>7. JarInv'
      BY <2>1, <3>2, <3>3 DEF JarInv, Newest
    <3> QED
      BY <2>1, <3>2, <3>4, <3>5, <3>6, <3>7
  <2> QED
    BY <2>3, <2>4
<1>8. ASSUME NEW r \in Requests, Browser!Lands(r) PROVE SessionInv'
  <2>1. /\ request[r].back # "none" /\ request' = [request EXCEPT ![r] = Browser!Free]
        /\ jar' = CASE request[r].back = "set" -> request[r].set
              [] request[r].back = "clear" -> 0
              [] OTHER -> jar
        /\ UNCHANGED <<issued, owner, revoked, expired, out, faults>>
    BY <1>8 DEF Browser!Lands, Browser!NoCookies
  <2>2. /\ request'[r].kind = "none" /\ request'[r].sent = 0 /\ request'[r].back = "none" /\ request'[r].set = 0
        /\ \A q \in Requests : q # r => request'[q] = request[q]
    BY <2>1 DEF Browser!Free, Browser!NoCookies, SessionTypes
  <2>3. SessionTypes'
    <3>1. jar' \in 0..issued
      BY <2>1 DEF Carried
    <3> QED
      BY <2>1, <2>2, <3>1 DEF Browser!Free, Browser!NoCookies, SessionTypes, Carried
  <2>4. OwnersInv' /\ FlightInv'
    BY <2>1, <2>2 DEF OwnersInv, Browser!SignIns, Browser!Tokens, FlightInv
  <2>5. JarInv'
    <3>1. CASE request[r].back = "set"
      <4>1. request[r].sent # 0 /\ request[r].set > request[r].sent /\ owner[request[r].set] = owner[request[r].sent]
        BY <3>1 DEF FlightInv
      <4>2. request[r].set \in 1..issued /\ issued \in Nat /\ expired \in Nat /\ request[r].sent \in Nat
        BY <4>1 DEF Carried
      <4>3. ASSUME NEW u \in 1..issued, owner[u] = owner[request[r].set] PROVE u <= request[r].set
        <5>1. u > request[r].sent => u > expired
          BY <4>1, <4>3 DEF FlightInv
        <5>2. request[r].set > expired
          BY <4>1, <4>2 DEF FlightInv
        <5> QED
          BY <4>1, <4>2, <4>3, <5>1, <5>2
      <4> QED
        BY <2>1, <3>1, <4>2, <4>3 DEF JarInv, Newest
    <3>2. CASE request[r].back = "clear"
      BY <2>1, <3>2 DEF JarInv
    <3>3. CASE request[r].back = "keep"
      BY <2>1, <2>2, <3>3 DEF JarInv, Newest
    <3> QED
      BY <2>1, <3>1, <3>2, <3>3 DEF Carried
  <2> QED
    BY <2>1, <2>3, <2>4, <2>5
<1> QED
  BY <1>1, <1>2, <1>3, <1>4, <1>5, <1>6, <1>7, <1>8 DEF Browser!Next

-----------------------------------------------------------------------------
(* The screens: a part whose variables stay keeps its invariant. *)

LEMMA SearchStays == SearchInv /\ UNCHANGED searchVars => SearchInv'
  BY DEF searchVars, SearchInv, SearchTypes, CacheInv, WantedInv, SearchKey, TextOrNone

LEMMA ResultsStays == ResultsInv /\ UNCHANGED listVars => ResultsInv'
  BY DEF listVars, ResultsInv, ResultsTypes, WholeInv, Whole, InPages

LEMMA CachedStays == CachedInv /\ UNCHANGED cacheVars => CachedInv'
  BY DEF cacheVars, CachedInv, CacheTypes, AnsweredInv

LEMMA PanelStays == PanelInv /\ UNCHANGED panelVars => PanelInv'
  BY DEF panelVars, PanelInv, PanelTypes, FormInv, CleanInv, FreshInv, LastInv, AllSaves, Went, OnItsWay

LEMMA LibraryStays == LibraryInv /\ UNCHANGED libraryVars => LibraryInv'
  BY DEF libraryVars, LibraryInv, LibraryTypes, TicksInv, GoneInv, LeavesInv, Sends, Library!Shown, Library!Active

LEMMA LinksStays == LinksInv /\ UNCHANGED linkVars => LinksInv'
  BY DEF linkVars, LinksInv, LinkTypes, SigningInv, LinkInv, Stale, Previews!Settled, Previews!Its, Previews!Idle

LEMMA SecretsStays == SecretsInv /\ UNCHANGED secretVars => SecretsInv'
  BY DEF secretVars, SecretsInv, SecretTypes, MintedInv, DialogInv, PatientInv, KnownInv, IsKnown, Minters, Waiting, KeyCalls

LEMMA SessionStays == SessionInv /\ UNCHANGED sessionVars => SessionInv'
<1> SUFFICES ASSUME SessionInv, UNCHANGED sessionVars PROVE SessionInv'
  OBVIOUS
<1> USE DEF SessionInv
<1>1. UNCHANGED <<issued, owner, revoked, expired, jar, out, request, faults>>
  BY DEF sessionVars
<1>2. SessionTypes'
  BY <1>1 DEF SessionTypes, Carried
<1>3. Browser!SignIns' = Browser!SignIns
  BY <1>1 DEF Browser!SignIns, Browser!Tokens
<1>4. OwnersInv'
  BY <1>1, <1>3 DEF OwnersInv
<1>5. FlightInv'
  BY <1>1 DEF FlightInv
<1>6. JarInv'
  BY <1>1 DEF JarInv, Newest
<1> QED
  BY <1>1, <1>2, <1>4, <1>5, <1>6

\* However quickly a user types, scrolls, ticks, edits and leaves, in whatever
\* order answers come, and whatever other sessions do meanwhile: the search
\* shows what its present text finds, the endless list is whole unless files
\* come and go, a mutation that was answered is shown, the panel sends only
\* what was edited and shows what is stored, what a bulk delete asks for was on
\* screen and leaves it, a link that is looked at works, a secret that is shown
\* is the one of its key, and no session ends that the user did not end.
THEOREM ScreensShowWhatIsStored == Spec => []ScreensHold
<1> DEFINE Inv ==
      /\ part = "search" => SearchInv
      /\ part = "results" => ResultsInv
      /\ part = "cache" => CachedInv
      /\ part = "panel" => PanelInv
      /\ part = "library" => LibraryInv
      /\ part = "links" => LinksInv
      /\ part = "secrets" => SecretsInv
      /\ part = "session" => SessionInv
<1>1. Init => Inv
  BY InitSearch, InitResults, InitCached, InitPanel, InitLibrary, InitLinks, InitSecrets, InitSession
  DEF Init
<1>2. Inv /\ [Next]_<<part, screenVars, moreVars>> => Inv'
  <2> SUFFICES ASSUME Inv, [Next]_<<part, screenVars, moreVars>> PROVE Inv'
    OBVIOUS
  <2>1. part' = part
    BY DEF Next
  <2>2. ASSUME part = "search" PROVE SearchInv'
    <3>1. Searching!Next \/ UNCHANGED searchVars
      BY <2>2 DEF Next, screenVars, moreVars
    <3> QED
      BY <2>2, <3>1, SearchKeeps, SearchStays
  <2>3. ASSUME part = "results" PROVE ResultsInv'
    <3>1. Results!Next \/ UNCHANGED listVars
      BY <2>3 DEF Next, screenVars, moreVars
    <3> QED
      BY <2>3, <3>1, ResultsKeep, ResultsStays
  <2>4. ASSUME part = "cache" PROVE CachedInv'
    <3>1. Cached!Next \/ UNCHANGED cacheVars
      BY <2>4 DEF Next, screenVars, moreVars
    <3> QED
      BY <2>4, <3>1, CachedKeeps, CachedStays
  <2>5. ASSUME part = "panel" PROVE PanelInv'
    <3>1. Panel!Next \/ UNCHANGED panelVars
      BY <2>5 DEF Next, screenVars, moreVars
    <3> QED
      BY <2>5, <3>1, PanelKeeps, PanelStays
  <2>6. ASSUME part = "library" PROVE LibraryInv'
    <3>1. Library!Next \/ UNCHANGED libraryVars
      BY <2>6 DEF Next, screenVars, moreVars
    <3> QED
      BY <2>6, <3>1, LibraryKeeps, LibraryStays
  <2>7. ASSUME part = "links" PROVE LinksInv'
    <3>1. Previews!Next \/ UNCHANGED linkVars
      BY <2>7 DEF Next, screenVars, moreVars
    <3> QED
      BY <2>7, <3>1, LinksKeep, LinksStays
  <2>8. ASSUME part = "secrets" PROVE SecretsInv'
    <3>1. Secrets!Next \/ UNCHANGED secretVars
      BY <2>8 DEF Next, screenVars, moreVars
    <3> QED
      BY <2>8, <3>1, SecretsKeep, SecretsStays
  <2>9. ASSUME part = "session" PROVE SessionInv'
    <3>1. Browser!Next \/ UNCHANGED sessionVars
      BY <2>9 DEF Next, screenVars, moreVars
    <3> QED
      BY <2>9, <3>1, SessionKeeps, SessionStays
  <2> QED
    BY <2>1, <2>2, <2>3, <2>4, <2>5, <2>6, <2>7, <2>8, <2>9
<1>3. Inv => ScreensHold
  BY SearchIsSound, ResultsAreSound, CachedIsSound, PanelIsSound, LibraryIsSound,
     LinksAreSound, SecretsAreSound, SessionIsSound DEF ScreensHold
<1> QED
  BY <1>1, <1>2, <1>3, PTL DEF Spec
=============================================================================
