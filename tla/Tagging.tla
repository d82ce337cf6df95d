------------------------------ MODULE Tagging -------------------------------
(***************************************************************************)
(* The tags of one object, and what a search knows of them.                *)
(*                                                                         *)
(* The dashboard's drawer works in names: an edit resolves every name to   *)
(* the id of a tag, creating the tags that are missing, and replaces the   *)
(* object's labels.  Clients of the API and of the MCP server replace      *)
(* labels too, set the user metadata and delete tags; the doors that write *)
(* something searchable rebuild the object's entry of the search index.    *)
(* No handler uses a transaction: a step is one statement.                 *)
(*                                                                         *)
(* Names are names up to case, with an alphanumeric character; no category *)
(* is ever created (its slug is required, and given by nobody), so what    *)
(* replaces categories only rebuilds the entry.                            *)
(***************************************************************************)
EXTENDS Integers, FiniteSets

CONSTANTS
  Names,    \* of tags, as they are typed
  SlugOf,   \* the slug of each: UNIQUE in the org
  Notes,    \* values of the user metadata
  MaxCalls, \* bound: requests
  None,
  MaxTags   \* bound: tags the tags page creates, of each name

\* What the constants must be; assumed where the module is instantiated.
TaggingAssumption ==
  /\ DOMAIN SlugOf = Names /\ None \notin Names \cup Notes /\ Names \cap Notes = {}
  /\ {MaxCalls, MaxTags} \subseteq Nat

VARIABLES
  tags,     \* the rows of tags: an id and a name each
  born,     \* how many tags each name has had: what makes ids differ
  labels,   \* object_tags: the ids
  note,     \* object_user_metadata: the value, or None
  index,    \* search_index: the tag names and the note it was built from
  deleted,  \* the object is
  drawer,   \* the names the open drawer shows, or None
  calls,    \* the requests and where each is
  owed,     \* history: something searchable changed at a door that does not rebuild,
            \*   or while another request was between reading and writing the entry
  alone,    \* history: requests no other request met
  cut       \* history: requests a deletion of a tag met

taggingVars == <<tags, born, labels, note, index, deleted, drawer, calls, owed, alone, cut>>
rows == <<tags, born, labels, note, index, deleted>>

Calls == 1 .. MaxCalls
Idle == [at |-> "unused", kind |-> None, names |-> {}, missing |-> {}, clash |-> FALSE, ids |-> {}, read |-> None]
Running == {k \in Calls : calls[k].at \notin {"unused", "done", "failed"}}
Live == {t.id : t \in tags}
Terms == [tags |-> {t.name : t \in {u \in tags : u.id \in labels}}, note |-> note]
NoTerms == [tags |-> {}, note |-> None]

Init ==
  /\ tags = {} /\ born = [n \in Names |-> 0] /\ labels = {} /\ note = None
  /\ index = NoTerms /\ deleted = FALSE /\ drawer = None
  /\ calls = [k \in Calls |-> Idle]
  /\ owed = FALSE /\ alone = {} /\ cut = {}

\* The next request; it meets what runs.
Start(k, call) ==
  /\ calls[k].at = "unused" /\ \A l \in 1 .. k - 1 : calls[l].at # "unused"
  /\ calls' = [calls EXCEPT ![k] = call]
  /\ alone' = IF Running = {} THEN alone \cup {k} ELSE alone \ Running
  /\ UNCHANGED <<rows, owed, cut>>

At(k, step) == calls[k].at = step

\* The statements of a handler, in order.
After(kind, step) ==
  CASE step = "check" -> IF kind = "note" THEN "note" ELSE "clear"
    [] step = "clear" -> "insert"
    [] step = "insert" -> IF kind = "assign" THEN "done" ELSE "read"
    [] step = "note" -> "read"
    [] step = "read" -> "write"
    [] step = "write" -> "done"

Goes(k, step) ==
  calls' = IF step \in {"done", "failed"} THEN [calls EXCEPT ![k] = [Idle EXCEPT !.at = step]] ELSE [calls EXCEPT ![k].at = step]

-----------------------------------------------------------------------------
(* The library's drawer *)

\* The tags in a row of the list: it has none.
Listed == {}

Open == drawer' = Listed /\ drawer # Listed /\ UNCHANGED <<rows, calls, owed, alone, cut>>

\* applyTags: the drawer shows the new names at once.
Apply(k, names) ==
  /\ drawer' = names
  /\ Start(k, [Idle EXCEPT !.kind = "edit", !.names = names, !.at = IF names = {} THEN "check" ELSE "list"])

AddTag(k) == drawer # None /\ \E n \in Names \ drawer : Apply(k, drawer \cup {n})
RemoveTag(k) == drawer # None /\ \E n \in drawer : Apply(k, drawer \ {n})

\* ensureTagIds: the ids of the names there are, the names there are not.
List(k) ==
  LET known == {t \in tags : t.name \in calls[k].names}
      missing == calls[k].names \ {t.name : t \in known}
  IN  /\ At(k, "list")
      /\ calls' = [calls EXCEPT ![k].ids = {t.id : t \in known}, ![k].missing = missing,
                                ![k].at = IF missing = {} THEN "check" ELSE "create"]
      /\ UNCHANGED <<rows, drawer, owed, alone, cut>>

SlugTaken(n) == \E t \in tags : SlugOf[t.name] = SlugOf[n]
New(n) == [id |-> <<n, born[n] + 1>>, name |-> n]

\* Mutant: a 409 is taken for an answer.
ResolvedNoRelist(clash) == "check"

\* After the creates: any of them that met a 409 has the list read again.
Resolved(clash) == IF clash THEN "relist" ELSE "check"

\* POST /tags, one per missing name, all at once.
Create(k) ==
  /\ At(k, "create")
  /\ \E n \in calls[k].missing :
       LET left == calls[k].missing \ {n}
           clash == calls[k].clash \/ SlugTaken(n)
           step == IF left = {} THEN Resolved(clash) ELSE "create"
       IN  IF SlugTaken(n)
           THEN /\ calls' = [calls EXCEPT ![k].missing = left, ![k].clash = TRUE, ![k].at = step]
                /\ UNCHANGED <<tags, born>>
           ELSE /\ tags' = tags \cup {New(n)} /\ born' = [born EXCEPT ![n] = @ + 1]
                /\ calls' = [calls EXCEPT ![k].missing = left, ![k].ids = @ \cup {New(n).id}, ![k].at = step]
  /\ UNCHANGED <<labels, note, index, deleted, drawer, owed, alone, cut>>

\* The ids of the names again; the ones of names that are gone are kept.
Relist(k) ==
  LET known == {t \in tags : t.name \in calls[k].names}
      gone == {i \in calls[k].ids : i[1] \notin {t.name : t \in known}}
  IN  /\ At(k, "relist")
      /\ calls' = [calls EXCEPT ![k].ids = {t.id : t \in known} \cup gone, ![k].at = "check"]
      /\ UNCHANGED <<rows, drawer, owed, alone, cut>>

-----------------------------------------------------------------------------
(* The other doors *)

\* PUT /objects/:id/tags by a client that knows the ids.
Put(k) ==
  /\ \E ids \in SUBSET Live : Start(k, [Idle EXCEPT !.kind = "put", !.ids = ids, !.at = "check"])
  /\ UNCHANGED drawer

\* manage_tags assign, which needs an id and does not rebuild the entry.
Assign(k) ==
  /\ \E ids \in (SUBSET Live) \ {{}} : Start(k, [Idle EXCEPT !.kind = "assign", !.ids = ids, !.at = "check"])
  /\ UNCHANGED drawer

\* PUT /media/:id/metadata.
Annotate(k) ==
  /\ \E v \in Notes : Start(k, [Idle EXCEPT !.kind = "note", !.read = v, !.at = "check"])
  /\ UNCHANGED drawer

\* PUT /objects/:id/categories, with no category to be found.
Categorise(k) == ~deleted /\ Start(k, [Idle EXCEPT !.kind = "index", !.at = "read"]) /\ UNCHANGED drawer

\* The end of a probe job.
ProbeIndexes(k) == Start(k, [Idle EXCEPT !.kind = "index", !.at = "read"]) /\ UNCHANGED drawer

\* DELETE /tags/:id, of a tag there is: its labels, then the tag.
Untag(k) ==
  /\ \E i \in Live : Start(k, [Idle EXCEPT !.kind = "untag", !.ids = {i}, !.at = "unlabel"])
  /\ UNCHANGED drawer

Unlabel(k) ==
  /\ At(k, "unlabel") /\ labels' = labels \ calls[k].ids
  /\ owed' = (owed \/ labels' # labels) /\ Goes(k, "untag")
  /\ UNCHANGED <<tags, born, note, index, deleted, drawer, alone, cut>>

\* A label that was added meanwhile goes with its tag.
DropTag(k) ==
  /\ At(k, "untag") /\ tags' = {t \in tags : t.id \notin calls[k].ids} /\ labels' = labels \ calls[k].ids
  /\ owed' = (owed \/ labels' # labels) /\ cut' = cut \cup (Running \ {k}) /\ Goes(k, "done")
  /\ UNCHANGED <<born, note, index, deleted, drawer, alone>>

Added(n) ==
  /\ born[n] < MaxTags /\ ~SlugTaken(n) /\ tags' = tags \cup {New(n)} /\ born' = [born EXCEPT ![n] = @ + 1]
  /\ UNCHANGED <<labels, note, index, deleted, drawer, calls, owed, alone, cut>>

\* The tags page, and manage_tags create.
CreateTag == \E n \in Names : Added(n)

\* DELETE /media/:id, as far as it matters here.
Delete ==
  /\ ~deleted /\ deleted' = TRUE
  /\ UNCHANGED <<tags, born, labels, note, index, drawer, calls, owed, alone, cut>>

-----------------------------------------------------------------------------
(* The statements of the handlers *)

\* The object must be live: 404.  Ids of no tag are left out.
Check(k) ==
  /\ At(k, "check")
  /\ calls' = [calls EXCEPT ![k].ids = @ \cap Live,
                            ![k].at = IF deleted THEN "failed" ELSE After(calls[k].kind, "check")]
  /\ UNCHANGED <<rows, drawer, owed, alone, cut>>

Clear(k) ==
  /\ At(k, "clear") /\ labels' = {} /\ Goes(k, After(calls[k].kind, "clear"))
  /\ UNCHANGED <<tags, born, note, index, deleted, drawer, owed, alone, cut>>

\* The tag must be there, and the label must not.
Labelable(ids) == ids \subseteq Live /\ ids \cap labels = {}

\* One statement for all labels: a tag that is gone, or a label another
\* request has added, fails it with 500 and leaves what there is.
Insert(k) ==
  LET ids == calls[k].ids
      ok == Labelable(ids)
  IN  /\ At(k, "insert")
      /\ labels' = IF ok THEN labels \cup ids ELSE labels
      /\ Goes(k, IF ok THEN After(calls[k].kind, "insert") ELSE "failed")
      /\ owed' = (owed \/ ~ok \/ calls[k].kind = "assign")
      /\ UNCHANGED <<tags, born, note, index, deleted, drawer, alone, cut>>

Annotates(k) ==
  /\ At(k, "note") /\ note' = calls[k].read /\ Goes(k, After(calls[k].kind, "note"))
  /\ UNCHANGED <<tags, born, labels, index, deleted, drawer, owed, alone, cut>>

\* refreshSearchIndex: the statement reads its inputs as they are when it
\* starts, and writes the entry once it has the row.
ReadTerms(k) ==
  /\ At(k, "read")
  /\ calls' = [calls EXCEPT ![k].read = Terms, ![k].at = After(calls[k].kind, "read")]
  /\ owed' = \E l \in Calls \ {k} : At(l, "write")
  /\ UNCHANGED <<rows, drawer, alone, cut>>

WriteTerms(k) ==
  /\ At(k, "write") /\ index' = calls[k].read /\ Goes(k, After(calls[k].kind, "write"))
  /\ UNCHANGED <<tags, born, labels, note, deleted, drawer, owed, alone, cut>>

-----------------------------------------------------------------------------
(* Searching: words, and the names or slugs of tags of which one is asked *)

Matches(words) == words \subseteq index.tags \cup {index.note}
Labelled(of, filter) == filter = {} \/ \E t \in tags : t.id \in labels /\ of[t.name] \in filter
NameOf == [n \in Names |-> n]

\* GET /search: no word is no match.
ApiFinds(words, filter) == ~deleted /\ words # {} /\ Matches(words) /\ Labelled(NameOf, filter)

\* GET /media: no word is no condition.
LibraryFinds(words, filter) == ~deleted /\ (words = {} \/ Matches(words)) /\ Labelled(NameOf, filter)

\* search_media: tags by slug.
McpFinds(words, filter) == ~deleted /\ (words = {} \/ Matches(words)) /\ Labelled(SlugOf, filter)

-----------------------------------------------------------------------------
Handles(k) ==
  \/ List(k) \/ Create(k) \/ Relist(k) \/ Check(k) \/ Clear(k) \/ Insert(k)
  \/ Annotates(k) \/ ReadTerms(k) \/ WriteTerms(k) \/ Unlabel(k) \/ DropTag(k)

Next ==
  \/ Open \/ CreateTag \/ Delete
  \/ \E k \in Calls :
       \/ AddTag(k) \/ RemoveTag(k) \/ Put(k) \/ Assign(k) \/ Annotate(k) \/ Categorise(k) \/ ProbeIndexes(k) \/ Untag(k)
       \/ Handles(k)

Spec == Init /\ [][Next]_taggingVars

-----------------------------------------------------------------------------
TypeOK ==
  /\ \A t, u \in tags : t # u => t.id # u.id /\ SlugOf[t.name] # SlugOf[u.name]
  /\ labels \subseteq Live
  /\ note \in Notes \cup {None} /\ index.tags \subseteq Names /\ index.note \in Notes \cup {None}
  /\ deleted \in BOOLEAN /\ owed \in BOOLEAN /\ alone \subseteq Calls /\ cut \subseteq Calls
  /\ drawer = None \/ drawer \subseteq Names

\* Every name of an edit ends as the id of the tag of that name, whoever
\* created it meanwhile ("concurrent taggers converge on the same id",
\* api.ts:291-294), unless a tag of another name has its slug or a tag was
\* deleted on the way.
TaggersConverge ==
  \A k \in Calls \ cut :
    calls[k].kind = "edit" /\ At(k, "check") =>
      \A n \in calls[k].names :
        (\E t \in tags : t.name = n /\ t.id \in calls[k].ids) \/ (\E t \in tags : t.name # n /\ SlugOf[t.name] = SlugOf[n])

\* An edit that no other request met leaves the object with the tags its
\* drawer shows, those it had before and no longer shows included.
DrawerIsStored ==
  \A k \in alone :
    calls[k].kind = "edit" /\ calls[k].at \in {"read", "write"} =>
      Terms.tags = {n \in calls[k].names : ~\E t \in tags : t.name # n /\ SlugOf[t.name] = SlugOf[n]}

\* With nothing under way, the entry is built from the labels and the
\* metadata of now, whatever the requests did to one another, except after
\* what does not rebuild it: a deleted tag, an assign of the MCP server, an
\* insert that failed, and two rebuilds at once.
IndexIsCurrent == Running = {} /\ ~owed => index = Terms

\* Names that are the slug of their tag, and of no other.
OwnSlugs == {n \in Names : \A m \in Names : SlugOf[m] = n <=> m = n}

\* The three searches find the same objects, for some words and for tags
\* whose name is their slug, and theirs alone ("identical to the API/UI path",
\* mcp/src/tools/search.ts:46).
SearchesAgree ==
  \A words \in (SUBSET (Names \cup Notes)) \ {{}}, filter \in SUBSET OwnSlugs :
    /\ McpFinds(words, filter) = ApiFinds(words, filter)
    /\ LibraryFinds(words, filter) = ApiFinds(words, filter)
=============================================================================
