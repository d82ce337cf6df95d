---------------------------- MODULE SearchScreen ----------------------------
(* The search screen: what is typed is searched for after a pause, and the   *)
(* labels chosen in the rail go to the server as filters. Which group a      *)
(* chosen label belongs to is looked up, at every render, in the options of  *)
(* the render before; the options are the facets of the answer in the cache  *)
(* for the query and the filters, so a render that finds no answer leaves    *)
(* none. Answers arrive in any order.                                        *)
EXTENDS FiniteSets

CONSTANTS
  Texts,          \* what the user may type, the empty text aside
  Items,          \* the files
  FoundBy,        \* the texts that find a file
  TagsOf,         \* its tags
  KindOf          \* its kind

Kinds == {KindOf[i] : i \in Items}
TagNames == UNION {TagsOf[i] : i \in Items}
Empty == "empty text"

SearchAssumption ==
  /\ FoundBy \in [Items -> SUBSET Texts] /\ Empty \notin Texts
  /\ Kinds \intersect TagNames = {}

VARIABLES
  typed,          \* the text in the box
  query,          \* the text the pause let through
  active,         \* the labels chosen
  options,        \* the labels the last render listed: kinds and tags
  wanted,         \* the key the last render asked the cache for
  asked,          \* keys whose answer is under way
  cache           \* answers, each with the key it is kept under

vars == <<typed, query, active, options, wanted, asked, cache>>

Key(text, filters) == [text |-> text, kinds |-> filters.kinds, tags |-> filters.tags]

(* The route: the files the text finds, of the kind, with one of the tags. *)
Found(key) ==
  {i \in Items :
     /\ key.text \in FoundBy[i]
     /\ key.kinds = {} \/ KindOf[i] \in key.kinds
     /\ key.tags = {} \/ TagsOf[i] \intersect key.tags # {}}

Facets(found) == [kinds |-> {KindOf[i] : i \in found}, tags |-> UNION {TagsOf[i] : i \in found}]

(* Without an answer the kinds fall back to a fixed list, whose names are    *)
(* spelt differently from the server's: no label chosen is among them.       *)
NoOptions == [kinds |-> {}, tags |-> {}]

(* serverFilters: one of the kinds chosen, all the tags, as far as the last  *)
(* render listed them.                                                       *)
ServerFilters(labels, listed) ==
  {[kinds |-> k, tags |-> labels \intersect listed.tags] :
     k \in IF labels \intersect listed.kinds = {} THEN {{}}
           ELSE {{l} : l \in labels \intersect listed.kinds}}

Answers(key, kept) == {a.found : a \in {b \in kept : b.key = key}}

TypeOK ==
  /\ typed \in Texts \union {Empty} /\ query \in Texts \union {Empty}
  /\ active \subseteq Kinds \union TagNames
  /\ options.kinds \subseteq Kinds /\ options.tags \subseteq TagNames
  /\ \A key \in asked \union {a.key : a \in cache} : key.text \in Texts
  /\ \A a \in cache : a.found \subseteq Items /\ Cardinality(Answers(a.key, cache)) = 1

Init ==
  /\ typed = Empty /\ query = Empty /\ active = {}
  /\ options = NoOptions /\ wanted = Key(Empty, NoOptions)
  /\ asked = {} /\ cache = {}

(* One render: filters from the options of the render before, the cache for  *)
(* the key, a request when it has nothing, the options for the next render.  *)
Render(text, labels, kept, open) ==
  \E filters \in ServerFilters(labels, options) :
    LET key == Key(text, filters)
        answers == Answers(key, kept)
    IN /\ wanted' = key
       /\ asked' = open \union IF text # Empty /\ answers = {} THEN {key} ELSE {}
       /\ options' = IF answers = {} THEN NoOptions ELSE Facets(UNION answers)

Types(text) ==
  /\ text # typed /\ typed' = text
  /\ Render(query, active, cache, asked)
  /\ UNCHANGED <<query, active, cache>>

(* The text has been left alone for 300 ms. *)
Pause ==
  /\ query # typed /\ query' = typed
  /\ Render(typed, active, cache, asked)
  /\ UNCHANGED <<typed, active, cache>>

(* toggleFilter on a listed label, or on a chosen one. *)
Toggle(label) ==
  /\ label \in options.kinds \union options.tags \union active
  /\ active' = IF label \in active THEN active \ {label} ELSE active \union {label}
  /\ Render(query, active', cache, asked)
  /\ UNCHANGED <<typed, query>> /\ UNCHANGED cache

(* An answer is kept under its key; the screen renders again when it is the  *)
(* one it waits for.                                                         *)
Lands(key) ==
  /\ key \in asked
  /\ cache' = {a \in cache : a.key # key} \union {[key |-> key, found |-> Found(key)]}
  /\ IF key = wanted
     THEN Render(query, active, cache', asked \ {key})
     ELSE asked' = asked \ {key} /\ UNCHANGED <<options, wanted>>
  /\ UNCHANGED <<typed, query, active>>

(* The next page begins or ends to load, the window is focused. *)
RendersAgain ==
  /\ Render(query, active, cache, asked)
  /\ UNCHANGED <<typed, query, active, cache>>

Next ==
  \/ Pause \/ RendersAgain
  \/ \E text \in Texts : Types(text)
  \/ \E label \in Kinds \union TagNames : Toggle(label)
  \/ \E key \in asked : Lands(key)

Spec == Init /\ [][Next]_vars

-----------------------------------------------------------------------------
Shown == UNION Answers(wanted, cache)

(* In whatever order the answers of earlier texts and filters arrive, what   *)
(* is shown are files the present text finds, all of them when no label is   *)
(* chosen, and no file is missing that has every label chosen.               *)
AnswersItsText ==
  /\ \A i \in Shown : query \in FoundBy[i]
  /\ (query # Empty /\ Answers(wanted, cache) # {}) =>
       \A i \in Items : (query \in FoundBy[i] /\ active \subseteq TagsOf[i] \union {KindOf[i]}) => i \in Shown
=============================================================================
