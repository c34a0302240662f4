------------------------------ MODULE Discover ------------------------------
(***************************************************************************)
(* list-frames: what a page holds, read in several requests.               *)
(*                                                                         *)
(* A request sees one level of the file, so the sections of a page are     *)
(* read level by level, some of them per request, while the designer may   *)
(* save between any two answers; then the page is laid out in document     *)
(* order from what was read.  Each section of a request may be read by the *)
(* service at a different moment.                                          *)
(*                                                                         *)
(* The sections of a level are a set: which ones share a request is left   *)
(* open.  Names, sizes and the grouping by name pattern are left out.      *)
(***************************************************************************)
EXTENDS Integers, Sequences, FiniteSets

CONSTANTS
    Page,        \* the page asked for
    Sections,    \* the sections that may be in the file
    Frames,      \* every other node that may be directly on the canvas
    Files,       \* the states of the file: containers to what they hold
    Missing,     \* an answer: null for a node that the file does not have
    Malformed,   \* an answer: a document without a children array
    IdsPerRead,  \* IDS_PER_READ
    MaxSaves     \* bound: saves by the designer

Nodes == Sections \cup Frames
Containers == Sections \cup {Page}

ASSUME FilesAssumption ==
    \A f \in Files :
        /\ DOMAIN f \subseteq Containers
        /\ \A c \in DOMAIN f : f[c] = Malformed \/ f[c] \in Seq(Nodes)
ASSUME IdsAssumption ==
    /\ Sections \cap Frames = {} /\ Page \notin Nodes
    /\ IsFiniteSet(Sections)
    /\ IdsPerRead \in Nat \ {0} /\ MaxSaves \in Nat
ASSUME AnswersAssumption ==
    Missing # Malformed /\ Missing \notin Seq(Nodes) /\ Malformed \notin Seq(Nodes)

VARIABLES
    history,     \* the states of the file so far; its length is the version
    pc,          \* where the listing is
    reason,      \* why it was refused
    before,      \* the version at the first read
    topLevel,    \* what the page read returned
    childrenOf,  \* what the section reads returned
    unread,      \* sections of this level that are still to be asked for
    found,       \* sections met in the answers of this level
    asked,       \* the request under way
    answers,     \* its answer so far
    todo,        \* the layout still to do: [node, path]
    listing      \* the page in document order: [node, path]

file == <<history>>
reading == <<before, topLevel, childrenOf, unread, found, asked, answers>>
layout == <<todo, listing>>
vars == <<history, pc, reason, before, topLevel, childrenOf, unread, found,
          asked, answers, todo, listing>>

Elements(s) == {s[k] : k \in DOMAIN s}

Version == Len(history)

-----------------------------------------------------------------------------
(* getNodesShallow: what the service says of one id at this moment.        *)
Answer(c) ==
    LET f == history[Version] IN IF c \in DOMAIN f THEN f[c] ELSE Missing

SectionsIn(children) == Elements(children) \cap Sections

(* Slip: an empty section passes for a missing one.                        *)
AbsentOrEmpty(a) == a = Missing \/ a = <<>>

Absent(a) == a = Missing

(* Slip: the whole level in one request.                                   *)
WholeLevel(b) == b = unread

(* A request asks for a bounded batch of the level, or for the rest of it. *)
IsBatch(b) ==
    /\ b \subseteq unread /\ b # {}
    /\ Cardinality(b) <= IdsPerRead
    /\ b = unread \/ Cardinality(b) = IdsPerRead

(* Slip: the sections inside sections are left alone.                      *)
FirstLevelOnly(sections, read) == {}

(* Slip: asks again for what a section listed, read or not.                *)
FoundAgain(sections, read) == sections

(* The next level: what the sections listed and nobody has read yet.       *)
NextLevel(sections, read) == sections \ read

Entries(children, path) == [k \in DOMAIN children |-> [node |-> children[k], path |-> path]]

(* A section that was never read would be laid out as an empty one.        *)
Children(s) == IF s \in DOMAIN childrenOf THEN childrenOf[s] ELSE <<>>

Laid == {listing[k].node : k \in DOMAIN listing}

Refused(why) == pc' = "refused" /\ reason' = why

-----------------------------------------------------------------------------
Init ==
    /\ history \in {<<f>> : f \in Files}
    /\ pc = "before"
    /\ reason = "none"
    /\ before = 0
    /\ topLevel = <<>>
    /\ childrenOf = <<>>
    /\ unread = {}
    /\ found = {}
    /\ asked = {}
    /\ answers = <<>>
    /\ todo = <<>>
    /\ listing = <<>>

(* The designer saves the file.                                            *)
Save ==
    /\ Version <= MaxSaves
    /\ \E f \in Files \ {history[Version]} : history' = Append(history, f)
    /\ UNCHANGED <<pc, reason, reading, layout>>

ReadBefore ==
    /\ pc = "before"
    /\ before' = Version
    /\ pc' = "page"
    /\ UNCHANGED <<file, reason, topLevel, childrenOf, unread, found, asked, answers, layout>>

(* A page without sections needs no second read and no second version.     *)
ReadPage ==
    LET page == Answer(Page) IN
    /\ pc = "page"
    /\ ~Absent(page) /\ page # Malformed
    /\ topLevel' = page
    /\ unread' = SectionsIn(page)
    /\ todo' = Entries(page, <<>>)
    /\ pc' = IF SectionsIn(page) = {} THEN "lay" ELSE "sections"
    /\ UNCHANGED <<file, reason, before, childrenOf, found, asked, answers, listing>>

RefusePage ==
    /\ pc = "page"
    /\ \/ Absent(Answer(Page)) /\ Refused("page-missing")
       \/ Answer(Page) = Malformed /\ Refused("contradiction")
    /\ UNCHANGED <<file, reading, layout>>

AskSections ==
    /\ pc = "sections" /\ asked = {}
    /\ \E b \in SUBSET unread : IsBatch(b) /\ asked' = b
    /\ UNCHANGED <<file, pc, reason, before, topLevel, childrenOf, unread, found, answers, layout>>

ServeSection(s) ==
    /\ pc = "sections" /\ s \in asked \ DOMAIN answers
    /\ answers' = [x \in DOMAIN answers \cup {s} |-> IF x = s THEN Answer(s) ELSE answers[x]]
    /\ UNCHANGED <<file, pc, reason, before, topLevel, childrenOf, unread, found, asked, layout>>

Answered == pc = "sections" /\ asked # {} /\ DOMAIN answers = asked

(* The answers are filed, and the level ends with its last batch.          *)
TakeSections ==
    LET rest == unread \ asked
        read == DOMAIN childrenOf \cup asked
        more == found \cup UNION {SectionsIn(answers[s]) : s \in asked} IN
    /\ Answered
    /\ \A s \in asked : ~Absent(answers[s]) /\ answers[s] # Malformed
    /\ childrenOf' = [s \in read |-> IF s \in asked THEN answers[s] ELSE childrenOf[s]]
    /\ unread' = IF rest # {} THEN rest ELSE NextLevel(more, read)
    /\ found' = IF rest # {} THEN more ELSE {}
    /\ asked' = {}
    /\ answers' = <<>>
    /\ pc' = IF unread' = {} THEN "after" ELSE "sections"
    /\ UNCHANGED <<file, reason, before, topLevel, layout>>

RefuseSections ==
    /\ Answered
    /\ \E s \in asked :
         \/ Absent(answers[s]) /\ Refused("incomplete")
         \/ answers[s] = Malformed /\ Refused("contradiction")
    /\ UNCHANGED <<file, reading, layout>>

(* Slip: an older version would have been a change, a newer one is not.    *)
NotOlder == before <= Version

Unchanged == before = Version

ReadAfter ==
    /\ pc = "after"
    /\ Unchanged
    /\ pc' = "lay"
    /\ UNCHANGED <<file, reason, reading, layout>>

RefuseVersion ==
    /\ pc = "after"
    /\ ~Unchanged
    /\ Refused("incomplete")
    /\ UNCHANGED <<file, reading, layout>>

(* getFileMeta, getNodesShallow: no answer, an error status or a bad body. *)
RequestFails ==
    /\ pc \in {"before", "page", "sections", "after"}
    /\ pc = "sections" => asked # {}
    /\ Refused("request")
    /\ UNCHANGED <<file, reading, layout>>

(* Slip: a frame is listed wherever it is met.                             *)
LayAnyFrame ==
    /\ pc = "lay" /\ todo # <<>>
    /\ Head(todo).node \in Frames
    /\ listing' = Append(listing, Head(todo))
    /\ todo' = Tail(todo)
    /\ UNCHANGED <<file, pc, reason, reading>>

(* visit: a frame is listed where it is met.                               *)
LayFrame ==
    /\ pc = "lay" /\ todo # <<>>
    /\ Head(todo).node \in Frames \ Laid
    /\ listing' = Append(listing, Head(todo))
    /\ todo' = Tail(todo)
    /\ UNCHANGED <<file, pc, reason, reading>>

(* Slip: what a section holds comes at the end of the page.                *)
LaySectionLast ==
    LET e == Head(todo) IN
    /\ pc = "lay" /\ todo # <<>>
    /\ e.node \in Sections \ Laid
    /\ listing' = Append(listing, e)
    /\ todo' = Tail(todo) \o Entries(Children(e.node), Append(e.path, e.node))
    /\ UNCHANGED <<file, pc, reason, reading>>

(* visit: what a section holds follows it, one section further in.         *)
LaySection ==
    LET e == Head(todo) IN
    /\ pc = "lay" /\ todo # <<>>
    /\ e.node \in Sections \ Laid
    /\ listing' = Append(listing, e)
    /\ todo' = Entries(Children(e.node), Append(e.path, e.node)) \o Tail(todo)
    /\ UNCHANGED <<file, pc, reason, reading>>

(* visit: an id met twice is the source contradicting itself.              *)
RefuseTwice ==
    /\ pc = "lay" /\ todo # <<>>
    /\ Head(todo).node \in Laid
    /\ Refused("contradiction")
    /\ UNCHANGED <<file, reading, layout>>

FinishListing ==
    /\ pc = "lay" /\ todo = <<>>
    /\ pc' = "listed"
    /\ UNCHANGED <<file, reason, reading, layout>>

List ==
    \/ ReadBefore
    \/ ReadPage
    \/ RefusePage
    \/ AskSections
    \/ \E s \in Sections : ServeSection(s)
    \/ TakeSections
    \/ RefuseSections
    \/ ReadAfter
    \/ RefuseVersion
    \/ RequestFails
    \/ LayFrame
    \/ LaySection
    \/ RefuseTwice
    \/ FinishListing

Next == Save \/ List

Spec == Init /\ [][Next]_vars

(* The client's requests time out, so a listing is answered or fails.      *)
LiveSpec == Spec /\ WF_vars(List)

-----------------------------------------------------------------------------
(***************************************************************************)
(* Properties                                                              *)
(***************************************************************************)
EntryType == [node : Nodes, path : Seq(Sections)]

(* Every variable has its type.  No request carries more than IDS_PER_READ *)
(* ids, and none asks for a section that was read already.                 *)
TypeOK ==
    /\ history \in Seq(Files)
    /\ Len(history) \in 1..(MaxSaves + 1)
    /\ pc \in {"before", "page", "sections", "after", "lay", "listed", "refused"}
    /\ reason \in {"none", "page-missing", "request", "incomplete", "contradiction"}
    /\ before \in 0..Version
    /\ topLevel \in Seq(Nodes)
    /\ DOMAIN childrenOf \subseteq Sections
    /\ \A s \in DOMAIN childrenOf : childrenOf[s] \in Seq(Nodes)
    /\ unread \subseteq Sections /\ found \subseteq Sections
    /\ asked \subseteq unread /\ Cardinality(asked) <= IdsPerRead
    /\ DOMAIN answers \subseteq asked
    /\ todo \in Seq(EntryType)
    /\ listing \in Seq(EntryType)

(* listPageContents: "Several reads must describe one file" (discover.ts). *)
(* Once the page is laid out, everything that was read is what the file    *)
(* held at one moment since the listing began.                             *)
OneVersion ==
    pc \in {"lay", "listed"} =>
        \E v \in before..Version :
            /\ Page \in DOMAIN history[v] /\ topLevel = history[v][Page]
            /\ \A s \in DOMAIN childrenOf :
                 s \in DOMAIN history[v] /\ childrenOf[s] = history[v][s]

(* readSectionChildren: a section is asked for once, however often and     *)
(* wherever the answers list it, so that the reads come to an end.         *)
NeverAskedAgain == [][asked' \cap DOMAIN childrenOf = {}]_vars

(* listPageContents: "An id met twice is the source contradicting itself": *)
(* no listing shows a node twice, even of a service that lists it so.      *)
NothingTwice ==
    \A j, k \in DOMAIN listing : listing[j].node = listing[k].node => j = k

(* A listing holds the page's children and those of every section in it,   *)
(* and each of those sections was read, none taken for an empty one.       *)
NothingLost ==
    pc = "listed" =>
        /\ Elements(topLevel) \subseteq Laid
        /\ \A s \in Laid \cap Sections :
             s \in DOMAIN childrenOf /\ Elements(childrenOf[s]) \subseteq Laid

(* Both together: a listing shows exactly what is on the page, once,       *)
(* however the answers hang together.                                      *)
ListingIsExact == NothingTwice /\ NothingLost

(* A file as a service should describe it: a node is in one place only,    *)
(* and what holds a section knows what the section holds.                  *)
NoNodeTwice(f) ==
    \A c, d \in DOMAIN f : \A j \in DOMAIN f[c], k \in DOMAIN f[d] :
        f[c][j] = f[d][k] => c = d /\ j = k

IsWhole(f) ==
    /\ \A c \in DOMAIN f : f[c] # Malformed /\ SectionsIn(f[c]) \subseteq DOMAIN f
    /\ NoNodeTwice(f)

Honest == \A v \in 1..Version : IsWhole(history[v])

(* The way to an entry: the sections from the page down, and the node.     *)
Trail(e) == Append(e.path, e.node)

Holder(x, i) == IF i = 1 THEN Page ELSE x[i - 1]

Lists(f, c) == c \in DOMAIN f /\ f[c] # Malformed

IsTrail(f, x) ==
    \A i \in DOMAIN x : Lists(f, Holder(x, i)) /\ x[i] \in Elements(f[Holder(x, i)])

(* Document order: a section comes before what is in it, and where two     *)
(* ways part, the one to the earlier child comes first.                    *)
Leads(x, y) == Len(x) < Len(y) /\ \A h \in DOMAIN x : x[h] = y[h]

Parts(f, x, y) ==
    \E i \in DOMAIN x \cap DOMAIN y :
        /\ \A h \in 1..(i - 1) : x[h] = y[h]
        /\ \E j, k \in DOMAIN f[Holder(x, i)] :
             j < k /\ x[i] = f[Holder(x, i)][j] /\ y[i] = f[Holder(x, i)][k]

Precedes(f, x, y) == Leads(x, y) \/ Parts(f, x, y)

(* l is the page of f: every entry is where f has it, they are in document *)
(* order, and none is left out.                                            *)
IsPageOf(f, l) ==
    /\ Lists(f, Page)
    /\ \A e \in Elements(l) : IsTrail(f, Trail(e))
    /\ \A j, k \in DOMAIN l : j < k => Precedes(f, Trail(l[j]), Trail(l[k]))
    /\ \A n \in Elements(f[Page]) : [node |-> n, path |-> <<>>] \in Elements(l)
    /\ \A e \in Elements(l) :
         e.node \in Sections =>
             /\ Lists(f, e.node)
             /\ \A n \in Elements(f[e.node]) : [node |-> n, path |-> Trail(e)] \in Elements(l)

(* "The listing would describe a page that never existed" (discover.ts):   *)
(* a listing is the page of one moment since it began, every node under    *)
(* the sections it was in at that moment.                                  *)
ListsAPageThatExisted ==
    pc = "listed" => \E v \in before..Version : IsPageOf(history[v], listing)

(* A listing that says "retry" or accuses the service has a cause: of a    *)
(* file that nobody saved meanwhile it says neither.                       *)
RefusalHasCause ==
    Honest =>
    /\ reason = "incomplete" => Version > before
    /\ reason = "page-missing" => \E v \in before..Version : Page \notin DOMAIN history[v]
    /\ reason # "contradiction"

(* Both together: every outcome of list-frames, a listing or a refusal, is *)
(* one that the file gave cause for.                                       *)
OutcomeHasCause == ListsAPageThatExisted /\ RefusalHasCause

(* Whatever the service answers and the designer saves, a listing ends.    *)
Terminates == <>(pc \in {"listed", "refused"})
=============================================================================
