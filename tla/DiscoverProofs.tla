--------------------------- MODULE DiscoverProofs ---------------------------
(***************************************************************************)
(* Proofs about Discover, for any file, any number of sections, any size   *)
(* of a request and any number of saves.                                   *)
(*                                                                         *)
(* The argument for OneVersion: as long as nobody has saved since the      *)
(* first read, everything read is the file's present state; the version    *)
(* check lets the listing go on only then.  The argument for NothingLost:  *)
(* every section met so far is read, asked for or found; when none is left *)
(* to ask for, what was read is closed, and the layout moves every node    *)
(* from what is still to do to what is laid out.                           *)
(*                                                                         *)
(* The argument for OutcomeHasCause: what is laid out and what is still to *)
(* do are in document order, and two entries that are still to do are on   *)
(* ways that part, so that what a section holds fits between the section   *)
(* and all that comes after it.  Of an honest file, all of these nodes are *)
(* different, and each was met on the page or in a section that is laid;   *)
(* what the next section holds was therefore not met before.               *)
(***************************************************************************)
EXTENDS Discover, DataFacts, FiniteSetTheorems, TLAPS

-----------------------------------------------------------------------------
(* Types.                                                                  *)

(* The answer of the service is one of the three kinds.                    *)
LEMMA AnswerType ==
    ASSUME TypeOK, NEW c \in Containers
    PROVE  Answer(c) = Missing \/ Answer(c) = Malformed \/ Answer(c) \in Seq(Nodes)
  <1>1. Version \in DOMAIN history
    BY DEF TypeOK, Version
  <1>2. history[Version] \in Files
    BY <1>1 DEF TypeOK
  <1> QED
    BY <1>2, FilesAssumption DEF Answer

(* What is on the way of being laid out, as entries.                       *)
LEMMA EntriesType ==
    ASSUME NEW s \in Seq(Nodes), NEW p \in Seq(Sections)
    PROVE  /\ Entries(s, p) \in Seq(EntryType)
           /\ DOMAIN Entries(s, p) = DOMAIN s
           /\ \A k \in DOMAIN s : Entries(s, p)[k].node = s[k] /\ Entries(s, p)[k].path = p
  <1>1. Entries(s, p) = [k \in 1..Len(s) |-> [node |-> s[k], path |-> p]] /\ Len(s) \in Nat
    BY DEF Entries
  <1>2. \A k \in 1..Len(s) : [node |-> s[k], path |-> p] \in EntryType
    BY DEF EntryType
  <1> QED
    BY <1>1, <1>2

TypeInv ==
    /\ TypeOK
    /\ \A s \in DOMAIN answers :
         answers[s] = Missing \/ answers[s] = Malformed \/ answers[s] \in Seq(Nodes)
    /\ IsFiniteSet(asked)
    /\ pc \notin {"sections", "refused"} => asked = {} /\ answers = <<>>
    /\ pc \in {"before", "page"} => DOMAIN childrenOf = {} /\ found = {} /\ listing = <<>>
    /\ pc \notin {"before", "refused"} => before >= 1

LEMMA InitTypeInv == Init => TypeInv
  <1> SUFFICES ASSUME Init PROVE TypeInv
    OBVIOUS
  <1>1. Cardinality({}) = 0 /\ IsFiniteSet({})
    BY FS_EmptySet
  <1>2. Len(history) = 1 /\ history \in Seq(Files)
    <2>1. PICK f \in Files : history = <<f>>
      BY DEF Init
    <2> QED
      BY <2>1
  <1>3. /\ <<>> \in Seq(Nodes) /\ <<>> \in Seq(EntryType)
        /\ \A s \in DOMAIN <<>> : FALSE
    OBVIOUS
  <1> QED
    BY <1>1, <1>2, <1>3, IdsAssumption DEF Init, TypeInv, TypeOK, Version

LEMMA SaveTypeInv ==
    ASSUME TypeInv, Save PROVE TypeInv'
  <1>1. PICK f \in Files : history' = Append(history, f)
    BY DEF Save
  <1>2. history \in Seq(Files)
    BY DEF TypeInv, TypeOK
  <1>3. history' \in Seq(Files) /\ Len(history') = Len(history) + 1
    BY <1>1, <1>2
  <1>4. Len(history') \in 1..(MaxSaves + 1) /\ before' \in 0..Len(history')
    BY <1>2, <1>3, IdsAssumption DEF Save, TypeInv, TypeOK, Version, reading
  <1> QED
    BY <1>3, <1>4 DEF Save, TypeInv, TypeOK, Version, reading, layout

LEMMA ReadTypeInv ==
    ASSUME TypeInv, ReadBefore \/ ReadPage \/ AskSections \/ (\E s \in Sections : ServeSection(s))
    PROVE  TypeInv'
  <1> USE DEF TypeInv, TypeOK, Version, file, reading, layout
  <1>1. CASE ReadBefore
    <2>1. Len(history) \in 0..Len(history)
      OBVIOUS
    <2> QED
      BY <1>1, <2>1 DEF ReadBefore
  <1>2. CASE ReadPage
    <2>1. Answer(Page) \in Seq(Nodes)
      BY <1>2, AnswerType DEF ReadPage, Absent, Containers
    <2>2. SectionsIn(Answer(Page)) \subseteq Sections
      BY DEF SectionsIn
    <2>3. <<>> \in Seq(Sections)
      OBVIOUS
    <2>4. Entries(Answer(Page), <<>>) \in Seq(EntryType)
      BY <2>1, <2>3, EntriesType
    <2>5. asked' = asked /\ answers' = answers /\ unread' = SectionsIn(Answer(Page))
      BY <1>2 DEF ReadPage
    <2> QED
      BY <1>2, <2>1, <2>2, <2>4, <2>5 DEF ReadPage
  <1>3. CASE AskSections
    <2>1. PICK b \in SUBSET unread : IsBatch(b) /\ asked' = b
      BY <1>3 DEF AskSections
    <2>2. IsFiniteSet(b)
      BY <2>1, IdsAssumption, FS_Subset
    <2> QED
      BY <1>3, <2>1, <2>2 DEF AskSections, IsBatch
  <1>4. CASE \E s \in Sections : ServeSection(s)
    <2>1. PICK s \in Sections : ServeSection(s)
      BY <1>4
    <2>2. Answer(s) = Missing \/ Answer(s) = Malformed \/ Answer(s) \in Seq(Nodes)
      BY AnswerType DEF Containers
    <2> QED
      BY <2>1, <2>2 DEF ServeSection
  <1> QED
    BY <1>1, <1>2, <1>3, <1>4

LEMMA TakeTypeInv ==
    ASSUME TypeInv, TakeSections PROVE TypeInv'
  <1> DEFINE rest == unread \ asked
             read == DOMAIN childrenOf \cup asked
             more == found \cup UNION {SectionsIn(answers[s]) : s \in asked}
  <1>1. \A s \in asked : answers[s] \in Seq(Nodes)
    BY DEF TakeSections, Answered, Absent, TypeInv
  <1>2. more \subseteq Sections
    BY DEF SectionsIn, TypeInv, TypeOK
  <1>3. read \subseteq Sections /\ rest \subseteq Sections
    BY DEF TypeInv, TypeOK
  <1>4. /\ childrenOf' = [s \in read |-> IF s \in asked THEN answers[s] ELSE childrenOf[s]]
        /\ unread' = IF rest # {} THEN rest ELSE more \ read
        /\ found' = IF rest # {} THEN more ELSE {}
        /\ pc = "sections" /\ pc' \in {"sections", "after"}
        /\ asked' = {} /\ answers' = <<>>
    BY DEF TakeSections, NextLevel, Answered
  <1>5. UNCHANGED <<history, reason, before, topLevel, todo, listing>>
    BY DEF TakeSections, file, layout
  <1> HIDE DEF rest, read, more
  <1>6. DOMAIN childrenOf' = read /\ \A s \in read : childrenOf'[s] \in Seq(Nodes)
    BY <1>1, <1>4 DEF read, TypeInv, TypeOK
  <1>7. unread' \subseteq Sections /\ found' \subseteq Sections
    BY <1>2, <1>3, <1>4
  <1>8. asked' \subseteq unread' /\ Cardinality(asked') <= IdsPerRead /\ IsFiniteSet(asked') /\ DOMAIN answers' = {}
    BY <1>4, FS_EmptySet, IdsAssumption
  <1> QED
    BY <1>3, <1>4, <1>5, <1>6, <1>7, <1>8 DEF TypeInv, TypeOK, Version

LEMMA LayTypeInv ==
    ASSUME TypeInv, LayFrame \/ LaySection PROVE TypeInv'
  <1>1. /\ todo \in Seq(EntryType) /\ listing \in Seq(EntryType) /\ todo # <<>>
        /\ Head(todo) \in EntryType /\ Tail(todo) \in Seq(EntryType)
    BY TailFacts DEF LayFrame, LaySection, TypeInv, TypeOK
  <1>2. listing' = Append(listing, Head(todo)) /\ listing' \in Seq(EntryType)
    <2>1. listing' = Append(listing, Head(todo))
      BY DEF LayFrame, LaySection
    <2> QED
      BY <1>1, <2>1, AppendFacts
  <1>3. todo' \in Seq(EntryType)
    <2>1. CASE LayFrame
      BY <1>1, <2>1 DEF LayFrame
    <2>2. CASE LaySection
      <3>1. Children(Head(todo).node) \in Seq(Nodes)
        BY <2>2 DEF LaySection, Children, TypeInv, TypeOK
      <3>2. Append(Head(todo).path, Head(todo).node) \in Seq(Sections)
        BY <1>1, <2>2 DEF LaySection, EntryType
      <3>3. Entries(Children(Head(todo).node), Append(Head(todo).path, Head(todo).node)) \in Seq(EntryType)
        BY <3>1, <3>2, EntriesType
      <3> QED
        BY <1>1, <2>2, <3>3, ConcatFacts DEF LaySection
    <2> QED
      BY <2>1, <2>2
  <1>4. UNCHANGED <<file, pc, reason, reading>> /\ pc = "lay"
    BY DEF LayFrame, LaySection
  <1> QED
    BY <1>2, <1>3, <1>4 DEF TypeInv, TypeOK, Version, file, reading

(* The steps that end the listing, or let it go on.                        *)
LEMMA RestTypeInv ==
    ASSUME TypeInv,
           \/ RefusePage \/ RefuseSections \/ ReadAfter \/ RefuseVersion
           \/ RequestFails \/ RefuseTwice \/ FinishListing \/ UNCHANGED vars
    PROVE  TypeInv'
  <1> USE DEF TypeInv, TypeOK, Version, file, reading, layout
  <1>1. CASE RefusePage
    BY <1>1 DEF RefusePage, Refused
  <1>2. CASE RefuseSections
    BY <1>2 DEF RefuseSections, Refused
  <1>3. CASE ReadAfter
    BY <1>3 DEF ReadAfter
  <1>4. CASE RefuseVersion
    BY <1>4 DEF RefuseVersion, Refused
  <1>5. CASE RequestFails
    BY <1>5 DEF RequestFails, Refused
  <1>6. CASE RefuseTwice
    BY <1>6 DEF RefuseTwice, Refused
  <1>7. CASE FinishListing
    BY <1>7 DEF FinishListing
  <1>8. CASE UNCHANGED vars
    BY <1>8 DEF vars
  <1> QED
    BY <1>1, <1>2, <1>3, <1>4, <1>5, <1>6, <1>7, <1>8

LEMMA TypeInvStep ==
    ASSUME TypeInv, [Next]_vars PROVE TypeInv'
  BY SaveTypeInv, ReadTypeInv, TakeTypeInv, LayTypeInv, RestTypeInv DEF Next, List

(* Every variable keeps its type, and no request carries too many ids.     *)
THEOREM ListingTypeCorrect == Spec => []TypeOK
  <1>1. TypeInv => TypeOK
    BY DEF TypeInv
  <1> QED
    BY <1>1, InitTypeInv, TypeInvStep, PTL DEF Spec

LEMMA TypeInvariant == Spec => []TypeInv
  BY InitTypeInv, TypeInvStep, PTL DEF Spec

-----------------------------------------------------------------------------
(* One version.                                                            *)

(* What an answer of the present file says.                                *)
Present(c, children) ==
    c \in DOMAIN history[Version] /\ children = history[Version][c]

(* As long as nobody has saved, everything read is what the file has now.  *)
StillFresh ==
    before = Version /\ pc \in {"sections", "after"} =>
        /\ Present(Page, topLevel)
        /\ \A s \in DOMAIN childrenOf : Present(s, childrenOf[s])
        /\ \A s \in DOMAIN answers : answers[s] = Answer(s)

LEMMA PresentAnswer ==
    ASSUME TypeInv, NEW c \in Containers, Answer(c) # Missing
    PROVE  Present(c, Answer(c))
  BY DEF Answer, Present

LEMMA FreshInit == Init => StillFresh /\ OneVersion
  BY DEF Init, StillFresh, OneVersion

LEMMA FreshSave ==
    ASSUME TypeInv, StillFresh, OneVersion, Save
    PROVE  StillFresh' /\ OneVersion'
  <1>1. PICK f \in Files : history' = Append(history, f)
    BY DEF Save
  <1>2. history \in Seq(Files) /\ before \in 0..Version
    BY DEF TypeInv, TypeOK
  <1>3. /\ Version' = Version + 1 /\ Version \in Nat
        /\ \A v \in 1..Version : history'[v] = history[v]
    BY <1>1, <1>2 DEF Version
  <1>4. UNCHANGED <<pc, before, topLevel, childrenOf>>
    BY DEF Save, reading
  <1>5. before' # Version'
    BY <1>2, <1>3, <1>4
  <1>6. Version >= 1 /\ Version \in DOMAIN history
    BY DEF TypeInv, TypeOK, Version
  <1>7. OneVersion'
    <2> SUFFICES ASSUME pc \in {"lay", "listed"}
                 PROVE  \E v \in before..Version' :
                          /\ Page \in DOMAIN history'[v] /\ topLevel = history'[v][Page]
                          /\ \A s \in DOMAIN childrenOf :
                               s \in DOMAIN history'[v] /\ childrenOf[s] = history'[v][s]
      BY <1>4 DEF OneVersion
    <2>1. PICK v \in before..Version :
              /\ Page \in DOMAIN history[v] /\ topLevel = history[v][Page]
              /\ \A s \in DOMAIN childrenOf :
                   s \in DOMAIN history[v] /\ childrenOf[s] = history[v][s]
      BY DEF OneVersion
    <2> QED
      BY <2>1, <1>2, <1>3 DEF TypeInv
  <1> QED
    BY <1>5, <1>7 DEF StillFresh

LEMMA FreshRead ==
    ASSUME TypeInv, StillFresh, OneVersion,
           ReadPage \/ AskSections \/ (\E s \in Sections : ServeSection(s))
    PROVE  StillFresh' /\ OneVersion'
  <1> USE DEF file, layout, reading
  <1>1. CASE ReadPage
    <2>1. Present(Page, Answer(Page)) /\ Version \in before..Version
      BY <1>1, PresentAnswer DEF ReadPage, Absent, Containers, TypeInv, TypeOK, Version
    <2>2. DOMAIN childrenOf = {} /\ DOMAIN answers = {}
      BY <1>1 DEF ReadPage, TypeInv
    <2> QED
      BY <1>1, <2>1, <2>2 DEF ReadPage, StillFresh, OneVersion, Present, Version
  <1>2. CASE AskSections
    <2>1. DOMAIN answers' = DOMAIN answers
      BY <1>2 DEF AskSections
    <2> QED
      BY <1>2, <2>1 DEF AskSections, StillFresh, OneVersion, Present, Answer, Version
  <1>3. CASE \E s \in Sections : ServeSection(s)
    <2>1. PICK s \in Sections : ServeSection(s)
      BY <1>3
    <2> QED
      BY <2>1 DEF ServeSection, StillFresh, OneVersion, Present, Answer, Version
  <1> QED
    BY <1>1, <1>2, <1>3

LEMMA FreshTake ==
    ASSUME TypeInv, StillFresh, TakeSections
    PROVE  StillFresh' /\ OneVersion'
  <1>1. /\ pc = "sections" /\ pc' \in {"sections", "after"} /\ DOMAIN answers = asked
        /\ \A s \in asked : answers[s] # Missing
        /\ childrenOf' = [s \in DOMAIN childrenOf \cup asked |->
                            IF s \in asked THEN answers[s] ELSE childrenOf[s]]
        /\ answers' = <<>>
        /\ UNCHANGED <<history, before, topLevel>>
    BY DEF TakeSections, Answered, Absent, file
  <1>2. Version' = Version
    BY <1>1 DEF Version
  <1>3. OneVersion'
    BY <1>1 DEF OneVersion
  <1>4. ASSUME before = Version, NEW s \in DOMAIN childrenOf'
        PROVE  Present(s, childrenOf'[s])
    <2>1. CASE s \in asked
      <3>1. answers[s] = Answer(s) /\ s \in Containers
        BY <1>1, <1>4, <2>1 DEF StillFresh, TypeInv, TypeOK, Containers
      <3> QED
        BY <1>1, <2>1, <3>1, PresentAnswer
    <2>2. CASE s \notin asked
      BY <1>1, <1>4, <2>2 DEF StillFresh
    <2> QED
      BY <2>1, <2>2
  <1>5. before = Version => Present(Page, topLevel)
    BY <1>1 DEF StillFresh
  <1>6. DOMAIN answers' = {}
    BY <1>1
  <1> QED
    BY <1>1, <1>2, <1>3, <1>4, <1>5, <1>6 DEF StillFresh, Present

LEMMA FreshRest ==
    ASSUME TypeInv, StillFresh, OneVersion,
           \/ ReadBefore \/ RefusePage \/ RefuseSections \/ ReadAfter \/ RefuseVersion
           \/ RequestFails \/ LayFrame \/ LaySection \/ RefuseTwice \/ FinishListing
           \/ UNCHANGED vars
    PROVE  StillFresh' /\ OneVersion'
  <1> USE DEF file, reading, layout, StillFresh, OneVersion, Present, Answer, Version
  <1>1. CASE ReadBefore
    BY <1>1 DEF ReadBefore
  <1>2. CASE RefusePage
    BY <1>2 DEF RefusePage, Refused
  <1>3. CASE RefuseSections
    BY <1>3 DEF RefuseSections, Refused
  <1>4. CASE ReadAfter
    <2>1. before = Len(history) /\ before \in before..Len(history)
      BY <1>4 DEF ReadAfter, Unchanged, TypeInv, TypeOK
    <2> QED
      BY <1>4, <2>1 DEF ReadAfter
  <1>5. CASE RefuseVersion
    BY <1>5 DEF RefuseVersion, Refused
  <1>6. CASE RequestFails
    BY <1>6 DEF RequestFails, Refused
  <1>7. CASE LayFrame
    BY <1>7 DEF LayFrame
  <1>8. CASE LaySection
    BY <1>8 DEF LaySection
  <1>9. CASE RefuseTwice
    BY <1>9 DEF RefuseTwice, Refused
  <1>10. CASE FinishListing
    BY <1>10 DEF FinishListing
  <1>11. CASE UNCHANGED vars
    BY <1>11 DEF vars
  <1> QED
    BY <1>1, <1>2, <1>3, <1>4, <1>5, <1>6, <1>7, <1>8, <1>9, <1>10, <1>11

LEMMA FreshStep ==
    ASSUME TypeInv, StillFresh, OneVersion, [Next]_vars
    PROVE  StillFresh' /\ OneVersion'
  BY FreshSave, FreshRead, FreshTake, FreshRest DEF Next, List

LEMMA FreshInvariant == Spec => [](StillFresh /\ OneVersion)
  <1>1. TypeInv /\ StillFresh /\ OneVersion /\ [Next]_vars => (StillFresh /\ OneVersion)'
    BY FreshStep
  <1> QED
    BY <1>1, FreshInit, TypeInvariant, PTL DEF Spec

(* What is laid out was all read of one state of the file, which the file  *)
(* had at some moment since the listing began.                             *)
THEOREM ListingIsOneVersion == Spec => []OneVersion
  BY FreshInvariant, PTL

-----------------------------------------------------------------------------
(* Every section is read, and read once.                                   *)

(* Every section that was met is read, or will be.                         *)
Pending ==
    /\ unread \cap DOMAIN childrenOf = {}
    /\ pc \in {"sections", "after"} =>
         /\ SectionsIn(topLevel) \subseteq DOMAIN childrenOf \cup unread \cup found
         /\ \A s \in DOMAIN childrenOf :
              SectionsIn(childrenOf[s]) \subseteq DOMAIN childrenOf \cup unread \cup found
    /\ pc = "after" => unread = {} /\ found = {}

LEMMA PendingInit == Init => Pending
  BY DEF Init, Pending

LEMMA PendingTake ==
    ASSUME TypeInv, Pending, TakeSections
    PROVE  Pending'
  <1> DEFINE rest == unread \ asked
             read == DOMAIN childrenOf \cup asked
             more == found \cup UNION {SectionsIn(answers[s]) : s \in asked}
  <1>1. /\ childrenOf' = [s \in read |-> IF s \in asked THEN answers[s] ELSE childrenOf[s]]
        /\ unread' = IF rest # {} THEN rest ELSE more \ read
        /\ found' = IF rest # {} THEN more ELSE {}
        /\ topLevel' = topLevel
        /\ pc = "sections"
        /\ pc' = IF unread' = {} THEN "after" ELSE "sections"
        /\ unread \subseteq rest \cup read
        /\ read \cap rest = {}
    BY DEF TakeSections, NextLevel, Answered, Pending
  <1>2. /\ found \subseteq more
        /\ \A s \in asked : SectionsIn(answers[s]) \subseteq more
    OBVIOUS
  <1>3. DOMAIN childrenOf \subseteq read
    OBVIOUS
  <1>3a. \A s \in read : s \in asked \/ s \in DOMAIN childrenOf
    OBVIOUS
  <1> HIDE DEF rest, read, more
  <1>4. read \cup rest \cup more \subseteq DOMAIN childrenOf' \cup unread' \cup found'
    BY <1>1
  <1>5. SectionsIn(topLevel) \subseteq read \cup rest \cup more
    BY <1>1, <1>2, <1>3 DEF Pending
  <1>6. ASSUME NEW s \in DOMAIN childrenOf'
        PROVE  SectionsIn(childrenOf'[s]) \subseteq read \cup rest \cup more
    <2>1. CASE s \in asked
      BY <1>1, <1>2, <2>1
    <2>2. CASE s \notin asked
      <3>1. s \in DOMAIN childrenOf /\ childrenOf'[s] = childrenOf[s]
        BY <1>1, <1>3a, <2>2
      <3> QED
        BY <1>1, <1>2, <1>3, <3>1 DEF Pending
    <2> QED
      BY <2>1, <2>2
  <1>7. SectionsIn(topLevel)' = SectionsIn(topLevel)
        /\ \A s : SectionsIn(childrenOf[s])' = SectionsIn(childrenOf'[s])
    BY <1>1 DEF SectionsIn, Elements
  <1>8. unread' \cap DOMAIN childrenOf' = {}
    BY <1>1
  <1>9. pc' = "after" => unread' = {} /\ found' = {}
    BY <1>1
  <1> QED
    BY <1>1, <1>4, <1>5, <1>6, <1>7, <1>8, <1>9 DEF Pending

LEMMA PendingRest ==
    ASSUME TypeInv, Pending,
           \/ Save \/ ReadBefore \/ ReadPage \/ RefusePage \/ AskSections
           \/ (\E s \in Sections : ServeSection(s))
           \/ RefuseSections \/ ReadAfter \/ RefuseVersion \/ RequestFails
           \/ LayFrame \/ LaySection \/ RefuseTwice \/ FinishListing \/ UNCHANGED vars
    PROVE  Pending'
  <1> USE DEF file, reading, layout, Pending, SectionsIn, Elements
  <1>1. CASE Save
    BY <1>1 DEF Save
  <1>2. CASE ReadBefore
    BY <1>2 DEF ReadBefore
  <1>3. CASE ReadPage
    <2>1. DOMAIN childrenOf = {}
      BY <1>3 DEF ReadPage, TypeInv
    <2> QED
      BY <1>3, <2>1 DEF ReadPage
  <1>4. CASE RefusePage
    BY <1>4 DEF RefusePage, Refused
  <1>5. CASE AskSections
    BY <1>5 DEF AskSections
  <1>6. CASE \E s \in Sections : ServeSection(s)
    BY <1>6 DEF ServeSection
  <1>7. CASE RefuseSections
    BY <1>7 DEF RefuseSections, Refused
  <1>8. CASE ReadAfter
    BY <1>8 DEF ReadAfter
  <1>9. CASE RefuseVersion
    BY <1>9 DEF RefuseVersion, Refused
  <1>10. CASE RequestFails
    BY <1>10 DEF RequestFails, Refused
  <1>11. CASE LayFrame
    BY <1>11 DEF LayFrame
  <1>12. CASE LaySection
    BY <1>12 DEF LaySection
  <1>13. CASE RefuseTwice
    BY <1>13 DEF RefuseTwice, Refused
  <1>14. CASE FinishListing
    BY <1>14 DEF FinishListing
  <1>15. CASE UNCHANGED vars
    BY <1>15 DEF vars
  <1> QED
    BY <1>1, <1>2, <1>3, <1>4, <1>5, <1>6, <1>7, <1>8, <1>9, <1>10, <1>11, <1>12,
       <1>13, <1>14, <1>15

LEMMA PendingInvariant == Spec => []Pending
  <1>1. TypeInv /\ Pending /\ [Next]_vars => Pending'
    BY PendingTake, PendingRest DEF Next, List
  <1> QED
    BY <1>1, PendingInit, TypeInvariant, PTL DEF Spec

(* No section is asked for once it was read.                               *)
THEOREM ListingReadsOnce == Spec => NeverAskedAgain
  <1>1. TypeInv /\ Pending /\ TypeInv' /\ Pending' /\ [Next]_vars
          => [asked' \cap DOMAIN childrenOf = {}]_vars
    <2> SUFFICES ASSUME TypeInv, TypeInv', Pending, Pending', [Next]_vars
                 PROVE  asked' \cap DOMAIN childrenOf = {} \/ UNCHANGED vars
      OBVIOUS
    <2>1. asked' \subseteq unread' /\ unread' \cap DOMAIN childrenOf' = {}
      BY DEF TypeInv, TypeOK, Pending
    <2>2. DOMAIN childrenOf \subseteq DOMAIN childrenOf'
      BY DEF Next, List, Save, ReadBefore, ReadPage, RefusePage, AskSections, ServeSection,
             TakeSections, RefuseSections, ReadAfter, RefuseVersion, RequestFails, LayFrame,
             LaySection, RefuseTwice, FinishListing, reading, vars
    <2> QED
      BY <2>1, <2>2
  <1> QED
    BY <1>1, TypeInvariant, PendingInvariant, PTL DEF Spec, NeverAskedAgain

-----------------------------------------------------------------------------
(* Nothing is listed twice, and nothing is lost.                           *)

LEMMA ListingGrows ==
    ASSUME TypeInv, LayFrame \/ LaySection
    PROVE  /\ todo \in Seq(EntryType) /\ todo # <<>> /\ listing \in Seq(EntryType)
           /\ Head(todo) \in EntryType /\ Head(todo).node \notin Laid
           /\ listing' = Append(listing, Head(todo))
           /\ Laid' = Laid \cup {Head(todo).node}
  <1>1. /\ todo \in Seq(EntryType) /\ todo # <<>> /\ listing \in Seq(EntryType)
        /\ Head(todo) \in EntryType
    BY TailFacts DEF LayFrame, LaySection, TypeInv, TypeOK
  <1>2. Head(todo).node \notin Laid /\ listing' = Append(listing, Head(todo))
    BY DEF LayFrame, LaySection
  <1>3. Laid' = Laid \cup {Head(todo).node}
    BY <1>1, <1>2, AppendFacts DEF Laid
  <1> QED
    BY <1>1, <1>2, <1>3

LEMMA TwiceStep ==
    ASSUME TypeInv, NothingTwice, [Next]_vars
    PROVE  NothingTwice'
  <1>1. CASE LayFrame \/ LaySection
    <2>1. /\ \A k \in DOMAIN listing : listing'[k] = listing[k] /\ listing'[k].node # Head(todo).node
          /\ listing'[Len(listing) + 1] = Head(todo)
          /\ \A k \in DOMAIN listing' : k \in DOMAIN listing \/ k = Len(listing) + 1
      BY <1>1, ListingGrows, AppendFacts DEF Laid
    <2> QED
      BY <2>1 DEF NothingTwice
  <1>2. CASE listing' = listing
    BY <1>2 DEF NothingTwice
  <1> QED
    BY <1>1, <1>2 DEF Next, List, Save, ReadBefore, ReadPage, RefusePage, AskSections, ServeSection,
             TakeSections, RefuseSections, ReadAfter, RefuseVersion, RequestFails,
             RefuseTwice, FinishListing, layout, vars

(* A listing shows no node twice, whatever the service answers.            *)
THEOREM ListingShowsNothingTwice == Spec => []NothingTwice
  <1>1. Init => NothingTwice
    BY DEF Init, NothingTwice
  <1> QED
    BY <1>1, TwiceStep, TypeInvariant, PTL DEF Spec

ToLay == {todo[k].node : k \in DOMAIN todo}

(* What is laid out or about to be holds everything below it.              *)
Closing ==
    pc \in {"lay", "listed"} =>
        /\ Elements(topLevel) \subseteq Laid \cup ToLay
        /\ \A s \in Laid \cap Sections : Elements(childrenOf[s]) \subseteq Laid \cup ToLay
        /\ (Laid \cup ToLay) \cap Sections \subseteq DOMAIN childrenOf
        /\ \A s \in DOMAIN childrenOf : SectionsIn(childrenOf[s]) \subseteq DOMAIN childrenOf
        /\ pc = "listed" => ToLay = {}

LEMMA EntriesNodes ==
    ASSUME NEW s \in Seq(Nodes), NEW p \in Seq(Sections)
    PROVE  {Entries(s, p)[k].node : k \in DOMAIN Entries(s, p)} = Elements(s)
  <1>1. /\ DOMAIN Entries(s, p) = DOMAIN s
        /\ \A k \in DOMAIN s : Entries(s, p)[k].node = s[k]
    BY EntriesType
  <1> QED
    BY <1>1 DEF Elements

(* Until the layout begins there is exactly the page's own level to do.    *)
ToLayFirst ==
    pc \in {"sections", "after"} => listing = <<>> /\ ToLay = Elements(topLevel)

Layout == ToLayFirst /\ Closing

LEMMA LayoutInit == Init => Layout
  BY DEF Init, Layout, ToLayFirst, Closing

LEMMA LayoutReadPage ==
    ASSUME TypeInv, Layout, ReadPage PROVE Layout'
  <1>1. Answer(Page) \in Seq(Nodes)
    <2>1. Page \in Containers /\ Answer(Page) # Missing /\ Answer(Page) # Malformed
      BY DEF ReadPage, Absent, Containers
    <2> QED
      BY <2>1, AnswerType DEF TypeInv
  <1>2. <<>> \in Seq(Sections)
    OBVIOUS
  <1>3. /\ topLevel' = Answer(Page) /\ todo' = Entries(Answer(Page), <<>>)
        /\ listing' = listing /\ listing = <<>>
        /\ childrenOf' = childrenOf /\ DOMAIN childrenOf = {}
        /\ pc' = IF SectionsIn(Answer(Page)) = {} THEN "lay" ELSE "sections"
    BY DEF ReadPage, TypeInv
  <1>4. ToLay' = Elements(topLevel') /\ Laid' = {}
    <2>1. ToLay' = {todo'[k].node : k \in DOMAIN todo'}
      BY DEF ToLay
    <2>2. Laid' = {}
      BY <1>3 DEF Laid
    <2> QED
      BY <1>1, <1>2, <1>3, <2>1, <2>2, EntriesNodes, ZenonT(60)
  <1>5. pc' = "lay" => Elements(topLevel') \cap Sections = {}
    BY <1>3 DEF SectionsIn
  <1> QED
    BY <1>3, <1>4, <1>5 DEF Layout, ToLayFirst, Closing, Elements

LEMMA LayoutReadAfter ==
    ASSUME TypeInv, Pending, Layout, ReadAfter PROVE Layout'
  <1>1. /\ pc = "after" /\ pc' = "lay"
        /\ UNCHANGED <<topLevel, childrenOf, todo, listing>>
    BY DEF ReadAfter, reading, layout
  <1>2. /\ listing = <<>> /\ ToLay = Elements(topLevel)
        /\ SectionsIn(topLevel) \subseteq DOMAIN childrenOf
        /\ \A s \in DOMAIN childrenOf : SectionsIn(childrenOf[s]) \subseteq DOMAIN childrenOf
    BY <1>1 DEF Layout, ToLayFirst, Pending
  <1>3. Laid = {}
    BY <1>2 DEF Laid
  <1> QED
    <2>1. ToLay' = ToLay /\ Laid' = {}
      BY <1>1, <1>3 DEF ToLay, Laid
    <2>2. Elements(topLevel) \cap Sections \subseteq DOMAIN childrenOf
      BY <1>2 DEF SectionsIn
    <2> QED
      BY <1>1, <1>2, <2>1, <2>2 DEF Layout, ToLayFirst, Closing

LEMMA LayoutLay ==
    ASSUME TypeInv, Layout, LayFrame \/ LaySection PROVE Layout'
  <1> DEFINE n == Head(todo).node
             rest == {Tail(todo)[k].node : k \in DOMAIN Tail(todo)}
             below == IF LaySection THEN Elements(childrenOf[n]) ELSE {}
  <1>1. /\ pc = "lay" /\ pc' = "lay" /\ UNCHANGED <<topLevel, childrenOf>>
    BY DEF LayFrame, LaySection, reading
  <1>2. /\ todo \in Seq(EntryType) /\ todo # <<>> /\ Tail(todo) \in Seq(EntryType)
        /\ Laid' = Laid \cup {n}
    BY ListingGrows, TailFacts
  <1>3. ToLay = rest \cup {n}
    BY <1>2, TailFacts DEF ToLay
  <1>4. CASE LayFrame
    <2>1. ToLay' = rest /\ n \in Frames
      BY <1>4 DEF LayFrame, ToLay
    <2>2. n \notin Sections
      BY <2>1, IdsAssumption
    <2> HIDE DEF n, rest
    <2> QED
      BY <1>1, <1>2, <1>3, <2>1, <2>2 DEF Layout, ToLayFirst, Closing, SectionsIn, Elements
  <1>5. CASE LaySection
    <2>1. n \in Sections /\ n \in DOMAIN childrenOf
      BY <1>1, <1>3, <1>5 DEF LaySection, Layout, Closing
    <2>2. Children(n) = childrenOf[n] /\ childrenOf[n] \in Seq(Nodes)
      BY <2>1 DEF Children, TypeInv, TypeOK
    <2> DEFINE p == Append(Head(todo).path, n)
               E == Entries(childrenOf[n], p)
    <2>3. p \in Seq(Sections)
      <3>1. Head(todo) \in EntryType
        BY <1>5, ListingGrows
      <3>2. Head(todo).path \in Seq(Sections)
        BY <3>1 DEF EntryType
      <3> QED
        BY <2>1, <3>2
    <2>4. E \in Seq(EntryType) /\ {E[k].node : k \in DOMAIN E} = Elements(childrenOf[n])
      BY <2>2, <2>3, EntriesType, EntriesNodes
    <2>5. todo' = E \o Tail(todo)
      BY <1>5, <2>2 DEF LaySection
    <2> HIDE DEF E, p
    <2>6. ToLay' = Elements(childrenOf[n]) \cup rest
      <3>1. /\ \A k \in DOMAIN E : k \in DOMAIN todo' /\ todo'[k] = E[k]
            /\ \A k \in DOMAIN Tail(todo) :
                 k + Len(E) \in DOMAIN todo' /\ todo'[k + Len(E)] = Tail(todo)[k]
            /\ \A k \in DOMAIN todo' :
                 \/ k \in DOMAIN E /\ todo'[k] = E[k]
                 \/ k - Len(E) \in DOMAIN Tail(todo) /\ todo'[k] = Tail(todo)[k - Len(E)]
        BY <1>2, <2>4, <2>5, ConcatFacts
      <3>2. ToLay' \subseteq {E[k].node : k \in DOMAIN E} \cup rest
        BY <3>1 DEF ToLay
      <3>3. {E[k].node : k \in DOMAIN E} \subseteq ToLay' /\ rest \subseteq ToLay'
        BY <3>1 DEF ToLay
      <3> QED
        BY <2>4, <3>2, <3>3
    <2> HIDE DEF n, rest
    <2> QED
      BY <1>1, <1>2, <1>3, <2>1, <2>6 DEF Layout, ToLayFirst, Closing, SectionsIn, Elements
  <1> QED
    BY <1>4, <1>5

LEMMA LayoutRest ==
    ASSUME TypeInv, Layout,
           \/ Save \/ ReadBefore \/ RefusePage \/ AskSections \/ TakeSections
           \/ (\E s \in Sections : ServeSection(s))
           \/ RefuseSections \/ RefuseVersion \/ RequestFails
           \/ RefuseTwice \/ FinishListing \/ UNCHANGED vars
    PROVE  Layout'
  <1>0. ASSUME UNCHANGED <<todo, listing>> PROVE ToLay' = ToLay /\ Laid' = Laid
    BY <1>0 DEF ToLay, Laid
  <1> USE DEF file, reading, layout, Layout, ToLayFirst, Closing
  <1>1. CASE Save
    BY <1>1, <1>0 DEF Save
  <1>2. CASE ReadBefore
    BY <1>2, <1>0 DEF ReadBefore
  <1>3. CASE RefusePage
    BY <1>3, <1>0 DEF RefusePage, Refused
  <1>4. CASE AskSections
    BY <1>4, <1>0 DEF AskSections
  <1>5. CASE TakeSections
    <2>1. pc = "sections" /\ pc' \in {"sections", "after"} /\ UNCHANGED <<topLevel, todo, listing>>
      BY <1>5 DEF TakeSections, Answered
    <2> QED
      BY <2>1, <1>0
  <1>6. CASE \E s \in Sections : ServeSection(s)
    BY <1>6, <1>0 DEF ServeSection
  <1>7. CASE RefuseSections
    BY <1>7, <1>0 DEF RefuseSections, Refused
  <1>8. CASE RefuseVersion
    BY <1>8, <1>0 DEF RefuseVersion, Refused
  <1>9. CASE RequestFails
    BY <1>9, <1>0 DEF RequestFails, Refused
  <1>10. CASE RefuseTwice
    BY <1>10, <1>0 DEF RefuseTwice, Refused
  <1>11. CASE FinishListing
    <2>1. /\ pc = "lay" /\ pc' = "listed" /\ todo = <<>>
          /\ UNCHANGED <<topLevel, childrenOf, todo, listing>>
      BY <1>11 DEF FinishListing
    <2>2. ToLay = {}
      BY <2>1 DEF ToLay
    <2> QED
      BY <2>1, <2>2, <1>0
  <1>12. CASE UNCHANGED vars
    BY <1>12, <1>0 DEF vars
  <1> QED
    BY <1>1, <1>2, <1>3, <1>4, <1>5, <1>6, <1>7, <1>8, <1>9, <1>10, <1>11, <1>12

LEMMA LayoutInvariant == Spec => []Layout
  <1>1. TypeInv /\ Pending /\ Layout /\ [Next]_vars => Layout'
    BY LayoutReadPage, LayoutReadAfter, LayoutLay, LayoutRest DEF Next, List
  <1> QED
    BY <1>1, LayoutInit, TypeInvariant, PendingInvariant, PTL DEF Spec

(* A listing holds the page and every section in it, all of them read.     *)
THEOREM ListingLosesNothing == Spec => []NothingLost
  <1>1. Layout => NothingLost
    BY DEF Layout, Closing, NothingLost
  <1> QED
    BY <1>1, LayoutInvariant, PTL

(* Both together: of any service, a listing holds what is on the page      *)
(* once.                                                                   *)
THEOREM ListingExact == Spec => []ListingIsExact
  BY ListingShowsNothingTwice, ListingLosesNothing, PTL DEF ListingIsExact

-----------------------------------------------------------------------------
(* Document order.                                                         *)

(* A listing l and the entries t that are still to lay, of a file f: they  *)
(* are in f, l is in order, t comes after it, and what two entries of t    *)
(* lead to is apart; the children of what is listed are in one or the      *)
(* other.                                                                  *)
InOrder(f, l, t) ==
    /\ \A e \in Elements(l) \cup Elements(t) : IsTrail(f, Trail(e))
    /\ \A j, k \in DOMAIN l : j < k => Precedes(f, Trail(l[j]), Trail(l[k]))
    /\ \A d \in Elements(l), e \in Elements(t) : Precedes(f, Trail(d), Trail(e))
    /\ \A j, k \in DOMAIN t : j < k => Parts(f, Trail(t[j]), Trail(t[k]))

Held(f, l, t) ==
    /\ \A n \in Elements(f[Page]) : [node |-> n, path |-> <<>>] \in Elements(l) \cup Elements(t)
    /\ \A e \in Elements(l) :
         e.node \in Sections =>
             \A n \in Elements(f[e.node]) : [node |-> n, path |-> Trail(e)] \in Elements(l) \cup Elements(t)

(* A trail, and the trail of a child.                                      *)
LEMMA TrailFacts ==
    ASSUME NEW e \in EntryType
    PROVE  /\ Trail(e) \in Seq(Nodes) /\ Len(Trail(e)) = Len(e.path) + 1
           /\ Len(e.path) \in Nat /\ e.node \in Nodes
           /\ DOMAIN Trail(e) = 1..(Len(e.path) + 1)
           /\ \A h \in 1..Len(e.path) : Trail(e)[h] = e.path[h]
           /\ Trail(e)[Len(e.path) + 1] = e.node
  <1>1. e.node \in Nodes /\ e.path \in Seq(Sections)
    BY DEF EntryType
  <1>2. e.path \in Seq(Nodes)
    BY <1>1 DEF Nodes
  <1> QED
    BY <1>1, <1>2, AppendFacts DEF Trail

LEMMA ChildFacts ==
    ASSUME NEW e \in EntryType, e.node \in Sections, NEW n \in Nodes,
           NEW c, c = [node |-> n, path |-> Trail(e)]
    PROVE  /\ c \in EntryType /\ Len(Trail(c)) = Len(Trail(e)) + 1
           /\ \A h \in DOMAIN Trail(e) : h \in DOMAIN Trail(c) /\ Trail(c)[h] = Trail(e)[h]
           /\ Trail(c)[Len(Trail(e)) + 1] = n
           /\ Holder(Trail(c), Len(Trail(e)) + 1) = e.node
           /\ \A h \in DOMAIN Trail(e) : Holder(Trail(c), h) = Holder(Trail(e), h)
  <1>1. e.path \in Seq(Sections)
    BY DEF EntryType
  <1>2. Trail(e) \in Seq(Sections)
    BY <1>1 DEF Trail
  <1>3. c \in EntryType /\ c.node = n /\ c.path = Trail(e)
    BY <1>2 DEF EntryType
  <1> DEFINE m == Len(e.path)
  <1>4. /\ m \in Nat /\ Len(Trail(e)) = m + 1 /\ DOMAIN Trail(e) = 1..(m + 1)
        /\ Trail(e)[m + 1] = e.node
    BY TrailFacts
  <1>5. /\ Len(Trail(c)) = m + 2 /\ DOMAIN Trail(c) = 1..(m + 2)
        /\ \A h \in 1..(m + 1) : Trail(c)[h] = Trail(e)[h]
        /\ Trail(c)[m + 2] = n
    BY <1>3, <1>4, TrailFacts
  <1> HIDE DEF m
  <1>6. Holder(Trail(c), m + 2) = Trail(e)[m + 1]
    BY <1>4, <1>5 DEF Holder
  <1>7. \A h \in 1..(m + 1) : Holder(Trail(c), h) = Holder(Trail(e), h)
    BY <1>4, <1>5 DEF Holder
  <1> QED
    BY <1>3, <1>4, <1>5, <1>6, <1>7

(* What is said of an entry holds of its children, too.                    *)
LEMMA ChildOrder ==
    ASSUME NEW f, NEW e \in EntryType, e.node \in Sections, NEW n \in Nodes,
           NEW c, c = [node |-> n, path |-> Trail(e)], NEW d \in EntryType
    PROVE  /\ IsTrail(f, Trail(e)) /\ Lists(f, e.node) /\ n \in Elements(f[e.node]) => IsTrail(f, Trail(c))
           /\ Leads(Trail(e), Trail(c))
           /\ Precedes(f, Trail(d), Trail(e)) => Precedes(f, Trail(d), Trail(c))
           /\ Parts(f, Trail(e), Trail(d)) => Parts(f, Trail(c), Trail(d))
  <1> DEFINE x == Trail(e)
             y == Trail(c)
             z == Trail(d)
             m == Len(x)
  <1>1. /\ m \in Nat /\ DOMAIN x = 1..m /\ Len(y) = m + 1 /\ DOMAIN y = 1..(m + 1)
        /\ \A h \in 1..m : y[h] = x[h] /\ Holder(y, h) = Holder(x, h)
        /\ y[m + 1] = n /\ Holder(y, m + 1) = e.node
        /\ Len(z) \in Nat /\ DOMAIN z = 1..Len(z)
    BY TrailFacts, ChildFacts
  <1> HIDE DEF x, y, z, m
  <1>2. IsTrail(f, x) /\ Lists(f, e.node) /\ n \in Elements(f[e.node]) => IsTrail(f, y)
    BY <1>1 DEF IsTrail
  <1>3. Leads(x, y)
    BY <1>1 DEF Leads, m
  <1>4. Leads(z, x) => Leads(z, y)
    BY <1>1 DEF Leads, m
  <1>5. ASSUME Parts(f, z, x) PROVE Parts(f, z, y)
    <2>1. PICK i \in DOMAIN z \cap DOMAIN x :
            /\ \A h \in 1..(i - 1) : z[h] = x[h]
            /\ \E j, k \in DOMAIN f[Holder(z, i)] :
                 j < k /\ z[i] = f[Holder(z, i)][j] /\ x[i] = f[Holder(z, i)][k]
      BY <1>5 DEF Parts
    <2>2. i \in DOMAIN y /\ y[i] = x[i] /\ \A h \in 1..(i - 1) : y[h] = x[h]
      BY <1>1, <2>1
    <2> QED
      BY <2>1, <2>2 DEF Parts
  <1>6. ASSUME Parts(f, x, z) PROVE Parts(f, y, z)
    <2>1. PICK i \in DOMAIN x \cap DOMAIN z :
            /\ \A h \in 1..(i - 1) : x[h] = z[h]
            /\ \E j, k \in DOMAIN f[Holder(x, i)] :
                 j < k /\ x[i] = f[Holder(x, i)][j] /\ z[i] = f[Holder(x, i)][k]
      BY <1>6 DEF Parts
    <2>2. i \in DOMAIN y /\ y[i] = x[i] /\ Holder(y, i) = Holder(x, i) /\ \A h \in 1..(i - 1) : y[h] = x[h]
      BY <1>1, <2>1
    <2> QED
      BY <2>1, <2>2 DEF Parts
  <1> QED
    BY <1>2, <1>3, <1>4, <1>5, <1>6 DEF Precedes, x, y, z

(* Two children of one section, or of the page.                            *)
LEMMA SiblingOrder ==
    ASSUME NEW f, NEW e \in EntryType, e.node \in Sections, f[e.node] \in Seq(Nodes),
           NEW j \in DOMAIN f[e.node], NEW k \in DOMAIN f[e.node], j < k
    PROVE  Parts(f, Trail([node |-> f[e.node][j], path |-> Trail(e)]),
                    Trail([node |-> f[e.node][k], path |-> Trail(e)]))
  <1> DEFINE x == Trail([node |-> f[e.node][j], path |-> Trail(e)])
             y == Trail([node |-> f[e.node][k], path |-> Trail(e)])
             m == Len(Trail(e))
  <1>0. f[e.node][j] \in Nodes /\ f[e.node][k] \in Nodes
    OBVIOUS
  <1>1. /\ m \in Nat /\ DOMAIN Trail(e) = 1..m
        /\ DOMAIN x = 1..(m + 1) /\ DOMAIN y = 1..(m + 1)
        /\ \A h \in 1..m : x[h] = Trail(e)[h] /\ y[h] = Trail(e)[h]
        /\ x[m + 1] = f[e.node][j] /\ y[m + 1] = f[e.node][k] /\ Holder(x, m + 1) = e.node
    BY <1>0, TrailFacts, ChildFacts
  <1> HIDE DEF x, y, m
  <1>2. m + 1 \in DOMAIN x \cap DOMAIN y /\ \A h \in 1..((m + 1) - 1) : x[h] = y[h]
    BY <1>1
  <1>3. \E p, q \in DOMAIN f[Holder(x, m + 1)] :
          p < q /\ x[m + 1] = f[Holder(x, m + 1)][p] /\ y[m + 1] = f[Holder(x, m + 1)][q]
    BY <1>1
  <1>4. Parts(f, x, y)
    BY <1>2, <1>3 DEF Parts
  <1> QED
    BY <1>4 DEF x, y

LEMMA TopOrder ==
    ASSUME NEW f, Lists(f, Page), f[Page] \in Seq(Nodes), NEW t, t = Entries(f[Page], <<>>)
    PROVE  InOrder(f, <<>>, t) /\ Held(f, <<>>, t)
  <1>1. <<>> \in Seq(Sections) /\ Elements(<<>>) = {} /\ DOMAIN <<>> = {}
    BY DEF Elements
  <1>2. /\ t \in Seq(EntryType) /\ DOMAIN t = DOMAIN f[Page]
        /\ \A k \in DOMAIN t : t[k] = [node |-> f[Page][k], path |-> <<>>] /\ t[k] \in EntryType
    <2>1. /\ t \in Seq(EntryType) /\ DOMAIN t = DOMAIN f[Page]
          /\ t = [k \in DOMAIN f[Page] |-> [node |-> f[Page][k], path |-> <<>>]]
      BY <1>1, EntriesType DEF Entries
    <2>2. \A k \in DOMAIN t : t[k] = [node |-> f[Page][k], path |-> <<>>]
      BY <2>1
    <2>3. \A k \in DOMAIN t : t[k] \in EntryType
      BY <2>1
    <2> QED
      BY <2>1, <2>2, <2>3
  <1>3. \A k \in DOMAIN t : /\ DOMAIN Trail(t[k]) = 1..1 /\ Trail(t[k])[1] = f[Page][k]
                            /\ Holder(Trail(t[k]), 1) = Page
    <2> SUFFICES ASSUME NEW k \in DOMAIN t
                 PROVE  DOMAIN Trail(t[k]) = 1..1 /\ Trail(t[k])[1] = f[Page][k]
      BY DEF Holder
    <2>1. t[k] \in EntryType /\ t[k] = [node |-> f[Page][k], path |-> <<>>]
      BY <1>2
    <2>2. t[k].path = <<>> /\ t[k].node = f[Page][k]
      BY <2>1
    <2>3. Len(t[k].path) = 0
      BY <2>2
    <2>4. /\ DOMAIN Trail(t[k]) = 1..(Len(t[k].path) + 1)
          /\ Trail(t[k])[Len(t[k].path) + 1] = t[k].node
      BY <2>1, TrailFacts
    <2>5. Len(t[k].path) + 1 = 1
      BY <2>3
    <2> QED
      BY <2>2, <2>4, <2>5
  <1>4. \A e \in Elements(t) : IsTrail(f, Trail(e))
    BY <1>2, <1>3 DEF IsTrail, Elements
  <1>5. ASSUME NEW j \in DOMAIN t, NEW k \in DOMAIN t, j < k
        PROVE  Parts(f, Trail(t[j]), Trail(t[k]))
    <2> DEFINE x == Trail(t[j])
               y == Trail(t[k])
    <2>1. /\ 1 \in DOMAIN x \cap DOMAIN y /\ Holder(x, 1) = Page
          /\ x[1] = f[Page][j] /\ y[1] = f[Page][k]
      BY <1>3
    <2>2. \A h \in 1..(1 - 1) : x[h] = y[h]
      OBVIOUS
    <2> HIDE DEF x, y
    <2>3. Parts(f, x, y)
      BY <1>2, <1>5, <2>1, <2>2 DEF Parts
    <2> QED
      BY <2>3 DEF x, y
  <1>6. \A n \in Elements(f[Page]) : [node |-> n, path |-> <<>>] \in Elements(t)
    BY <1>2 DEF Elements
  <1> QED
    BY <1>1, <1>4, <1>5, <1>6 DEF InOrder, Held

(* A list of entries, its head, and a list that grows by it.               *)
LEMMA HeadMoves ==
    ASSUME NEW l \in Seq(EntryType), NEW t \in Seq(EntryType), t # <<>>
    PROVE  /\ Head(t) \in EntryType /\ Tail(t) \in Seq(EntryType)
           /\ Elements(Append(l, Head(t))) = Elements(l) \cup {Head(t)}
           /\ Elements(t) = Elements(Tail(t)) \cup {Head(t)}
           /\ Elements(Tail(t)) \subseteq EntryType /\ Elements(l) \subseteq EntryType
  <1>1. Head(t) \in EntryType /\ Tail(t) \in Seq(EntryType)
    BY TailFacts
  <1>2. Elements(Append(l, Head(t))) = Elements(l) \cup {Head(t)}
    BY <1>1, AppendFacts DEF Elements
  <1>3. Elements(t) = Elements(Tail(t)) \cup {Head(t)}
    <2>1. /\ Head(t) = t[1] /\ 1 \in DOMAIN t
          /\ \A k \in DOMAIN t : k = 1 \/ (k - 1 \in DOMAIN Tail(t) /\ Tail(t)[k - 1] = t[k])
          /\ \A k \in DOMAIN Tail(t) : k + 1 \in DOMAIN t /\ Tail(t)[k] = t[k + 1]
      BY TailFacts
    <2>2. ASSUME NEW k \in DOMAIN t PROVE t[k] \in Elements(Tail(t)) \cup {Head(t)}
      BY <2>1 DEF Elements
    <2>3. Elements(Tail(t)) \subseteq Elements(t) /\ Head(t) \in Elements(t)
      BY <2>1 DEF Elements
    <2> QED
      BY <2>2, <2>3 DEF Elements
  <1>4. Elements(Tail(t)) \subseteq EntryType /\ Elements(l) \subseteq EntryType
    BY <1>1 DEF Elements
  <1> QED
    BY <1>1, <1>2, <1>3, <1>4

LEMMA HeadIsFirst ==
    ASSUME NEW f, NEW t \in Seq(EntryType), t # <<>>,
           \A j, k \in DOMAIN t : j < k => Parts(f, Trail(t[j]), Trail(t[k]))
    PROVE  \A d \in Elements(Tail(t)) : Parts(f, Trail(Head(t)), Trail(d))
  <1> SUFFICES ASSUME NEW k \in DOMAIN Tail(t) PROVE Parts(f, Trail(Head(t)), Trail(Tail(t)[k]))
    BY DEF Elements
  <1>1. Head(t) = t[1] /\ 1 \in DOMAIN t /\ k + 1 \in DOMAIN t /\ Tail(t)[k] = t[k + 1] /\ 1 < k + 1
    BY TailFacts
  <1> QED
    BY <1>1

LEMMA RestInOrder ==
    ASSUME NEW f, NEW t \in Seq(EntryType), t # <<>>,
           \A j, k \in DOMAIN t : j < k => Parts(f, Trail(t[j]), Trail(t[k])),
           NEW j \in DOMAIN Tail(t), NEW k \in DOMAIN Tail(t), j < k
    PROVE  Parts(f, Trail(Tail(t)[j]), Trail(Tail(t)[k]))
  <1>1. /\ j + 1 \in DOMAIN t /\ k + 1 \in DOMAIN t /\ j + 1 < k + 1
        /\ Tail(t)[j] = t[j + 1] /\ Tail(t)[k] = t[k + 1]
    BY TailFacts
  <1> QED
    BY <1>1

LEMMA ListGrowsInOrder ==
    ASSUME NEW f, NEW l \in Seq(EntryType), NEW t \in Seq(EntryType), t # <<>>,
           \A j, k \in DOMAIN l : j < k => Precedes(f, Trail(l[j]), Trail(l[k])),
           \A d \in Elements(l), e \in Elements(t) : Precedes(f, Trail(d), Trail(e)),
           NEW j \in DOMAIN Append(l, Head(t)), NEW k \in DOMAIN Append(l, Head(t)), j < k
    PROVE  Precedes(f, Trail(Append(l, Head(t))[j]), Trail(Append(l, Head(t))[k]))
  <1> DEFINE m == Append(l, Head(t))
  <1>1. Head(t) \in EntryType /\ Head(t) \in Elements(t)
    BY TailFacts DEF Elements
  <1>2. /\ DOMAIN l = 1..Len(l) /\ Len(l) \in Nat /\ DOMAIN m = 1..(Len(l) + 1)
        /\ \A i \in DOMAIN l : m[i] = l[i]
        /\ m[Len(l) + 1] = Head(t)
    BY <1>1, AppendFacts
  <1> HIDE DEF m
  <1>3. j \in DOMAIN l /\ (k \in DOMAIN l \/ k = Len(l) + 1)
    BY <1>2 DEF m
  <1>4. CASE k \in DOMAIN l
    BY <1>2, <1>3, <1>4 DEF m
  <1>5. CASE k = Len(l) + 1
    <2>1. m[j] \in Elements(l) /\ m[k] = Head(t)
      BY <1>2, <1>3, <1>5 DEF Elements
    <2> QED
      BY <1>1, <2>1 DEF m
  <1> QED
    BY <1>3, <1>4, <1>5

LEMMA JoinedElements ==
    ASSUME NEW s \in Seq(EntryType), NEW t \in Seq(EntryType)
    PROVE  Elements(s \o t) = Elements(s) \cup Elements(t)
  <1> DEFINE u == s \o t
  <1>1. /\ \A k \in DOMAIN s : k \in DOMAIN u /\ u[k] = s[k]
        /\ \A k \in DOMAIN t : k + Len(s) \in DOMAIN u /\ u[k + Len(s)] = t[k]
        /\ \A k \in DOMAIN u : (k \in DOMAIN s /\ u[k] = s[k])
                                \/ (k - Len(s) \in DOMAIN t /\ u[k] = t[k - Len(s)])
    BY ConcatFacts
  <1> HIDE DEF u
  <1>2. Elements(u) \subseteq Elements(s) \cup Elements(t)
    BY <1>1 DEF Elements
  <1>3. Elements(s) \subseteq Elements(u) /\ Elements(t) \subseteq Elements(u)
    BY <1>1 DEF Elements
  <1> QED
    BY <1>2, <1>3 DEF u

(* What is apart in two lists, and between them, is apart in both of them  *)
(* together.                                                               *)
LEMMA JoinedOrder ==
    ASSUME NEW f, NEW b \in Seq(EntryType), NEW r \in Seq(EntryType), NEW u, u = b \o r,
           \A j, k \in DOMAIN b : j < k => Parts(f, Trail(b[j]), Trail(b[k])),
           \A j, k \in DOMAIN r : j < k => Parts(f, Trail(r[j]), Trail(r[k])),
           \A c \in Elements(b), d \in Elements(r) : Parts(f, Trail(c), Trail(d)),
           NEW j \in DOMAIN u, NEW k \in DOMAIN u, j < k
    PROVE  Parts(f, Trail(u[j]), Trail(u[k]))
  <1> DEFINE m == Len(b)
  <1>1. /\ DOMAIN b = 1..m /\ m \in Nat /\ DOMAIN r = 1..Len(r) /\ Len(r) \in Nat
        /\ DOMAIN u = 1..(m + Len(r))
        /\ j \in Nat /\ k \in Nat
    BY ConcatFacts
  <1>2. \A i \in DOMAIN u : (i \in DOMAIN b /\ u[i] = b[i])
                             \/ (i \notin DOMAIN b /\ i - m \in DOMAIN r /\ u[i] = r[i - m])
    BY <1>1, ConcatFacts
  <1> HIDE DEF m
  <1>3. CASE k \in DOMAIN b
    <2>1. j \in DOMAIN b /\ u[j] = b[j] /\ u[k] = b[k]
      BY <1>1, <1>2, <1>3
    <2> QED
      BY <1>3, <2>1
  <1>4. CASE k \notin DOMAIN b /\ j \in DOMAIN b
    <2>1. u[j] \in Elements(b) /\ u[k] \in Elements(r)
      BY <1>2, <1>4 DEF Elements
    <2> QED
      BY <2>1
  <1>5. CASE k \notin DOMAIN b /\ j \notin DOMAIN b
    <2>1. j - m \in DOMAIN r /\ k - m \in DOMAIN r /\ u[j] = r[j - m] /\ u[k] = r[k - m]
      BY <1>2, <1>5
    <2>2. j - m < k - m
      BY <1>1
    <2> QED
      BY <2>1, <2>2
  <1> QED
    BY <1>3, <1>4, <1>5

(* visit: a frame moves from what is to do to what is listed.              *)
LEMMA FrameKeepsOrder ==
    ASSUME NEW f, NEW l \in Seq(EntryType), NEW t \in Seq(EntryType), t # <<>>,
           Head(t).node \notin Sections, InOrder(f, l, t), Held(f, l, t)
    PROVE  InOrder(f, Append(l, Head(t)), Tail(t)) /\ Held(f, Append(l, Head(t)), Tail(t))
  <1> DEFINE e == Head(t)
             m == Append(l, e)
             r == Tail(t)
  <1>1. e \in EntryType /\ Elements(m) = Elements(l) \cup {e} /\ Elements(t) = Elements(r) \cup {e}
    BY HeadMoves
  <1>2. \A d \in Elements(r) : Parts(f, Trail(e), Trail(d))
    BY HeadIsFirst DEF InOrder
  <1>3. \A j, k \in DOMAIN m : j < k => Precedes(f, Trail(m[j]), Trail(m[k]))
    BY ListGrowsInOrder DEF InOrder
  <1>4. \A j, k \in DOMAIN r : j < k => Parts(f, Trail(r[j]), Trail(r[k]))
    BY RestInOrder DEF InOrder
  <1> HIDE DEF e, m, r
  <1>5. InOrder(f, m, r)
    BY <1>1, <1>2, <1>3, <1>4 DEF InOrder, Precedes
  <1>6. Held(f, m, r)
    BY <1>1 DEF Held, e
  <1> QED
    BY <1>5, <1>6 DEF e, m, r

(* visit: what a section holds comes between it and what is to do after.   *)
LEMMA SectionKeepsOrder ==
    ASSUME NEW f, NEW l \in Seq(EntryType), NEW t \in Seq(EntryType), t # <<>>,
           Head(t).node \in Sections, Lists(f, Head(t).node), f[Head(t).node] \in Seq(Nodes),
           InOrder(f, l, t), Held(f, l, t),
           NEW u, u = Entries(f[Head(t).node], Trail(Head(t))) \o Tail(t)
    PROVE  InOrder(f, Append(l, Head(t)), u) /\ Held(f, Append(l, Head(t)), u)
  <1> DEFINE e == Head(t)
             m == Append(l, e)
             r == Tail(t)
             s == f[e.node]
             b == Entries(s, Trail(e))
  <1>1. /\ e \in EntryType /\ Elements(m) = Elements(l) \cup {e} /\ Elements(t) = Elements(r) \cup {e}
        /\ r \in Seq(EntryType) /\ Elements(r) \subseteq EntryType /\ Elements(l) \subseteq EntryType
    BY HeadMoves
  <1>2. \A d \in Elements(r) : Parts(f, Trail(e), Trail(d))
    BY HeadIsFirst DEF InOrder
  <1>3. \A j, k \in DOMAIN m : j < k => Precedes(f, Trail(m[j]), Trail(m[k]))
    BY ListGrowsInOrder DEF InOrder
  <1>4. \A j, k \in DOMAIN r : j < k => Parts(f, Trail(r[j]), Trail(r[k]))
    BY RestInOrder DEF InOrder
  <1>5. /\ b \in Seq(EntryType) /\ DOMAIN b = DOMAIN s
        /\ \A k \in DOMAIN b : b[k] = [node |-> s[k], path |-> Trail(e)] /\ s[k] \in Nodes
    <2>1. Trail(e) \in Seq(Sections)
      BY <1>1 DEF EntryType, Trail
    <2>2. b = [k \in DOMAIN s |-> [node |-> s[k], path |-> Trail(e)]]
      BY DEF Entries
    <2> QED
      BY <2>1, <2>2, EntriesType
  <1>6. /\ e.node \in Sections /\ Lists(f, e.node) /\ s \in Seq(Nodes) /\ u = b \o r
        /\ IsTrail(f, Trail(e)) /\ \A d \in Elements(l) : Precedes(f, Trail(d), Trail(e))
    BY <1>1 DEF InOrder
  <1>7. ASSUME NEW j \in DOMAIN b, NEW k \in DOMAIN b, j < k
        PROVE  Parts(f, Trail(b[j]), Trail(b[k]))
    <2>1. /\ j \in DOMAIN f[e.node] /\ b[j] = [node |-> f[e.node][j], path |-> Trail(e)]
          /\ k \in DOMAIN f[e.node] /\ b[k] = [node |-> f[e.node][k], path |-> Trail(e)]
      BY <1>5
    <2> HIDE DEF b
    <2>2. Parts(f, Trail([node |-> f[e.node][j], path |-> Trail(e)]),
                   Trail([node |-> f[e.node][k], path |-> Trail(e)]))
      BY <1>1, <1>6, <1>7, <2>1, SiblingOrder
    <2> QED
      BY <2>1, <2>2
  <1> HIDE DEF e, m, r, b
  <1>8. \A c \in Elements(b) :
          /\ IsTrail(f, Trail(c)) /\ Leads(Trail(e), Trail(c))
          /\ \A d \in Elements(l) : Precedes(f, Trail(d), Trail(c))
          /\ \A d \in Elements(r) : Parts(f, Trail(c), Trail(d))
    <2> SUFFICES ASSUME NEW k \in DOMAIN b
                 PROVE  /\ IsTrail(f, Trail(b[k])) /\ Leads(Trail(e), Trail(b[k]))
                        /\ \A d \in Elements(l) : Precedes(f, Trail(d), Trail(b[k]))
                        /\ \A d \in Elements(r) : Parts(f, Trail(b[k]), Trail(d))
      BY DEF Elements
    <2>1. b[k] = [node |-> s[k], path |-> Trail(e)] /\ s[k] \in Nodes /\ s[k] \in Elements(f[e.node])
      BY <1>5 DEF Elements
    <2>2. IsTrail(f, Trail(b[k])) /\ Leads(Trail(e), Trail(b[k]))
      BY <1>1, <1>6, <2>1, ChildOrder
    <2>3. ASSUME NEW d \in Elements(l) PROVE Precedes(f, Trail(d), Trail(b[k]))
      BY <1>1, <1>6, <2>1, ChildOrder
    <2>4. ASSUME NEW d \in Elements(r) PROVE Parts(f, Trail(b[k]), Trail(d))
      BY <1>1, <1>2, <1>6, <2>1, ChildOrder
    <2> QED
      BY <2>2, <2>3, <2>4
  <1>9. Elements(u) = Elements(b) \cup Elements(r)
    BY <1>1, <1>5, <1>6, JoinedElements
  <1>10. \A j, k \in DOMAIN u : j < k => Parts(f, Trail(u[j]), Trail(u[k]))
    <2>1. \A c \in Elements(b), d \in Elements(r) : Parts(f, Trail(c), Trail(d))
      BY <1>8
    <2>2. b \in Seq(EntryType) /\ r \in Seq(EntryType) /\ u = b \o r
      BY <1>1, <1>5, <1>6
    <2> HIDE DEF s
    <2> QED
      BY <1>4, <1>7, <2>1, <2>2, JoinedOrder
  <1>11. InOrder(f, m, u)
    <2>1. \A d \in Elements(m), c \in Elements(u) : Precedes(f, Trail(d), Trail(c))
      BY <1>1, <1>2, <1>8, <1>9 DEF InOrder, Precedes
    <2>2. \A c \in Elements(m) \cup Elements(u) : IsTrail(f, Trail(c))
      BY <1>1, <1>8, <1>9 DEF InOrder
    <2> QED
      BY <1>3, <1>10, <2>1, <2>2 DEF InOrder
  <1>12. Held(f, m, u)
    <2>1. \A n \in Elements(f[e.node]) : [node |-> n, path |-> Trail(e)] \in Elements(b)
      BY <1>5 DEF Elements
    <2>2. Elements(l) \cup Elements(t) \subseteq Elements(m) \cup Elements(u)
      BY <1>1, <1>9
    <2> QED
      BY <1>1, <1>9, <2>1, <2>2 DEF Held
  <1> QED
    BY <1>11, <1>12 DEF e, m

(* What was read, as a file: the page and the sections that were asked for. *)
View(top, children) ==
    [c \in {Page} \cup DOMAIN children |-> IF c = Page THEN top ELSE children[c]]

AsRead == View(topLevel, childrenOf)

LEMMA ViewFacts ==
    ASSUME NEW top \in Seq(Nodes), NEW children, DOMAIN children \subseteq Sections,
           \A s \in DOMAIN children : children[s] \in Seq(Nodes),
           NEW g, g = View(top, children)
    PROVE  /\ DOMAIN g = {Page} \cup DOMAIN children
           /\ g[Page] = top /\ Lists(g, Page)
           /\ \A s \in DOMAIN children : g[s] = children[s] /\ Lists(g, s)
  <1>1. Page \notin Sections
    BY IdsAssumption DEF Nodes
  <1>2. /\ DOMAIN g = {Page} \cup DOMAIN children
        /\ g[Page] = top
        /\ \A s \in DOMAIN children : g[s] = children[s]
    BY <1>1 DEF View
  <1> QED
    BY <1>2, AnswersAssumption DEF Lists

LEMMA AsReadFacts ==
    ASSUME TypeInv
    PROVE  /\ DOMAIN AsRead = {Page} \cup DOMAIN childrenOf
           /\ AsRead[Page] = topLevel /\ topLevel \in Seq(Nodes) /\ Lists(AsRead, Page)
           /\ \A s \in DOMAIN childrenOf :
                AsRead[s] = childrenOf[s] /\ Lists(AsRead, s) /\ AsRead[s] \in Seq(Nodes)
  <1>1. /\ topLevel \in Seq(Nodes) /\ DOMAIN childrenOf \subseteq Sections
        /\ \A s \in DOMAIN childrenOf : childrenOf[s] \in Seq(Nodes)
    BY DEF TypeInv, TypeOK
  <1>2. /\ DOMAIN AsRead = {Page} \cup DOMAIN childrenOf
        /\ AsRead[Page] = topLevel /\ Lists(AsRead, Page)
    BY <1>1, ViewFacts DEF AsRead
  <1>3. \A s \in DOMAIN childrenOf : AsRead[s] = childrenOf[s] /\ Lists(AsRead, s)
    BY <1>1, ViewFacts DEF AsRead
  <1> QED
    BY <1>1, <1>2, <1>3

(* The file of the moment agrees with what was read of it.                 *)
LEMMA ViewAgrees ==
    ASSUME NEW f, NEW g, \A c \in DOMAIN g : c \in DOMAIN f /\ f[c] = g[c],
           NEW x, IsTrail(g, x), NEW y
    PROVE  IsTrail(f, x) /\ (Precedes(g, x, y) => Precedes(f, x, y))
  <1>1. IsTrail(f, x)
    BY DEF IsTrail, Lists
  <1>2. ASSUME Parts(g, x, y) PROVE Parts(f, x, y)
    <2>1. PICK i \in DOMAIN x \cap DOMAIN y :
            /\ \A h \in 1..(i - 1) : x[h] = y[h]
            /\ \E j, k \in DOMAIN g[Holder(x, i)] :
                 j < k /\ x[i] = g[Holder(x, i)][j] /\ y[i] = g[Holder(x, i)][k]
      BY <1>2 DEF Parts
    <2>2. f[Holder(x, i)] = g[Holder(x, i)]
      BY <2>1 DEF IsTrail, Lists
    <2> QED
      BY <2>1, <2>2 DEF Parts
  <1> QED
    BY <1>1, <1>2 DEF Precedes

(* Until the layout begins, the page's own level is to do; from then on,   *)
(* the listing and what is to do are in order, and hold what was read.     *)
FirstTodo ==
    pc \in {"sections", "after"} => listing = <<>> /\ todo = Entries(topLevel, <<>>)

LaidInOrder ==
    pc \in {"lay", "listed"} =>
        /\ InOrder(AsRead, listing, todo) /\ Held(AsRead, listing, todo)
        /\ pc = "listed" => todo = <<>>

Ordered == FirstTodo /\ LaidInOrder

LEMMA OrderedReadPage ==
    ASSUME TypeInv, ReadPage PROVE Ordered'
  <1>1. /\ topLevel' = Answer(Page) /\ todo' = Entries(Answer(Page), <<>>)
        /\ listing' = <<>> /\ childrenOf' = childrenOf /\ DOMAIN childrenOf = {}
        /\ pc' \in {"lay", "sections"}
    BY DEF ReadPage, TypeInv
  <1>2. Answer(Page) \in Seq(Nodes)
    BY AnswerType DEF ReadPage, Absent, Containers, TypeInv
  <1>3. Lists(AsRead', Page) /\ AsRead'[Page] = topLevel'
    <2>1. AsRead' = View(topLevel', childrenOf')
      BY DEF AsRead
    <2> QED
      BY <1>1, <1>2, <2>1, ViewFacts
  <1>4. InOrder(AsRead', listing', todo') /\ Held(AsRead', listing', todo')
    BY <1>1, <1>2, <1>3, TopOrder
  <1> QED
    BY <1>1, <1>4 DEF Ordered, FirstTodo, LaidInOrder

LEMMA OrderedReadAfter ==
    ASSUME TypeInv, Ordered, ReadAfter PROVE Ordered'
  <1>1. /\ pc = "after" /\ pc' = "lay"
        /\ UNCHANGED <<topLevel, childrenOf, todo, listing>>
    BY DEF ReadAfter, reading, layout
  <1>2. listing = <<>> /\ todo = Entries(topLevel, <<>>)
    BY <1>1 DEF Ordered, FirstTodo
  <1>3. Lists(AsRead, Page) /\ AsRead[Page] = topLevel /\ topLevel \in Seq(Nodes)
    BY AsReadFacts
  <1>4. InOrder(AsRead, listing, todo) /\ Held(AsRead, listing, todo)
    BY <1>2, <1>3, TopOrder
  <1>5. AsRead' = AsRead
    BY <1>1 DEF AsRead
  <1> QED
    BY <1>1, <1>4, <1>5 DEF Ordered, FirstTodo, LaidInOrder

LEMMA OrderedLay ==
    ASSUME TypeInv, Layout, Ordered, LayFrame \/ LaySection PROVE Ordered'
  <1>1. /\ pc = "lay" /\ pc' = "lay" /\ UNCHANGED <<topLevel, childrenOf>>
        /\ todo \in Seq(EntryType) /\ todo # <<>> /\ listing \in Seq(EntryType)
        /\ Head(todo) \in EntryType /\ listing' = Append(listing, Head(todo))
    BY ListingGrows DEF LayFrame, LaySection, reading
  <1>2. AsRead' = AsRead /\ InOrder(AsRead, listing, todo) /\ Held(AsRead, listing, todo)
    BY <1>1 DEF AsRead, Ordered, LaidInOrder
  <1>3. InOrder(AsRead, listing', todo') /\ Held(AsRead, listing', todo')
    <2>1. CASE LayFrame
      <3>1. Head(todo).node \notin Sections /\ todo' = Tail(todo)
        BY <2>1, IdsAssumption DEF LayFrame
      <3> QED
        BY <1>1, <1>2, <3>1, FrameKeepsOrder
    <2>2. CASE LaySection
      <3>1. Head(todo).node \in Sections
        BY <2>2 DEF LaySection
      <3>2. Head(todo).node \in ToLay
        BY <1>1, TailFacts DEF ToLay
      <3>3. Head(todo).node \in DOMAIN childrenOf
        BY <1>1, <3>1, <3>2 DEF Layout, Closing
      <3>4. /\ AsRead[Head(todo).node] = childrenOf[Head(todo).node]
            /\ Lists(AsRead, Head(todo).node) /\ AsRead[Head(todo).node] \in Seq(Nodes)
        BY <3>3, AsReadFacts
      <3>5. todo' = Entries(AsRead[Head(todo).node], Trail(Head(todo))) \o Tail(todo)
        BY <2>2, <3>3, <3>4 DEF LaySection, Children, Trail
      <3> QED
        BY <1>1, <1>2, <3>1, <3>4, <3>5, SectionKeepsOrder
    <2> QED
      BY <2>1, <2>2
  <1> QED
    BY <1>1, <1>2, <1>3 DEF Ordered, FirstTodo, LaidInOrder

LEMMA OrderedRest ==
    ASSUME TypeInv, Ordered,
           \/ Save \/ ReadBefore \/ RefusePage \/ AskSections \/ TakeSections
           \/ (\E s \in Sections : ServeSection(s))
           \/ RefuseSections \/ RefuseVersion \/ RequestFails
           \/ RefuseTwice \/ FinishListing \/ UNCHANGED vars
    PROVE  Ordered'
  <1>1. CASE pc' = pc /\ UNCHANGED <<topLevel, childrenOf, todo, listing>>
    BY <1>1 DEF Ordered, FirstTodo, LaidInOrder, AsRead
  <1>2. CASE pc' \notin {"sections", "after", "lay", "listed"}
    BY <1>2 DEF Ordered, FirstTodo, LaidInOrder
  <1>3. CASE AskSections \/ TakeSections \/ (\E s \in Sections : ServeSection(s))
    <2>1. /\ pc = "sections" /\ pc' \in {"sections", "after"}
          /\ UNCHANGED <<topLevel, todo, listing>>
      BY <1>3 DEF AskSections, TakeSections, Answered, ServeSection, layout
    <2> QED
      BY <2>1 DEF Ordered, FirstTodo, LaidInOrder
  <1>4. CASE FinishListing
    <2>1. /\ pc = "lay" /\ pc' = "listed" /\ todo = <<>>
          /\ UNCHANGED <<topLevel, childrenOf, todo, listing>>
      BY <1>4 DEF FinishListing, reading, layout
    <2> QED
      BY <2>1 DEF Ordered, FirstTodo, LaidInOrder, AsRead
  <1> QED
    BY <1>1, <1>2, <1>3, <1>4 DEF Save, ReadBefore, RefusePage, RefuseSections, RefuseVersion,
       RequestFails, RefuseTwice, Refused, reading, layout, vars

LEMMA OrderedInvariant == Spec => []Ordered
  <1>1. Init => Ordered
    BY DEF Init, Ordered, FirstTodo, LaidInOrder
  <1>2. TypeInv /\ Layout /\ Ordered /\ [Next]_vars => Ordered'
    BY OrderedReadPage, OrderedReadAfter, OrderedLay, OrderedRest DEF Next, List
  <1> QED
    BY <1>1, <1>2, TypeInvariant, LayoutInvariant, PTL DEF Spec

LEMMA OrderedIsAPage ==
    ASSUME TypeInv, OneVersion, Layout, Ordered
    PROVE  ListsAPageThatExisted
  <1> SUFFICES ASSUME pc = "listed" PROVE \E v \in before..Version : IsPageOf(history[v], listing)
    BY DEF ListsAPageThatExisted
  <1>1. PICK v \in before..Version :
          /\ Page \in DOMAIN history[v] /\ topLevel = history[v][Page]
          /\ \A s \in DOMAIN childrenOf : s \in DOMAIN history[v] /\ childrenOf[s] = history[v][s]
    BY DEF OneVersion
  <1> DEFINE f == history[v]
             g == AsRead
  <1>2. /\ DOMAIN g = {Page} \cup DOMAIN childrenOf
        /\ g[Page] = topLevel /\ topLevel \in Seq(Nodes)
        /\ \A s \in DOMAIN childrenOf : g[s] = childrenOf[s] /\ Lists(g, s)
        /\ Lists(g, Page)
    BY AsReadFacts
  <1>3. \A c \in DOMAIN g : c \in DOMAIN f /\ f[c] = g[c]
    BY <1>1, <1>2
  <1>4. InOrder(g, listing, todo) /\ Held(g, listing, todo) /\ todo = <<>>
    BY DEF Ordered, LaidInOrder
  <1>5. Elements(todo) = {}
    BY <1>4 DEF Elements
  <1>6. \A e \in Elements(listing) : e.node \in Sections => e.node \in DOMAIN childrenOf
    BY DEF Layout, Closing, Laid, Elements
  <1> HIDE DEF f, g
  <1>7. Lists(f, Page)
    BY <1>2, <1>3 DEF Lists
  <1>8. \A e \in Elements(listing) : IsTrail(f, Trail(e))
    BY <1>3, <1>4, ViewAgrees DEF InOrder
  <1>9. \A j, k \in DOMAIN listing : j < k => Precedes(f, Trail(listing[j]), Trail(listing[k]))
    BY <1>3, <1>4, ViewAgrees DEF InOrder, Elements
  <1>10. \A n \in Elements(f[Page]) : [node |-> n, path |-> <<>>] \in Elements(listing)
    BY <1>2, <1>3, <1>4, <1>5 DEF Held
  <1>11. ASSUME NEW e \in Elements(listing), e.node \in Sections
         PROVE  /\ Lists(f, e.node)
                /\ \A n \in Elements(f[e.node]) : [node |-> n, path |-> Trail(e)] \in Elements(listing)
    <2>1. e.node \in DOMAIN childrenOf /\ f[e.node] = g[e.node] /\ Lists(f, e.node)
      BY <1>2, <1>3, <1>6, <1>11 DEF Lists
    <2> QED
      BY <1>4, <1>5, <1>11, <2>1 DEF Held
  <1> QED
    BY <1>7, <1>8, <1>9, <1>10, <1>11 DEF IsPageOf, f

-----------------------------------------------------------------------------
(* Refusals have a cause.                                                  *)

(* A file that was honest all along was honest before.                     *)
LEMMA HonestStep ==
    ASSUME TypeInv, [Next]_vars
    PROVE  /\ Honest' => Honest
           /\ Honest' => IsWhole(history'[Version'])
           /\ Version' >= Version
           /\ \A v \in 1..Version : history'[v] = history[v]
  <1>1. history \in Seq(Files) /\ history # <<>> /\ Version \in Nat
    BY DEF TypeInv, TypeOK, Version
  <1>2. CASE Save
    <2>1. PICK f \in Files : history' = Append(history, f)
      BY <1>2 DEF Save
    <2>2. Version' = Version + 1 /\ \A v \in 1..Version : history'[v] = history[v]
      BY <1>1, <2>1 DEF Version
    <2> QED
      BY <1>1, <2>2 DEF Honest
  <1>3. CASE history' = history
    BY <1>1, <1>3 DEF Honest, Version
  <1> QED
    BY <1>2, <1>3 DEF Next, List, ReadBefore, ReadPage, RefusePage, AskSections, ServeSection,
       TakeSections, RefuseSections, ReadAfter, RefuseVersion, RequestFails, LayFrame,
       LaySection, RefuseTwice, FinishListing, file, vars

(* What was read of a whole file has every node in one place.              *)
LEMMA WholeView ==
    ASSUME NEW f, IsWhole(f), NEW top, NEW children, DOMAIN children \subseteq Sections,
           Page \in DOMAIN f, top = f[Page],
           \A s \in DOMAIN children : s \in DOMAIN f /\ children[s] = f[s]
    PROVE  NoNodeTwice(View(top, children))
  <1> DEFINE g == View(top, children)
  <1>1. \A c \in DOMAIN g : c \in DOMAIN f /\ g[c] = f[c]
    BY DEF View
  <1> HIDE DEF g
  <1>2. NoNodeTwice(g)
    BY <1>1 DEF IsWhole, NoNodeTwice
  <1> QED
    BY <1>2 DEF g

(* Of an honest file, no section that is still to be read is missing as    *)
(* long as nobody has saved, and no answer is malformed.                   *)
WellAnswered ==
    Honest =>
        /\ \A s \in DOMAIN answers : answers[s] # Malformed
        /\ before = Version /\ pc \in {"sections", "after"} =>
             unread \cup found \subseteq DOMAIN history[Version]

NodesOf(t) == {t[k].node : k \in DOMAIN t}

(* The nodes that are laid, or are to be laid, are all different, and each *)
(* of them was met on the page or in a section that is laid.               *)
Apart(g, laid, t) ==
    /\ \A j, k \in DOMAIN t : t[j].node = t[k].node => j = k
    /\ NodesOf(t) \cap laid = {}
    /\ \A n \in laid \cup NodesOf(t) :
         \E c \in {Page} \cup (laid \cap Sections) : n \in Elements(g[c])

AllApart == Honest /\ pc = "lay" => Apart(AsRead, Laid, todo)

Caused ==
    /\ reason # "none" => pc = "refused"
    /\ reason = "page-missing" => before >= 1
    /\ RefusalHasCause

LEMMA WellAnsweredInit == Init => WellAnswered
  BY DEF Init, WellAnswered

(* What the service answers of the present file.                           *)
LEMMA HonestAnswer ==
    ASSUME TypeInv, Honest, NEW c \in Containers, Answer(c) # Missing
    PROVE  /\ c \in DOMAIN history[Version] /\ Answer(c) = history[Version][c]
           /\ Answer(c) # Malformed /\ SectionsIn(Answer(c)) \subseteq DOMAIN history[Version]
  <1>1. IsWhole(history[Version])
    BY DEF TypeInv, TypeOK, Honest, Version
  <1> QED
    BY <1>1 DEF Answer, IsWhole

LEMMA WellAnsweredRead ==
    ASSUME TypeInv, StillFresh, WellAnswered, Honest,
           ReadPage \/ TakeSections \/ (\E s \in Sections : ServeSection(s))
    PROVE  WellAnswered'
  <1>1. Version' = Version /\ history' = history /\ before' = before
    BY DEF ReadPage, TakeSections, ServeSection, file, Version
  <1>2. CASE ReadPage
    <2>1. SectionsIn(Answer(Page)) \subseteq DOMAIN history[Version]
      BY <1>2, HonestAnswer DEF ReadPage, Absent, Containers
    <2>2. unread' = SectionsIn(Answer(Page)) /\ found' = {} /\ DOMAIN answers' = {}
      BY <1>2 DEF ReadPage, TypeInv
    <2> QED
      BY <1>1, <2>1, <2>2 DEF WellAnswered
  <1>3. CASE TakeSections
    <2>1. /\ pc = "sections" /\ DOMAIN answers = asked
          /\ \A s \in asked : answers[s] # Missing
          /\ unread' \subseteq unread \cup found \cup UNION {SectionsIn(answers[s]) : s \in asked}
          /\ found' \subseteq found \cup UNION {SectionsIn(answers[s]) : s \in asked}
          /\ DOMAIN answers' = {}
      BY <1>3 DEF TakeSections, Answered, Absent, NextLevel
    <2>2. ASSUME before = Version, NEW s \in asked
          PROVE  SectionsIn(answers[s]) \subseteq DOMAIN history[Version]
      <3>1. answers[s] = Answer(s) /\ s \in Containers
        BY <2>1, <2>2 DEF StillFresh, TypeInv, TypeOK, Containers
      <3> QED
        BY <2>1, <2>2, <3>1, HonestAnswer
    <2>3. before = Version => unread \cup found \subseteq DOMAIN history[Version]
      BY <2>1 DEF WellAnswered
    <2> QED
      BY <1>1, <2>1, <2>2, <2>3 DEF WellAnswered
  <1>4. CASE \E s \in Sections : ServeSection(s)
    <2>1. PICK s \in Sections : ServeSection(s)
      BY <1>4
    <2>2. Answer(s) # Malformed
      BY HonestAnswer, AnswersAssumption DEF Containers
    <2>3. pc' = pc /\ unread' = unread /\ found' = found
      BY <2>1 DEF ServeSection
    <2>4. \A x \in DOMAIN answers' : answers'[x] # Malformed
      BY <2>1, <2>2 DEF ServeSection, WellAnswered
    <2> QED
      BY <1>1, <2>3, <2>4 DEF WellAnswered
  <1> QED
    BY <1>2, <1>3, <1>4

LEMMA WellAnsweredStep ==
    ASSUME TypeInv, StillFresh, WellAnswered, [Next]_vars
    PROVE  WellAnswered'
  <1> SUFFICES ASSUME Honest' PROVE WellAnswered'
    BY DEF WellAnswered
  <1>1. Honest
    BY HonestStep
  <1>2. CASE Save
    <2>1. before' = before /\ answers' = answers
      BY <1>2 DEF Save, reading
    <2>2. Version' = Version + 1 /\ Version \in Nat /\ before \in 0..Version
      <3>1. history \in Seq(Files) /\ before \in 0..Len(history)
        BY DEF TypeInv, TypeOK, Version
      <3> QED
        BY <1>2, <3>1 DEF Save, Version
    <2>3. before' # Version'
      BY <2>1, <2>2
    <2> QED
      BY <1>1, <2>1, <2>3 DEF WellAnswered
  <1>3. CASE ReadPage \/ TakeSections \/ (\E s \in Sections : ServeSection(s))
    BY <1>1, <1>3, WellAnsweredRead
  <1>4. CASE pc' \notin {"sections", "after"} /\ DOMAIN answers' = DOMAIN answers /\ answers' = answers
    BY <1>1, <1>4 DEF WellAnswered
  <1>5. CASE pc' = pc /\ UNCHANGED <<history, before, unread, found, answers>>
    BY <1>1, <1>5 DEF WellAnswered, Version
  <1> QED
    BY <1>2, <1>3, <1>4, <1>5 DEF Next, List, ReadBefore, RefusePage, AskSections, RefuseSections,
       ReadAfter, RefuseVersion, RequestFails, LayFrame, LaySection, RefuseTwice, FinishListing,
       Refused, file, reading, layout, vars

LEMMA WellAnsweredInvariant == Spec => []WellAnswered
  BY WellAnsweredInit, WellAnsweredStep, TypeInvariant, FreshInvariant, PTL DEF Spec

(* The first level of the page, laid out or not.                           *)
LEMMA TopApart ==
    ASSUME NEW g, NoNodeTwice(g), Page \in DOMAIN g, g[Page] \in Seq(Nodes),
           NEW t, t = Entries(g[Page], <<>>)
    PROVE  Apart(g, {}, t)
  <1>1. <<>> \in Seq(Sections)
    OBVIOUS
  <1>2. DOMAIN t = DOMAIN g[Page] /\ \A k \in DOMAIN t : t[k].node = g[Page][k]
    <2>1. DOMAIN t = DOMAIN g[Page]
      BY <1>1, EntriesType
    <2>2. \A k \in DOMAIN g[Page] : Entries(g[Page], <<>>)[k].node = g[Page][k]
      BY <1>1, EntriesType
    <2> QED
      BY <2>1, <2>2
  <1>3. \A j, k \in DOMAIN t : t[j].node = t[k].node => j = k
    BY <1>2 DEF NoNodeTwice
  <1>4. \A n \in NodesOf(t) : n \in Elements(g[Page])
    BY <1>2 DEF NodesOf, Elements
  <1> QED
    BY <1>3, <1>4 DEF Apart

(* The first entry has a node of its own, which moves to what is laid.     *)
LEMMA HeadApart ==
    ASSUME NEW g, NEW laid, NEW t \in Seq(EntryType), t # <<>>, Apart(g, laid, t),
           NEW n, n = Head(t).node
    PROVE  /\ NodesOf(t) = NodesOf(Tail(t)) \cup {n} /\ n \notin NodesOf(Tail(t))
           /\ \A j, k \in DOMAIN Tail(t) : Tail(t)[j].node = Tail(t)[k].node => j = k
           /\ n \notin laid /\ NodesOf(Tail(t)) \cap laid = {}
  <1> DEFINE r == Tail(t)
  <1>1. /\ n = t[1].node /\ 1 \in DOMAIN t
        /\ \A k \in DOMAIN r : k + 1 \in DOMAIN t /\ k + 1 # 1 /\ r[k] = t[k + 1] /\ k \in Nat
        /\ \A k \in DOMAIN t : k = 1 \/ (k - 1 \in DOMAIN r /\ r[k - 1] = t[k])
    BY TailFacts
  <1> HIDE DEF r
  <1>2. ASSUME NEW k \in DOMAIN t PROVE t[k].node \in NodesOf(r) \cup {n}
    BY <1>1 DEF NodesOf
  <1>3. NodesOf(r) \subseteq NodesOf(t) /\ n \in NodesOf(t)
    BY <1>1 DEF NodesOf
  <1>4. NodesOf(t) = NodesOf(r) \cup {n}
    BY <1>2, <1>3 DEF NodesOf
  <1>5. n \notin NodesOf(r)
    <2>1. ASSUME NEW k \in DOMAIN r PROVE r[k].node # n
      BY <1>1 DEF Apart
    <2> QED
      BY <2>1 DEF NodesOf
  <1>6. ASSUME NEW j \in DOMAIN r, NEW k \in DOMAIN r, r[j].node = r[k].node PROVE j = k
    <2>1. \A x, y \in DOMAIN t : t[x].node = t[y].node => x = y
      BY DEF Apart
    <2>2. /\ j + 1 \in DOMAIN t /\ k + 1 \in DOMAIN t /\ j \in Nat /\ k \in Nat
          /\ r[j] = t[j + 1] /\ r[k] = t[k + 1]
      BY <1>1
    <2>3. j + 1 = k + 1
      BY <1>6, <2>1, <2>2
    <2> QED
      BY <2>2, <2>3
  <1>7. NodesOf(t) \cap laid = {}
    BY DEF Apart
  <1> QED
    BY <1>4, <1>5, <1>6, <1>7 DEF r

LEMMA FrameKeepsApart ==
    ASSUME NEW g, NEW laid, NEW t \in Seq(EntryType), t # <<>>, Apart(g, laid, t),
           NEW n, n = Head(t).node
    PROVE  Apart(g, laid \cup {n}, Tail(t))
  <1>1. /\ NodesOf(t) = NodesOf(Tail(t)) \cup {n} /\ n \notin NodesOf(Tail(t))
        /\ \A j, k \in DOMAIN Tail(t) : Tail(t)[j].node = Tail(t)[k].node => j = k
        /\ NodesOf(Tail(t)) \cap laid = {}
    BY HeadApart
  <1>2. \A x \in laid \cup NodesOf(t) :
          \E c \in {Page} \cup (laid \cap Sections) : x \in Elements(g[c])
    BY DEF Apart
  <1> QED
    BY <1>1, <1>2 DEF Apart

(* What a section holds that was not laid before is in no other place.     *)
LEMMA SectionKeepsApart ==
    ASSUME NEW g, NoNodeTwice(g), NEW laid, NEW t \in Seq(EntryType), t # <<>>, Apart(g, laid, t),
           {Page} \cup (laid \cap Sections) \subseteq DOMAIN g,
           NEW n \in Sections, n = Head(t).node, n \in DOMAIN g, g[n] \in Seq(Nodes),
           NEW p \in Seq(Sections), NEW u, u = Entries(g[n], p) \o Tail(t)
    PROVE  Apart(g, laid \cup {n}, u)
  <1> DEFINE b == Entries(g[n], p)
             r == Tail(t)
  <1>1. /\ NodesOf(t) = NodesOf(r) \cup {n} /\ n \notin NodesOf(r)
        /\ \A j, k \in DOMAIN r : r[j].node = r[k].node => j = k
        /\ n \notin laid /\ NodesOf(r) \cap laid = {}
    BY HeadApart
  <1>2. /\ b \in Seq(EntryType) /\ r \in Seq(EntryType)
        /\ DOMAIN b = DOMAIN g[n] /\ \A k \in DOMAIN b : b[k].node = g[n][k]
    BY EntriesType, TailFacts
  <1>3. /\ DOMAIN b = 1..Len(b) /\ DOMAIN r = 1..Len(r) /\ Len(b) \in Nat /\ Len(r) \in Nat
        /\ DOMAIN u = 1..(Len(b) + Len(r))
        /\ \A k \in DOMAIN u : (k \in DOMAIN b /\ u[k] = b[k])
                                \/ (k - Len(b) \in DOMAIN r /\ u[k] = r[k - Len(b)])
    BY <1>2, ConcatFacts
  <1> HIDE DEF b, r
  <1>4. n # Page
    BY IdsAssumption DEF Nodes
  <1>5. \A x \in laid \cup NodesOf(t) :
          \E c \in {Page} \cup (laid \cap Sections) : x \in Elements(g[c])
    BY DEF Apart
  <1>6. ASSUME NEW k \in DOMAIN b PROVE b[k].node \notin laid \cup NodesOf(t)
    <2> SUFFICES ASSUME b[k].node \in laid \cup NodesOf(t) PROVE FALSE
      OBVIOUS
    <2>1. PICK c \in {Page} \cup (laid \cap Sections) : b[k].node \in Elements(g[c])
      BY <1>5
    <2>2. PICK i \in DOMAIN g[c] : b[k].node = g[c][i]
      BY <2>1 DEF Elements
    <2>3. c = n
      BY <1>2, <2>1, <2>2 DEF NoNodeTwice
    <2> QED
      BY <1>1, <1>4, <2>1, <2>3
  <1>7. ASSUME NEW j \in DOMAIN u, NEW k \in DOMAIN u, u[j].node = u[k].node PROVE j = k
    <2>1. CASE j \in DOMAIN b /\ u[j] = b[j] /\ k \in DOMAIN b /\ u[k] = b[k]
      <3>1. j \in DOMAIN g[n] /\ k \in DOMAIN g[n] /\ g[n][j] = g[n][k]
        BY <1>2, <1>7, <2>1
      <3> QED
        BY <3>1 DEF NoNodeTwice
    <2>2. ASSUME NEW x \in DOMAIN r, NEW i \in DOMAIN b PROVE r[x].node # b[i].node
      <3>1. r[x].node \in NodesOf(r)
        BY DEF NodesOf
      <3> QED
        BY <1>1, <1>6, <3>1
    <2>3. CASE /\ j - Len(b) \in DOMAIN r /\ u[j] = r[j - Len(b)]
               /\ k - Len(b) \in DOMAIN r /\ u[k] = r[k - Len(b)]
      <3>1. j - Len(b) = k - Len(b)
        BY <1>1, <1>7, <2>3
      <3>2. j \in Int /\ k \in Int /\ Len(b) \in Int
        BY <1>3
      <3> QED
        BY <3>1, <3>2
    <2>4. CASE j \in DOMAIN b /\ u[j] = b[j] /\ k - Len(b) \in DOMAIN r /\ u[k] = r[k - Len(b)]
      BY <1>7, <2>2, <2>4
    <2>5. CASE k \in DOMAIN b /\ u[k] = b[k] /\ j - Len(b) \in DOMAIN r /\ u[j] = r[j - Len(b)]
      BY <1>7, <2>2, <2>5
    <2> QED
      BY <1>3, <2>1, <2>3, <2>4, <2>5
  <1>8. \A x \in NodesOf(u) : x \in NodesOf(r) \/ \E k \in DOMAIN b : x = b[k].node
    <2>1. ASSUME NEW k \in DOMAIN u
          PROVE  u[k].node \in NodesOf(r) \/ \E i \in DOMAIN b : u[k].node = b[i].node
      <3>1. CASE k \in DOMAIN b /\ u[k] = b[k]
        BY <3>1
      <3>2. CASE k - Len(b) \in DOMAIN r /\ u[k] = r[k - Len(b)]
        BY <3>2 DEF NodesOf
      <3> QED
        BY <1>3, <3>1, <3>2
    <2> SUFFICES ASSUME NEW x \in NodesOf(u)
                 PROVE  x \in NodesOf(r) \/ \E i \in DOMAIN b : x = b[i].node
      OBVIOUS
    <2>2. PICK k \in DOMAIN u : x = u[k].node
      BY DEF NodesOf
    <2> QED
      BY <2>1, <2>2
  <1>9. NodesOf(u) \cap (laid \cup {n}) = {}
    BY <1>1, <1>6, <1>8
  <1>10. \A k \in DOMAIN b : b[k].node \in Elements(g[n])
    BY <1>2 DEF Elements
  <1>11. \A x \in (laid \cup {n}) \cup NodesOf(u) :
           \E c \in {Page} \cup ((laid \cup {n}) \cap Sections) : x \in Elements(g[c])
    <2> SUFFICES ASSUME NEW x \in (laid \cup {n}) \cup NodesOf(u)
                 PROVE  \E c \in {Page} \cup ((laid \cup {n}) \cap Sections) : x \in Elements(g[c])
      OBVIOUS
    <2>1. CASE x \in laid \cup NodesOf(t)
      BY <1>5, <2>1
    <2>2. CASE \E k \in DOMAIN b : x = b[k].node
      BY <1>10, <2>2
    <2> QED
      BY <1>1, <1>8, <2>1, <2>2
  <1> QED
    BY <1>7, <1>9, <1>11 DEF Apart

(* The layout begins with the page's own level.                            *)
LEMMA ApartBegins ==
    ASSUME TypeInv, StillFresh, WellAnswered, Ordered, Honest, ReadPage \/ ReadAfter
    PROVE  AllApart'
  <1> SUFFICES ASSUME pc' = "lay" PROVE Apart(AsRead', Laid', todo')
    BY DEF AllApart
  <1>1. history' = history /\ IsWhole(history[Version])
    BY DEF ReadPage, ReadAfter, file, TypeInv, TypeOK, Honest, Version
  <1>2. /\ Page \in DOMAIN history[Version] /\ topLevel' = history[Version][Page]
        /\ topLevel' \in Seq(Nodes) /\ DOMAIN childrenOf' \subseteq Sections
        /\ \A s \in DOMAIN childrenOf' :
             s \in DOMAIN history[Version] /\ childrenOf'[s] = history[Version][s]
        /\ listing' = <<>> /\ todo' = Entries(topLevel', <<>>)
    <2>1. CASE ReadPage
      <3>1. Answer(Page) # Missing /\ Answer(Page) \in Seq(Nodes)
        BY <2>1, AnswerType DEF ReadPage, Absent, Containers, TypeInv
      <3>2. /\ topLevel' = Answer(Page) /\ DOMAIN childrenOf' = {} /\ listing' = <<>>
            /\ todo' = Entries(Answer(Page), <<>>)
        BY <2>1 DEF ReadPage, TypeInv
      <3> QED
        BY <3>1, <3>2, HonestAnswer DEF Containers
    <2>2. CASE ReadAfter
      <3>1. /\ pc = "after" /\ before = Version
            /\ UNCHANGED <<topLevel, childrenOf, todo, listing>>
        BY <2>2 DEF ReadAfter, Unchanged, reading, layout
      <3>2. /\ Present(Page, topLevel) /\ \A s \in DOMAIN childrenOf : Present(s, childrenOf[s])
            /\ listing = <<>> /\ todo = Entries(topLevel, <<>>)
        BY <3>1 DEF StillFresh, Ordered, FirstTodo
      <3> QED
        BY <3>1, <3>2 DEF Present, TypeInv, TypeOK
    <2> QED
      BY <2>1, <2>2
  <1>3. AsRead' = View(topLevel', childrenOf')
    BY DEF AsRead
  <1>4. NoNodeTwice(AsRead')
    BY <1>1, <1>2, <1>3, WholeView
  <1>5. Page \in DOMAIN AsRead' /\ AsRead'[Page] = topLevel'
    BY <1>3 DEF View
  <1>6. Laid' = {}
    BY <1>2 DEF Laid
  <1> QED
    BY <1>2, <1>4, <1>5, <1>6, TopApart

LEMMA ApartGoesOn ==
    ASSUME TypeInv, OneVersion, Layout, AllApart, Honest, LayFrame \/ LaySection
    PROVE  AllApart'
  <1>1. /\ pc = "lay" /\ todo \in Seq(EntryType) /\ todo # <<>> /\ Head(todo) \in EntryType
        /\ Laid' = Laid \cup {Head(todo).node} /\ UNCHANGED <<topLevel, childrenOf>>
    BY ListingGrows DEF LayFrame, LaySection, reading
  <1>2. AsRead' = AsRead /\ Apart(AsRead, Laid, todo)
    BY <1>1 DEF AsRead, AllApart
  <1>3. CASE LayFrame
    <2>1. todo' = Tail(todo)
      BY <1>3 DEF LayFrame
    <2>2. Apart(AsRead, Laid \cup {Head(todo).node}, Tail(todo))
      BY <1>1, <1>2, FrameKeepsApart
    <2> QED
      BY <1>1, <1>2, <2>1, <2>2 DEF AllApart
  <1>4. CASE LaySection
    <2>1. PICK v \in before..Version :
            /\ Page \in DOMAIN history[v] /\ topLevel = history[v][Page]
            /\ \A s \in DOMAIN childrenOf : s \in DOMAIN history[v] /\ childrenOf[s] = history[v][s]
      BY <1>1 DEF OneVersion
    <2>2. v \in 1..Version /\ DOMAIN childrenOf \subseteq Sections
      BY <1>1 DEF TypeInv, TypeOK, Version
    <2>3. IsWhole(history[v])
      BY <2>2 DEF Honest
    <2>4. NoNodeTwice(AsRead)
      BY <2>1, <2>2, <2>3, WholeView DEF AsRead
    <2>5. Head(todo).node \in Sections /\ Head(todo).node \in ToLay
      BY <1>1, <1>4, TailFacts DEF LaySection, ToLay
    <2>6. (Laid \cup ToLay) \cap Sections \subseteq DOMAIN childrenOf
      BY <1>1 DEF Layout, Closing
    <2>7. Head(todo).node \in DOMAIN childrenOf
      BY <2>5, <2>6
    <2>8. /\ {Page} \cup (Laid \cap Sections) \subseteq DOMAIN AsRead
          /\ Head(todo).node \in DOMAIN AsRead
          /\ AsRead[Head(todo).node] = childrenOf[Head(todo).node]
          /\ AsRead[Head(todo).node] \in Seq(Nodes)
      BY <2>6, <2>7, AsReadFacts
    <2>9. Trail(Head(todo)) \in Seq(Sections)
      BY <1>1, <2>5 DEF EntryType, Trail
    <2>10. todo' = Entries(AsRead[Head(todo).node], Trail(Head(todo))) \o Tail(todo)
      BY <1>4, <2>7, <2>8 DEF LaySection, Children, Trail
    <2>11. Apart(AsRead, Laid \cup {Head(todo).node}, todo')
      BY <1>1, <1>2, <2>4, <2>5, <2>8, <2>9, <2>10, SectionKeepsApart
    <2> QED
      BY <1>1, <1>2, <2>11 DEF AllApart
  <1> QED
    BY <1>3, <1>4

LEMMA ApartStep ==
    ASSUME TypeInv, StillFresh, OneVersion, WellAnswered, Layout, Ordered, AllApart, [Next]_vars
    PROVE  AllApart'
  <1> SUFFICES ASSUME Honest' PROVE AllApart'
    BY DEF AllApart
  <1>1. Honest
    BY HonestStep
  <1>2. CASE ReadPage \/ ReadAfter
    BY <1>1, <1>2, ApartBegins
  <1>3. CASE LayFrame \/ LaySection
    BY <1>1, <1>3, ApartGoesOn
  <1>4. CASE pc' # "lay"
    BY <1>4 DEF AllApart
  <1>5. CASE pc' = pc /\ UNCHANGED <<topLevel, childrenOf, todo, listing>>
    <2>1. AsRead' = AsRead /\ Laid' = Laid
      BY <1>5 DEF AsRead, Laid
    <2> QED
      BY <1>1, <1>5, <2>1 DEF AllApart
  <1> QED
    BY <1>2, <1>3, <1>4, <1>5 DEF Next, List, Save, ReadBefore, RefusePage, AskSections, ServeSection,
       TakeSections, Answered, RefuseSections, RefuseVersion, RequestFails, RefuseTwice, FinishListing,
       Refused, reading, layout, vars

LEMMA ApartInvariant == Spec => []AllApart
  <1>1. Init => AllApart
    BY DEF Init, AllApart
  <1> QED
    BY <1>1, ApartStep, TypeInvariant, FreshInvariant, WellAnsweredInvariant, LayoutInvariant,
       OrderedInvariant, PTL DEF Spec

(* What a refusal says of an honest file, at the moment it is made.        *)
LEMMA RefusalCaused ==
    ASSUME TypeInv, StillFresh, WellAnswered, AllApart, Caused, Honest, pc' = "refused", pc # "refused",
           RefusePage \/ RefuseSections \/ RefuseVersion \/ RequestFails \/ RefuseTwice
    PROVE  /\ reason' = "incomplete" => Version > before
           /\ reason' = "page-missing" => Version \in before..Version /\ Page \notin DOMAIN history[Version]
           /\ reason' # "contradiction"
  <1>1. /\ before \in Nat /\ Version \in Nat /\ before <= Version /\ Version \in before..Version
        /\ Version \in 1..Version /\ Version \in DOMAIN history
    BY DEF TypeInv, TypeOK, Version
  <1>2. IsWhole(history[Version]) /\ history[Version] \in Files
    BY <1>1 DEF Honest, TypeInv, TypeOK
  <1>3. Page \in DOMAIN history[Version] => history[Version][Page] \notin {Missing, Malformed}
    BY <1>2, FilesAssumption, AnswersAssumption DEF IsWhole
  <1>4. CASE RefusePage
    BY <1>1, <1>3, <1>4, AnswersAssumption DEF RefusePage, Refused, Absent, Answer
  <1>5. CASE RefuseSections
    <2>1. PICK s \in asked : \/ answers[s] = Missing /\ reason' = "incomplete"
                             \/ answers[s] = Malformed /\ reason' = "contradiction"
      BY <1>5 DEF RefuseSections, Refused, Absent
    <2>2. pc = "sections" /\ s \in DOMAIN answers /\ s \in unread
      BY <1>5 DEF RefuseSections, Answered, TypeInv, TypeOK
    <2>3. answers[s] = Missing /\ reason' = "incomplete"
      BY <2>1, <2>2 DEF WellAnswered
    <2>4. ASSUME before = Version PROVE FALSE
      <3>1. s \in DOMAIN history[Version] /\ answers[s] = Answer(s)
        BY <2>2, <2>4 DEF WellAnswered, StillFresh
      <3>2. history[Version][s] # Missing
        BY <1>2, <3>1, FilesAssumption, AnswersAssumption
      <3> QED
        BY <2>3, <3>1, <3>2 DEF Answer
    <2> QED
      BY <1>1, <2>3, <2>4
  <1>6. CASE RefuseVersion
    BY <1>1, <1>6 DEF RefuseVersion, Refused, Unchanged
  <1>7. CASE RequestFails
    BY <1>7 DEF RequestFails, Refused
  <1>8. CASE RefuseTwice
    <2>1. pc = "lay" /\ todo # <<>> /\ Head(todo).node \in Laid /\ todo \in Seq(EntryType)
      BY <1>8 DEF RefuseTwice, TypeInv, TypeOK
    <2>2. Head(todo).node \in NodesOf(todo)
      BY <2>1, TailFacts DEF NodesOf
    <2> QED
      BY <2>1, <2>2 DEF AllApart, Apart
  <1> QED
    BY <1>4, <1>5, <1>6, <1>7, <1>8

LEMMA CausedStep ==
    ASSUME TypeInv, StillFresh, WellAnswered, AllApart, Caused, [Next]_vars
    PROVE  Caused'
  <1>0. before \in Nat /\ Version \in Nat /\ before <= Version
    BY DEF TypeInv, TypeOK, Version
  <1>1. /\ Honest' => Honest
        /\ Version' >= Version /\ Version' \in Nat
        /\ \A v \in 1..Version : history'[v] = history[v]
    <2>1. TypeInv'
      BY TypeInvStep
    <2>2. Version' \in Nat
      BY <2>1 DEF TypeInv, TypeOK, Version
    <2> QED
      BY <2>2, HonestStep
  <1>2. CASE reason' = reason /\ before' = before /\ (pc' = pc \/ pc # "refused")
    <2>1. /\ reason' # "none" => pc' = "refused"
          /\ reason' = "page-missing" => before' >= 1
      BY <1>2 DEF Caused
    <2>2. CASE reason = "none"
      BY <1>2, <2>1, <2>2 DEF Caused, RefusalHasCause
    <2>3. CASE reason # "none" /\ Honest'
      <3>1. RefusalHasCause /\ Honest
        BY <1>1, <2>3 DEF Caused
      <3>2. reason = "incomplete" => Version' > before
        BY <1>0, <1>1, <3>1 DEF RefusalHasCause
      <3>3. ASSUME reason = "page-missing"
            PROVE  \E v \in before..Version' : Page \notin DOMAIN history'[v]
        <4>1. PICK v \in before..Version : Page \notin DOMAIN history[v]
          BY <3>1, <3>3 DEF RefusalHasCause
        <4>2. v \in 1..Version /\ v \in before..Version'
          BY <1>0, <1>1, <3>3, <4>1 DEF Caused
        <4> QED
          BY <1>1, <4>1, <4>2
      <3> QED
        BY <1>2, <2>1, <3>1, <3>2, <3>3 DEF Caused, RefusalHasCause
    <2> QED
      BY <2>1, <2>2, <2>3 DEF Caused, RefusalHasCause
  <1>3. CASE RefusePage \/ RefuseSections \/ RefuseVersion \/ RequestFails \/ RefuseTwice
    <2>1. pc' = "refused" /\ pc # "refused" /\ history' = history /\ before' = before
      BY <1>3 DEF RefusePage, RefuseSections, Answered, RefuseVersion, RequestFails, RefuseTwice,
         Refused, file, reading
    <2>2. Honest => /\ reason' = "incomplete" => Version > before
                    /\ reason' = "page-missing" =>
                         Version \in before..Version /\ Page \notin DOMAIN history[Version]
                    /\ reason' # "contradiction"
      BY <1>3, <2>1, RefusalCaused
    <2>3. Version' = Version
      BY <2>1 DEF Version
    <2>4. reason' = "page-missing" => before' >= 1
      <3>1. reason' = "page-missing" => pc = "page" /\ before' = before
        BY <1>3, <2>1 DEF RefusePage, RefuseSections, RefuseVersion, RequestFails, RefuseTwice, Refused
      <3> QED
        BY <3>1 DEF TypeInv
    <2> QED
      BY <1>1, <2>1, <2>2, <2>3, <2>4 DEF Caused, RefusalHasCause
  <1>4. CASE ReadBefore
    <2>1. reason' = "none"
      BY <1>4 DEF ReadBefore, Caused
    <2> QED
      BY <2>1 DEF Caused, RefusalHasCause
  <1> QED
    BY <1>2, <1>3, <1>4 DEF Next, List, Save, ReadPage, AskSections, ServeSection, TakeSections,
       Answered, ReadAfter, LayFrame, LaySection, FinishListing, reading, vars

LEMMA CausedInvariant == Spec => []Caused
  <1>1. Init => Caused
    BY DEF Init, Caused, RefusalHasCause
  <1> QED
    BY <1>1, CausedStep, TypeInvariant, FreshInvariant, WellAnsweredInvariant, ApartInvariant,
       PTL DEF Spec

(* A listing is the page of one moment since it began, every node where it *)
(* was and in document order, whatever the service answers; and of an      *)
(* honest service, a refusal that says "retry" means that somebody saved,  *)
(* one that says the page is missing that it was, and no refusal accuses   *)
(* the service.                                                            *)
THEOREM OutcomesHaveCause == Spec => []OutcomeHasCause
  <1>1. TypeInv /\ OneVersion /\ Layout /\ Ordered /\ Caused => OutcomeHasCause
    BY OrderedIsAPage DEF Caused, OutcomeHasCause
  <1> QED
    BY <1>1, TypeInvariant, FreshInvariant, LayoutInvariant, OrderedInvariant, CausedInvariant, PTL
=============================================================================
