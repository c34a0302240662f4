----------------------------- MODULE MCDiscover -----------------------------
(***************************************************************************)
(* Files for the listing of a page: every arrangement of a few nodes on    *)
(* the page, in each other, elsewhere in the file or nowhere; and files    *)
(* that no service should describe.                                        *)
(***************************************************************************)
EXTENDS Discover

CONSTANTS
    A, B,        \* sections
    F,           \* a frame
    Elsewhere,   \* another page of the file
    Gone         \* not in the file

(* Document order, wherever the nodes are.                                 *)
Order == <<A, F, B>>

Places == Containers \cup {Elsewhere, Gone}

(* Where every node is.  No section is inside itself.                      *)
Arrangements ==
    {at \in [Nodes -> Places] :
        /\ at[F] # Elsewhere
        /\ \A s \in Sections : at[s] # s
        /\ ~(at[A] = B /\ at[B] = A)
        /\ \A n \in Nodes : at[n] \in Sections => at[at[n]] # Gone}

Held(at, c) == SelectSeq(Order, LAMBDA n : at[n] = c)

WholeFile(at) == [c \in {Page} \cup {s \in Sections : at[s] # Gone} |-> Held(at, c)]

(* The last one is a file from which the page was deleted.                 *)
HonestFiles == {WholeFile(at) : at \in Arrangements} \cup {[c \in {} |-> <<>>]}

(* Sections that hold each other or themselves, a node in two places, a    *)
(* section that is listed and not there, a document without children.      *)
DishonestFiles ==
    { [c \in Containers |-> CASE c = Page -> <<A, F>> [] c = A -> <<B>> [] c = B -> <<A>>],
      [c \in Containers |-> CASE c = Page -> <<A, B>> [] c = A -> <<F>> [] c = B -> <<F>>],
      [c \in Containers |-> CASE c = Page -> <<A, B>> [] c = A -> <<A>> [] c = B -> <<>>],
      [c \in {Page, A}  |-> CASE c = Page -> <<F, A>> [] c = A -> <<B>>],
      [c \in Containers |-> CASE c = Page -> <<A>>    [] c = A -> <<B, F>> [] c = B -> Malformed],
      [c \in {Page}     |-> Malformed],
      [c \in Containers |-> CASE c = Page -> <<A>>    [] c = A -> <<B>> [] c = B -> <<F>>] }

MCFiles == HonestFiles \cup DishonestFiles

=============================================================================
