------------------------------ MODULE StateJson ------------------------------
(***************************************************************************)
(* The two state files as JSON: how a server's state becomes a tree of     *)
(* texts (ptree, utils.hpp and the ptree_from functions of                 *)
(* server_main.cpp), and how the state is made from the tree again at the  *)
(* next start.  StateFiles says when files are written and read; this      *)
(* module, which is all operators, why it may take the content of a state  *)
(* file for the state that was saved.                                      *)
(***************************************************************************)
EXTENDS Integers, Sequences, FiniteSets, SequencesExt

CONSTANTS
  N_MACHINES,  \* number of servers (messages.h)
  Counts,      \* bound: values of knowledge and the other counters
  Users,       \* bound: owners of inboxes, strings
  Mails,       \* bound: mails, records as in InboxEntry with the identifier
  MaxInbox     \* bound: mails in an inbox

Server == 0 .. N_MACHINES - 1

Identifiers == [origin : Server, index : Nat]

ASSUME JsonAssumption ==
  /\ N_MACHINES \in Nat \ {0}
  /\ Counts \subseteq Nat
  /\ Users \subseteq STRING /\ IsFiniteSet(Users)
  /\ Mails \subseteq [id : Identifiers, date_sent : Nat, message : STRING, read : BOOLEAN]
  /\ IsFiniteSet(Mails)
  /\ MaxInbox \in Nat

-----------------------------------------------------------------------------
(* Trees.  A node has a text and children, each under a key.               *)
Leaf(text) == [text |-> text, kids |-> <<>>]

Node(kids) == [text |-> "", kids |-> kids]

Array(n, Elem(_)) == Node([i \in 1 .. n |-> <<"", Elem(i)>>])

GetChild(tree, key) ==
  (CHOOSE kid \in Range(tree.kids) : kid[1] = key)[2]

Elements(tree) == [i \in DOMAIN tree.kids |-> tree.kids[i][2]]

(* put() writes a value as text, get_value() finds the value again among   *)
(* those of its type.                                                      *)
Put(value) == Leaf(ToString(value))

GetValue(type, tree) == CHOOSE value \in type : ToString(value) = tree.text

Numbers == Counts \cup Server \cup {m.id.index : m \in Mails} \cup {m.date_sent : m \in Mails}

(* Different values have different texts, as put() formats them.            *)
ASSUME TextAssumption ==
  /\ \A a, b \in Numbers : ToString(a) = ToString(b) => a = b
  /\ ToString(TRUE) # ToString(FALSE)

GetNumber(tree) == GetValue(Numbers, tree)

(* generate_1d_ptree, generate_2d_ptree, and back: C++ counts from 0.      *)
Generate1d(array) == Array(N_MACHINES, LAMBDA i : Put(array[i - 1]))

Generate2d(array) == Array(N_MACHINES, LAMBDA i : Generate1d(array[i - 1]))

Read1d(tree) == [s \in Server |-> GetNumber(Elements(tree)[s + 1])]

Read2d(tree) == [s \in Server |-> Read1d(Elements(tree)[s + 1])]

-----------------------------------------------------------------------------
(* The state, in trees.                                                    *)
PtreeFromIdentifier(id) == Node(<< <<"origin", Put(id.origin)>>, <<"index", Put(id.index)>> >>)

IdentifierFromPtree(tree) ==
  [origin |-> GetNumber(GetChild(tree, "origin")), index |-> GetNumber(GetChild(tree, "index"))]

(* Who wrote what to whom: texts, taken together here.                     *)
PtreeFromInboxMessage(mail) ==
  Node(<< <<"read", Put(mail.read)>>, <<"id", PtreeFromIdentifier(mail.id)>>,
          <<"date_sent", Put(mail.date_sent)>>, <<"message", Leaf(mail.message)>> >>)

\* A defect the runs must notice: the mark of a mail that was read is not restored.
UnreadFromPtree(tree) ==
  [id |-> IdentifierFromPtree(GetChild(tree, "id")), date_sent |-> GetNumber(GetChild(tree, "date_sent")),
   message |-> GetChild(tree, "message").text, read |-> FALSE]

InboxMessageFromPtree(tree) ==
  [id |-> IdentifierFromPtree(GetChild(tree, "id")), date_sent |-> GetNumber(GetChild(tree, "date_sent")),
   message |-> GetChild(tree, "message").text, read |-> GetValue(BOOLEAN, GetChild(tree, "read"))]

(* A multiset in its order, and back: each mail goes behind those of its   *)
(* second.                                                                 *)
PtreeFromInbox(inbox) == Array(Len(inbox), LAMBDA i : PtreeFromInboxMessage(inbox[i]))

NotLater(inbox, date) == Cardinality({i \in DOMAIN inbox : inbox[i].date_sent <= date})

Insert(inbox, mail) == InsertAt(inbox, NotLater(inbox, mail.date_sent) + 1, mail)

GetInboxListFromPtree(tree) ==
  LET inserted[i \in 0 .. Len(tree.kids)] ==
        IF i = 0 THEN <<>>
        ELSE Insert(inserted[i - 1], InboxMessageFromPtree(Elements(tree)[i]))
  IN  inserted[Len(tree.kids)]

(* The map of inboxes, in the order the map happens to have.               *)
WriteInboxesToPtree(inboxes) ==
  LET owners == SetToSeq(DOMAIN inboxes) IN
  Node([i \in DOMAIN owners |-> <<owners[i], PtreeFromInbox(inboxes[owners[i]])>>])

ExtractInboxes(tree) ==
  [user \in {kid[1] : kid \in Range(tree.kids)} |-> GetInboxListFromPtree(GetChild(tree, user))]

(* write_pending_read_to_ptree, write_pending_delete_to_ptree, and         *)
(* rehydrate_set_from_ptree.                                               *)
WritePending(ids) ==
  LET order == SetToSeq(ids) IN Array(Len(order), LAMBDA i : PtreeFromIdentifier(order[i]))

RehydrateSet(tree) == {IdentifierFromPtree(elem) : elem \in Range(Elements(tree))}

-----------------------------------------------------------------------------
(* write_inbox_state, write_log_state.                                     *)
InboxStateTree(st) ==
  Node(<< <<"knowledge", Generate2d(st.knowledge)>>,
          <<"applied_to_state", Generate1d(st.applied_to_state)>>,
          <<"pending_delete", WritePending(st.pending_delete)>>,
          <<"pending_read", WritePending(st.pending_read)>>,
          <<"inboxes", WriteInboxesToPtree(st.inboxes)>> >>)

LogStateTree(st) == Node(<< <<"safe_delivered", Generate1d(st.safe_delivered)>> >>)

(* read_inbox_state, read_log_state.                                       *)
StateOf(inbox_state, log_state) ==
  [knowledge |-> Read2d(GetChild(inbox_state, "knowledge")),
   applied_to_state |-> Read1d(GetChild(inbox_state, "applied_to_state")),
   pending_delete |-> RehydrateSet(GetChild(inbox_state, "pending_delete")),
   pending_read |-> RehydrateSet(GetChild(inbox_state, "pending_read")),
   inboxes |-> ExtractInboxes(GetChild(inbox_state, "inboxes")),
   safe_delivered |-> Read1d(GetChild(log_state, "safe_delivered"))]

-----------------------------------------------------------------------------
(* The states of a server, within the bounds: inboxes of some users, with  *)
(* mails in their order, perhaps none.                                     *)
Counters == [Server -> Counts]

InOrder(inbox) == \A i, j \in DOMAIN inbox : i <= j => inbox[i].date_sent <= inbox[j].date_sent

Inboxes == {inbox \in BoundedSeq(Mails, MaxInbox) : IsInjective(inbox) /\ InOrder(inbox)}

ServerStates ==
  [knowledge : [Server -> Counters], applied_to_state : Counters, safe_delivered : Counters,
   pending_read : SUBSET {m.id : m \in Mails}, pending_delete : SUBSET {m.id : m \in Mails},
   inboxes : UNION {[owners -> Inboxes] : owners \in SUBSET Users}]

(* Every one of them comes back from its trees.                            *)
TreesKeepStates == \A st \in ServerStates : StateOf(InboxStateTree(st), LogStateTree(st)) = st
=============================================================================
