----------------------------- MODULE ValueStore -----------------------------
(***************************************************************************)
(* What the users of shared vectors are promised, with nothing said about  *)
(* shared memory, names, duplicates or collectors.  A variable has a value *)
(* of its own, which only an assignment to that variable changes, or it    *)
(* belongs to a group (copy on write switched off), whose contents all its *)
(* members see and change, in every session.  Values travel in messages; a *)
(* reader may come too late and get nothing.                               *)
(*                                                                         *)
(* SharedVector implements this specification (ValuesAsPromised there).    *)
(***************************************************************************)
EXTENDS Integers, Sequences

CONSTANTS
  Sessions, Vars,
  Home,        \* the session a variable belongs to
  Groups,      \* groups of variables that share their contents
  Elements,    \* the values of an element
  Indices,     \* bound: the elements that are assigned
  Selections,  \* bound: the index vectors that are used
  Initial,     \* the vector every variable starts with
  Nothing

VARIABLES
  value,   \* by variable: <<"own", vector>>, <<"common", group>>
  common,  \* the contents of the groups
  post     \* the value in transit, of the same form

store == <<value, common, post>>

Own(data) == <<"own", data>>
Common(g) == <<"common", g>>

StoreInit ==
  /\ value = [v \in Vars |-> Own(Initial)]
  /\ common = [g \in Groups |-> Nothing]
  /\ post = Nothing

Contents(x) == IF x[1] = "own" THEN x[2] ELSE common[x[2]]
Picked(data, sel) == [i \in DOMAIN sel |-> data[sel[i]]]

(* One variable changes at most. *)
Only(v) ==
  DOMAIN value' = Vars /\ \A u \in Vars \ {v} : value'[u] = value[u]
Set(v, x) == value'[v] = x

Members(g) == {v \in Vars : value[v] = Common(g)}
Inhabited(g) == Members(g) # {} \/ post = Common(g)

(* Groups have the given contents as long as somebody belongs to them. *)
GroupsHold(contents) ==
  common' = [g \in Groups |-> IF Inhabited(g)' THEN contents[g] ELSE Nothing]

(* v becomes a value of its own, or the first member of a new group. *)
Fresh(v, data) ==
  /\ \/ Set(v, Own(data)) /\ GroupsHold(common)
     \/ \E g \in Groups :
          /\ Set(v, Common(g))
          /\ ~Inhabited(g)
          /\ GroupsHold([common EXCEPT ![g] = data])
  /\ post' = post

(* y <- x, and share, unshare or duplicate, which keep the value. *)
Assign(v, w) ==
  /\ value[w] # Nothing
  /\ \/ Set(v, value[w]) /\ GroupsHold(common) /\ post' = post
     \/ Fresh(v, Contents(value[w]))

(* x[i] <- e: a value of its own changes for one variable, a group for all *)
(* its members.                                                            *)
WriteElement(v, i, e) ==
  /\ value[v] # Nothing
  /\ LET x == value[v]
         changed == [Contents(x) EXCEPT ![i] = e]
     IN /\ i \in DOMAIN Contents(x)
        /\ IF x[1] = "own"
           THEN Set(v, Own(changed)) /\ GroupsHold(common)
           ELSE Set(v, x) /\ GroupsHold([common EXCEPT ![x[2]] = changed])
  /\ post' = post

(* y <- x[sel] *)
Select(v, w, sel) ==
  /\ value[w] # Nothing
  /\ \A i \in DOMAIN sel : sel[i] \in DOMAIN Contents(value[w])
  /\ Fresh(v, Picked(Contents(value[w]), sel))

(* A message carries the value, or, if the memory is about to go, the      *)
(* contents it has now.                                                    *)
Send(v) ==
  /\ value[v] # Nothing
  /\ Set(v, value[v])
  /\ post' \in {value[v], Own(Contents(value[v]))}
  /\ GroupsHold(common)

(* A message can be read any number of times, or too late. *)
Receive(v) ==
  /\ post # Nothing
  /\ Set(v, post) \/ Set(v, Nothing)
  /\ post' = post
  /\ GroupsHold(common)

(* rm(x), or a new vector for x *)
Reset(v) ==
  /\ Set(v, Nothing) \/ Set(v, Own(Initial))
  /\ post' = post
  /\ GroupsHold(common)

StoreNext ==
  \E v \in Vars :
     /\ Only(v)
     /\ \/ \E w \in Vars :
             /\ Home[v] = Home[w]
             /\ Assign(v, w) \/ \E sel \in Selections : Select(v, w, sel)
        \/ Reset(v) \/ Receive(v) \/ Send(v)
        \/ \E i \in Indices, e \in Elements : WriteElement(v, i, e)

StoreSpec == StoreInit /\ [][StoreNext]_store

=============================================================================
