------------------------------ MODULE TenantPool ------------------------------
(* The pool of database connections and the requests that share it. A server   *)
(* action or a route first looks its session up (one statement), then runs its *)
(* body inside withTenant, one transaction on a connection of its own. The     *)
(* body of a project admin's action checks the access again, and that check    *)
(* looks the session up again, on a second connection, while the transaction   *)
(* holds the first. Nothing in the code keeps such actions fewer than the      *)
(* connections.                                                                *)
EXTENDS Naturals, Sequences

CONSTANTS
  Conns,   \* the connections of the pool (pg.Pool, ten unless configured)
  Nested,  \* actions whose body calls requireProjectAdmin
  Plain,   \* the other requests in a tenant transaction
  Idle     \* the holder of a free connection

Users == Nested \cup Plain
ASSUME PoolAssumption == Nested \cap Plain = {} /\ Idle \notin Users

VARIABLES
  holder,  \* Conns -> who has the connection
  queue,   \* who waits for a connection, first come first served
  at,      \* Users -> where the request is
  outcome  \* Users -> how its transaction ended
poolVars == <<holder, queue, at, outcome>>

Waits == {"lookup", "begin", "recheck"}
Places == Waits \cup {"new", "look", "body", "checking", "work", "done"}
PoolTypeOK ==
  /\ holder \in [Conns -> Users \cup {Idle}]
  /\ queue \in Seq(Users)
  /\ at \in [Users -> Places]
  /\ outcome \in [Users -> {"none", "committed", "rolledback"}]

PoolInit ==
  /\ holder = [c \in Conns |-> Idle] /\ queue = <<>>
  /\ at = [u \in Users |-> "new"] /\ outcome = [u \in Users |-> "none"]

\* pg.Pool hands out a free connection or puts the request at the end of its
\* queue; it never gives up.
Ask(u, place) ==
  /\ at' = [at EXCEPT ![u] = place]
  /\ queue' = Append(queue, u)
  /\ UNCHANGED <<holder, outcome>>
Granted(place) == CASE place = "lookup" -> "look"
                    [] place = "begin" -> "body"
                    [] place = "recheck" -> "checking"
Grant(c) ==
  /\ holder[c] = Idle /\ queue # <<>>
  /\ holder' = [holder EXCEPT ![c] = Head(queue)]
  /\ at' = [at EXCEPT ![Head(queue)] = Granted(at[Head(queue)])]
  /\ queue' = Tail(queue)
  /\ UNCHANGED outcome

\* getAppContext and requireApiWorkspace, before there is a transaction.
LookUpSession(u) == at[u] = "new" /\ Ask(u, "lookup")
GotSession(u) ==
  /\ at[u] = "look"
  /\ holder' = [c \in Conns |-> IF holder[c] = u THEN Idle ELSE holder[c]]
  /\ at' = [at EXCEPT ![u] = "begin"] /\ queue' = Append(queue, u)
  /\ UNCHANGED outcome

\* The body of withTenant; requireProjectAdmin is its first step.
Recheck(u) == at[u] = "body" /\ u \in Nested /\ Ask(u, "recheck")
\* mutant: the access check keeps the connection it was given.
CheckedKeeping(u, c) ==
  /\ at[u] = "checking" /\ holder[c] = u
  /\ at' = [at EXCEPT ![u] = "recheck"] /\ queue' = Append(queue, u)
  /\ UNCHANGED <<holder, outcome>>
Checked(u, c) ==
  /\ at[u] = "checking" /\ holder[c] = u
  /\ holder' = [holder EXCEPT ![c] = Idle]
  /\ at' = [at EXCEPT ![u] = "work"]
  /\ UNCHANGED <<queue, outcome>>

\* redirect() throws; withTenant commits for it, and rolls back for any other
\* error. Either way the connection goes back to the pool.
Finish(u) ==
  /\ at[u] = "work" \/ (at[u] = "body" /\ u \notin Nested)
  /\ \E ending \in {"return", "redirect", "throw"} :
       outcome' = [outcome EXCEPT ![u] = IF ending = "throw" THEN "rolledback" ELSE "committed"]
  /\ holder' = [c \in Conns |-> IF holder[c] = u THEN Idle ELSE holder[c]]
  /\ at' = [at EXCEPT ![u] = "done"]
  /\ UNCHANGED queue

PoolStep(u) == \/ GotSession(u) \/ Recheck(u) \/ Finish(u)
               \/ \E c \in Conns : Checked(u, c)
PoolNext == \/ \E u \in Users : LookUpSession(u) \/ PoolStep(u)
            \/ \E c \in Conns : Grant(c)
PoolSpec == PoolInit /\ [][PoolNext]_poolVars
\* A statement is answered, a body ends, and the pool serves its queue.
FairPool == WF_poolVars((\E u \in Users : PoolStep(u)) \/ \E c \in Conns : Grant(c))

-----------------------------------------------------------------------------
(* Properties                                                                  *)

\* The jam: every connection is the transaction of an admin's action whose access
\* check waits for one more, and each is another action's.
Jammed ==
  /\ \A c \in Conns : holder[c] \in Nested /\ at[holder[c]] = "recheck"
  /\ \A c, d \in Conns : holder[c] = holder[d] => c = d

\* The jam is the only one: when somebody waits, a connection is free, or it is
\* held by a request that waits for nothing and will give it back, or as many
\* admins' actions as there are connections check their access at once.
OnlyAdminsJam ==
  queue # <<>> => \/ \E c \in Conns : holder[c] = Idle \/ at[holder[c]] \notin Waits
                  \/ Jammed

\* The jam is for good: no step of a request or of the pool leads out of it, and
\* pg.Pool sets no time limit on a waiting request.
JamIsForGood == [][Jammed => Jammed']_poolVars

\* Requests that asked for a connection are served and end, all of them, unless
\* the pool jams on the access checks of as many actions as it has connections:
\* again and again there is none left that waits or holds a connection.
RequestsServed == []<>(Jammed \/ \A u \in Users : at[u] \in {"new", "done"})
=============================================================================
