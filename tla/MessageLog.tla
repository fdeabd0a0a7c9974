----------------------------- MODULE MessageLog -----------------------------
(***************************************************************************)
(* What the chat of a server promises, without tasks, queues, crashes or   *)
(* a database: a log that only grows, one message to an id, and readers    *)
(* that learn of logged messages only, in channels they were let into.     *)
(***************************************************************************)
CONSTANTS Reader, Channel, Message

VARIABLES
  log,              \* the messages that count as sent
  rights,           \* <<reader, channel>> pairs that were ever allowed
  known             \* what each reader has been told

Init ==
  /\ log = {}
  /\ rights \in SUBSET (Reader \X Channel)
  /\ known = [r \in Reader |-> {}]

Post(m) ==
  /\ \A n \in log : n.id # m.id
  /\ log' = log \cup {m}
  /\ UNCHANGED <<rights, known>>

Allow(r, ch) ==
  /\ rights' = rights \cup {<<r, ch>>}
  /\ UNCHANGED <<log, known>>

Learn(r, ms) ==
  /\ \A m \in ms : <<r, m.channel>> \in rights
  /\ known' = [known EXCEPT ![r] = @ \cup ms]
  /\ UNCHANGED <<log, rights>>

Next ==
  \/ \E m \in log' : m \in Message /\ Post(m)
  \/ \E r \in Reader, ch \in Channel : Allow(r, ch)
  \/ \E r \in Reader, ms \in SUBSET log : Learn(r, ms)

Spec == Init /\ [][Next]_<<log, rights, known>>
=============================================================================
