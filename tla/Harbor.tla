------------------------------- MODULE Harbor -------------------------------
(***************************************************************************)
(* The harbor services of a skynet cluster, service_harbor.c: one per      *)
(* node, each a sequential service that forwards the messages of its node  *)
(* to other nodes, by handle or by global name, over one connection per    *)
(* pair of nodes.  What cannot go out yet waits in the queue of a name or  *)
(* of a remote harbor.                                                     *)
(*                                                                         *)
(* The environment is the slave service of each node (in Lua), which opens *)
(* connections, hands them to the harbor with the commands S and A and     *)
(* tells it names with N, and the network, where a connection may break or *)
(* lead to the wrong node.  Nodes connect to nodes that joined later,      *)
(* which are the larger ones.  A frame arrives as a whole.  This leaves    *)
(* out STATUS_CONTENT, and one effect on a later connection: close_harbor  *)
(* does not reset s->read, so after a big message whose header came in     *)
(* pieces the next frames would be misread.  The reports that the harbor   *)
(* sends to its slave (D, Q) change nothing in the harbor; a closed socket *)
(* keeps its place in the table.                                           *)
(***************************************************************************)
EXTENDS Integers, Sequences, SequencesExt, FiniteSetsExt

CONSTANTS Nodes,        \* harbor ids
          Owner,        \* the node of the service that the global name stands for
          Senders,      \* bound: the nodes whose services send
          MaxConn,      \* bound: connections
          MaxSend       \* bound: messages

ASSUME HarborAssumption ==
    /\ Nodes \subseteq Nat \ {0} /\ Owner \in Nodes /\ Senders \subseteq Nodes
    /\ MaxConn \in Nat /\ MaxSend \in Nat

VARIABLES
    remote,     \* harbor.s: of two nodes, how the first one sees the second
    name,       \* harbor.map: of a node, what it knows of the global name
    conn,       \* the connections: who opened it, to reach whom, and who answered
    stream,     \* of a connection and an end of it: what is under way from there
    got,        \* of a node: the frames forwarded to its services
    errors,     \* messages whose source got PTYPE_ERROR instead
    sent,       \* messages that services handed to the harbor
    moved,      \* messages of a name queue that went to a harbor's queue
    early       \* messages of a name queue that went out during a handshake

linkVars  == <<conn, stream>>
ghostVars == <<moved, early>>
vars == <<remote, name, linkVars, got, errors, sent, ghostVars>>

Conns    == 1 .. MaxConn
Statuses == {"WAIT", "HANDSHAKE", "HEADER", "DOWN"}

(* A message knows where it belongs; a frame also whether the handle of    *)
(* the service is in the header's destination.                             *)
Frame(m, handle) == [m |-> m, handle |-> handle]
Handshake(n)     == [id |-> n]

Init ==
    /\ remote = [n \in Nodes |-> [p \in Nodes |-> [fd |-> 0, status |-> "WAIT", queue |-> <<>>]]]
    /\ name = [n \in Nodes |-> [known |-> FALSE, queue |-> <<>>]]
    /\ conn = <<>>
    /\ stream = [c \in Conns |-> [n \in Nodes |-> <<>>]]
    /\ got = [n \in Nodes |-> <<>>]
    /\ errors = {} /\ sent = {}
    /\ moved = {} /\ early = {}

-----------------------------------------------------------------------------
(* Out.                                                                    *)

push_queueInFront(q, f) == <<f>> \o q      \* mutation: the last one in is the first one out

push_queue(q, f) == Append(q, f)

WaitingUnconnected(s) == s.fd = 0          \* mutation: the id need not be checked

(* Nothing can be sent to the remote harbor yet.                           *)
Waiting(s) == s.fd = 0 \/ s.status = "HANDSHAKE"

(* send_remote: what is written to a broken connection is lost.            *)
send_remote(n, c, fs) ==
    IF conn[c].up THEN [stream EXCEPT ![c][n] = @ \o fs] ELSE stream

(* remote_send_handle: to the own node, to a harbor that is down, to one   *)
(* that is not connected or whose id is not checked yet, or over the       *)
(* connection.                                                             *)
remote_send_handle(n, p, m) ==
    LET s == remote[n][p]
    IN  \/ /\ p = n
           /\ got' = [got EXCEPT ![n] = Append(@, Frame(m, TRUE))]
           /\ UNCHANGED <<remote, stream, errors>>
        \/ /\ p # n /\ Waiting(s) /\ s.status = "DOWN"
           /\ errors' = errors \cup {m}
           /\ UNCHANGED <<remote, stream, got>>
        \/ /\ p # n /\ Waiting(s) /\ s.status # "DOWN"
           /\ remote' = [remote EXCEPT ![n][p].queue = push_queue(@, Frame(m, TRUE))]
           /\ UNCHANGED <<stream, got, errors>>
        \/ /\ p # n /\ ~Waiting(s)
           /\ stream' = send_remote(n, s.fd, <<Frame(m, TRUE)>>)
           /\ UNCHANGED <<remote, got, errors>>

(* A message that is new; a big one is longer than a header can say, and   *)
(* waited, which only the properties look at, says that its name was not   *)
(* known yet.                                                              *)
New(n, p, named) ==
    {[k |-> Cardinality(sent) + 1, from |-> n, to |-> p, named |-> named,
      waited |-> named /\ ~name[n].known, big |-> big] : big \in BOOLEAN}

(* skynet_harbor_send to a remote handle.                                  *)
SendHandle(n, p) ==
    /\ Cardinality(sent) < MaxSend /\ n # p
    /\ \E m \in New(n, p, FALSE) :
          /\ sent' = sent \cup {m}
          /\ remote_send_handle(n, p, m)
    /\ UNCHANGED <<name, conn, ghostVars>>

(* skynet_harbor_send to a global name, remote_send_name.                  *)
SendName(n) ==
    /\ Cardinality(sent) < MaxSend
    /\ \E m \in New(n, Owner, TRUE) :
          /\ sent' = sent \cup {m}
          /\ \/ /\ name[n].known
                /\ remote_send_handle(n, Owner, m)
                /\ UNCHANGED name
             \/ /\ ~name[n].known
                /\ name' = [name EXCEPT ![n].queue = push_queue(@, Frame(m, FALSE))]
                /\ UNCHANGED <<remote, stream, got, errors>>
    /\ UNCHANGED <<conn, ghostVars>>

Messages(fs) == {fs[k].m : k \in DOMAIN fs}

WithHandle(fs) == [k \in DOMAIN fs |-> Frame(fs[k].m, TRUE)]

(* dispatch_name_queue.  Only what goes straight to a connection, or to a  *)
(* service of the own node, gets the handle.                               *)
dispatch_name_queue(n) ==
    LET s == remote[n][Owner]
        q == name[n].queue
    IN  \/ /\ s.fd = 0 /\ s.status = "DOWN"
           /\ UNCHANGED <<remote, stream, got, ghostVars>>
        \/ /\ s.fd = 0 /\ s.status # "DOWN" /\ Owner # n
           /\ remote' = [remote EXCEPT ![n][Owner].queue = @ \o q]
           /\ moved' = moved \cup Messages(q)
           /\ UNCHANGED <<stream, got, early>>
        \/ /\ s.fd = 0 /\ s.status # "DOWN" /\ Owner = n
           /\ got' = [got EXCEPT ![n] = @ \o WithHandle(q)]
           /\ UNCHANGED <<remote, stream, ghostVars>>
        \/ /\ s.fd # 0
           /\ stream' = send_remote(n, s.fd, WithHandle(q))
           /\ early' = IF s.status = "HANDSHAKE" THEN early \cup Messages(q) ELSE early
           /\ UNCHANGED <<remote, got, moved>>

(* The command N, update_name.                                             *)
update_name(n) ==
    /\ name' = [name EXCEPT ![n] = [known |-> TRUE, queue |-> <<>>]]
    /\ IF name[n].queue = <<>> THEN UNCHANGED <<remote, stream, got, ghostVars>>
                               ELSE dispatch_name_queue(n)
    /\ UNCHANGED <<conn, errors, sent>>

-----------------------------------------------------------------------------
(* Connections.                                                            *)

(* The slave of n connects to q, taking it for p, and gives the connection *)
(* to the harbor with the command S, which sends its id and waits for the  *)
(* other one.  The command is refused while there is an fd.                *)
CommandS(n, p, q) ==
    LET c == Len(conn) + 1
    IN  /\ Len(conn) < MaxConn
        /\ n < p /\ q # n
        /\ remote[n][p].fd = 0
        /\ conn' = Append(conn, [from |-> n, for |-> p, to |-> q, up |-> TRUE])
        /\ stream' = [stream EXCEPT ![c][n] = <<Handshake(n)>>]
        /\ remote' = [remote EXCEPT ![n][p].fd = c, ![n][p].status = "HANDSHAKE"]
        /\ UNCHANGED <<name, got, errors, sent, ghostVars>>

AnswerUndispatched(q, n, c) ==   \* mutation: only the command S's end dispatches its queue
    /\ remote' = [remote EXCEPT ![q][n].fd = c, ![q][n].status = "HEADER"]
    /\ stream' = [send_remote(q, c, <<Handshake(q)>>) EXCEPT ![c][n] = Tail(@)]

(* The command A: the harbor sends its own id and dispatches the queue.    *)
Answer(q, n, c) ==
    /\ remote' = [remote EXCEPT ![q][n] = [fd |-> c, status |-> "HEADER", queue |-> <<>>]]
    /\ stream' = [send_remote(q, c, <<Handshake(q)>> \o remote[q][n].queue)
                     EXCEPT ![c][n] = Tail(@)]

(* The slave of the other end reads the id and gives the connection to its *)
(* harbor with the command A.  An fd that is there already stays.          *)
CommandA(c) ==
    LET n == conn[c].from
        q == conn[c].to
    IN  /\ stream[c][n] # <<>> /\ Head(stream[c][n]) = Handshake(n)
        /\ \/ /\ remote[q][n].fd = 0
              /\ Answer(q, n, c)
           \/ /\ remote[q][n].fd # 0
              /\ stream' = [stream EXCEPT ![c][n] = Tail(@)]
              /\ UNCHANGED remote
        /\ UNCHANGED <<name, conn, got, errors, sent, ghostVars>>

(* The network drops a connection, with what is under way on it.           *)
Break(c) ==
    /\ conn[c].up
    /\ conn' = [conn EXCEPT ![c].up = FALSE]
    /\ stream' = [stream EXCEPT ![c] = [n \in Nodes |-> <<>>]]
    /\ UNCHANGED <<remote, name, got, errors, sent, ghostVars>>

-----------------------------------------------------------------------------
(* In: push_socket_data, for the first frame that node n finds on c.       *)

Other(c, n) == IF conn[c].from = n THEN conn[c].to ELSE conn[c].from

Incoming(n, c) ==
    /\ n \in {conn[c].from, conn[c].to}
    /\ stream[c][Other(c, n)] # <<>>

Taken(n, c) == [stream EXCEPT ![c][Other(c, n)] = Tail(@)]

(* close_harbor: what n wrote still goes out, what comes in is not read.   *)
close_harbor(n, p) ==
    LET c == remote[n][p].fd
    IN  /\ remote' = [remote EXCEPT ![n][p] = [fd |-> 0, status |-> "DOWN", queue |-> <<>>]]
        /\ conn' = [conn EXCEPT ![c].up = FALSE]
        /\ stream' = [stream EXCEPT ![c][Other(c, n)] = <<>>]

CheckId(n, p) ==
    LET c == remote[n][p].fd
        f == Head(stream[c][Other(c, n)])
    IN  /\ remote[n][p].fd # 0 /\ remote[n][p].status = "HANDSHAKE"
        /\ Incoming(n, c)
        /\ \/ /\ f # Handshake(p)
              /\ close_harbor(n, p)
           \/ /\ f = Handshake(p)
              /\ remote' = [remote EXCEPT ![n][p].status = "HEADER", ![n][p].queue = <<>>]
              /\ stream' = IF conn[c].up THEN [Taken(n, c) EXCEPT ![c][n] = @ \o remote[n][p].queue]
                                         ELSE Taken(n, c)
              /\ UNCHANGED conn
        /\ UNCHANGED <<name, got, errors, sent, ghostVars>>

Receive(n, p) ==
    LET c == remote[n][p].fd
        f == Head(stream[c][Other(c, n)])
    IN  /\ remote[n][p].fd # 0 /\ remote[n][p].status = "HEADER"
        /\ Incoming(n, c)
        /\ \/ /\ f.m.big
              /\ close_harbor(n, p)
              /\ UNCHANGED got
           \/ /\ ~f.m.big
              /\ got' = [got EXCEPT ![n] = Append(@, f)]
              /\ stream' = Taken(n, c)
              /\ UNCHANGED <<remote, conn>>
        /\ UNCHANGED <<name, errors, sent, ghostVars>>

-----------------------------------------------------------------------------
Next ==
    \/ \E n \in Senders : SendName(n) \/ update_name(n) \/ \E p \in Nodes : SendHandle(n, p)
    \/ \E n, p \in Nodes : CheckId(n, p) \/ Receive(n, p)
    \/ \E n, p, q \in Nodes : CommandS(n, p, q)
    \/ \E c \in DOMAIN conn : CommandA(c) \/ Break(c)

Spec == Init /\ [][Next]_vars

-----------------------------------------------------------------------------
(* Properties.                                                             *)

Delivered(n) == {got[n][k].m : k \in DOMAIN got[n]}

(* The exceptions to the order of sending: a message that waits for its    *)
(* name is passed by those sent to a handle, and one that dispatch_name_   *)
(* queue sends out during the handshake passes those that are queued.      *)
MayPass(m, o) ==
    \/ ~m.named /\ o.named /\ o.waited
    \/ m.named /\ ~o.named /\ m \in early

(* Messages of one node to one node arrive in the order in which they were *)
(* sent, and none arrives twice, however they were sent and wherever they  *)
(* waited: for a name, for a connection or for a handshake.  Messages sent *)
(* in the same way, by handle or by name, never pass each other.           *)
InOrder ==
    \A n \in Nodes : \A a, b \in DOMAIN got[n] :
       LET m == got[n][a].m
           o == got[n][b].m
       IN  /\ a # b => m # o
           /\ a < b /\ m.from = o.from /\ m.to = o.to /\ ~MayPass(m, o) => m.k < o.k

(* A message reaches the node and the service it was sent to, except in    *)
(* two cases.  Sent by name before the name was known: if the harbor was   *)
(* not connected when the name came, it arrives without the handle; if the *)
(* connection was still in the handshake, it goes out before the id of the *)
(* other end is checked.                                                   *)
RightDestination ==
    \A n \in Nodes : \A k \in DOMAIN got[n] :
       LET f == got[n][k]
       IN  /\ f.m.to = n \/ f.m \in early
           /\ f.handle <=> f.m \notin moved

(* While a harbor waits for the id of the other end, nothing but its own   *)
(* id is on the connection: service_harbor.c:9 puts "recv a id (check it)" *)
(* before "at last send queue".  remote_send_handle keeps to it,           *)
(* dispatch_name_queue looks at the descriptor only.                       *)
CheckedBeforeSent ==
    \A n, p \in Nodes :
       LET s == remote[n][p]
       IN  s.fd # 0 /\ s.status = "HANDSHAKE"
              => \A k \in DOMAIN stream[s.fd][n] : stream[s.fd][n][k] = Handshake(n)

(* The link from n to p has had a failure: it broke, a handshake failed or *)
(* a big message closed it.                                                *)
Failed(n, p) ==
    \E c \in DOMAIN conn :
       /\ ~conn[c].up
       /\ \/ conn[c].from = n /\ p \in {conn[c].for, conn[c].to}
          \/ conn[c].to = n /\ conn[c].from = p

(* While there was no failure, a message is delivered or it waits for      *)
(* something that is still to come: for its name, for a connection, for    *)
(* the end of the handshake, or for the reader.                            *)
NothingStranded ==
    \A m \in sent :
       LET n == m.from
           p == m.to
           s == remote[n][p]
       IN  \/ Failed(n, p)
           \/ m \in UNION {Delivered(i) : i \in Nodes}
           \/ ~name[n].known /\ m \in Messages(name[n].queue)
           \/ (s.fd = 0 \/ s.status = "HANDSHAKE") /\ m \in Messages(s.queue)
           \/ s.fd # 0 /\ \E k \in DOMAIN stream[s.fd][n] :
                             "m" \in DOMAIN stream[s.fd][n][k] /\ stream[s.fd][n][k].m = m
=============================================================================
