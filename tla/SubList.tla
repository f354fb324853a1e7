------------------------------- MODULE SubList -------------------------------
(***************************************************************************)
(* What the checker threads of publishers and subscribers do once their    *)
(* control panel runs: a publisher uploads the names of its file           *)
(* (SubListUploader.cpp), the controller unites them, a subscriber asks    *)
(* for the list (SubListDownloader.cpp).  A user chooses from that list,   *)
(* and both sides choose rendezvous routers for a name (Subscriber.cpp,    *)
(* Publisher.cpp) by the FIB their own control panel has made.             *)
(*                                                                         *)
(* A downloader waits for a reply without limit and takes any message for  *)
(* one.                                                                    *)
(***************************************************************************)
EXTENDS Registration, ContentName

CONSTANTS
  First,    \* the names in the file of a publisher at first
  Name,     \* ... and those that may be in it
  MaxLink   \* bound: messages from a node to the controller at a time

\* The names of rendezvous routers and of contents have their ids.
ASSUME SubListAssumption ==
  /\ \A r \in RoleIDs : r.role = "RRot" => r.id \in DOMAIN RotID
  /\ First \cup Name \subseteq DOMAIN NameID

VARIABLES
  file,       \* CDList.txt of each publisher
  allSubList, \* m_allSubList of the controller
  subList,    \* m_subList of each data panel
  waiting     \* subscribers whose downloader waits for a reply

lists == <<file, allSubList, subList, waiting>>
vars == <<rvars, lists>>

Init ==
  /\ RInit
  /\ file = [n \in Node |-> IF RoleOf[n] = "Pub" THEN First ELSE {}]
  /\ allSubList = {}
  /\ subList = [n \in Node |-> {}]
  /\ waiting = {}

-----------------------------------------------------------------------------
Runs(n, role) == pc[n] = "run" /\ RoleOf[n] = role

Send(n, m) ==
  /\ Len(toCtl[n]) < MaxLink
  /\ toCtl' = [toCtl EXCEPT ![n] = Append(@, m)]

\* Somebody adds a name to the file of a publisher.  An edit before the
\* publisher runs would only be another First.
EditFile(p, x) ==
  /\ Runs(p, "Pub") /\ x \notin file[p]
  /\ file' = [file EXCEPT ![p] = @ \cup {x}]
  /\ UNCHANGED <<rvars, allSubList, subList, waiting>>

\* A list that was uploaded once is kept.
UploadOnce(p) ==
  /\ Runs(p, "Pub") /\ subList[p] = {}
  /\ subList' = [subList EXCEPT ![p] = SubListOf(file[p])]
  /\ Send(p, [type |-> "SubListUpload", names |-> SubListOf(file[p])])
  /\ UNCHANGED <<controller, toNode, panels, faults, file, allSubList, waiting>>

\* SubListUploader::check
Upload(p) ==
  /\ Runs(p, "Pub")
  /\ subList' = [subList EXCEPT ![p] = SubListOf(file[p])]
  /\ Send(p, [type |-> "SubListUpload", names |-> SubListOf(file[p])])
  /\ UNCHANGED <<controller, toNode, panels, faults, file, allSubList, waiting>>

\* The set_union is the list of all.
HandleSubListUpload(p) ==
  /\ toCtl[p] # <<>> /\ Head(toCtl[p]).type = "SubListUpload"
  /\ toCtl' = [toCtl EXCEPT ![p] = Tail(@)]
  /\ allSubList' = allSubList \cup Head(toCtl[p]).names
  /\ UNCHANGED <<controller, toNode, panels, faults, file, subList, waiting>>

\* SubListDownloader::check, up to the request.
Request(s) ==
  /\ Runs(s, "Sub") /\ s \notin waiting
  /\ waiting' = waiting \cup {s}
  /\ Send(s, [type |-> "SubListRequest"])
  /\ UNCHANGED <<controller, toNode, panels, faults, file, allSubList, subList>>

HandleSubListRequest(s) ==
  /\ toCtl[s] # <<>> /\ Head(toCtl[s]).type = "SubListRequest"
  /\ toCtl' = [toCtl EXCEPT ![s] = Tail(@)]
  /\ toNode' = [toNode EXCEPT ![s] =
                  Append(@, [type |-> "SubListDownload", names |-> allSubList])]
  /\ UNCHANGED <<controller, panels, faults, lists>>

\* ... and from the reply on: setSubList of whatever has come.
SetSubList(s) ==
  /\ s \in waiting /\ toNode[s] # <<>>
  /\ toNode' = [toNode EXCEPT ![s] = Tail(@)]
  /\ waiting' = waiting \ {s}
  /\ subList' = [subList EXCEPT ![s] = Read(s, "SubListDownload", Head(toNode[s]).names)]
  /\ UNCHANGED <<controller, toCtl, panels, faults, file, allSubList>>

-----------------------------------------------------------------------------
Control == RNext /\ UNCHANGED lists

Next ==
  \/ Control
  \/ \E n \in Node :
       \/ \E x \in Name : EditFile(n, x)
       \/ Upload(n) \/ HandleSubListUpload(n)
       \/ Request(n) \/ HandleSubListRequest(n) \/ SetSubList(n)

Spec == Init /\ [][Next]_vars

\* The controller takes what waits for it, a control panel what it has got,
\* and the checker threads check again and again.  No node has to be
\* started, no file to be edited and no fault to happen.
NodeFairness(n) ==
  /\ WF_vars(HandleRegist(n) /\ UNCHANGED lists)
  /\ WF_vars(PanelStep(n) /\ UNCHANGED lists)

PubFairness(p) == WF_vars(Upload(p)) /\ WF_vars(HandleSubListUpload(p))
SubFairness(s) ==
  WF_vars(Request(s)) /\ WF_vars(HandleSubListRequest(s)) /\ WF_vars(SetSubList(s))

FairSpec ==
  /\ Spec
  /\ \A n \in Node : NodeFairness(n)
  /\ \A p \in {n \in Node : RoleOf[n] = "Pub"} : PubFairness(p)
  /\ \A s \in {n \in Node : RoleOf[n] = "Sub"} : SubFairness(s)

-----------------------------------------------------------------------------
(* Properties *)

\* A name in the file of a publisher gets to every subscriber once both run,
\* although uploads may be lost and a downloader takes the reply to an earlier
\* request for that to its own; only a downloader whose request or reply was
\* lost waits for ever (SubListUploader.cpp:152, SubListDownloader.cpp:87).
NamesArrive ==
  \A p, s \in Node : RoleOf[p] = "Pub" /\ RoleOf[s] = "Sub" =>
    \A x \in Name :
      (Runs(p, "Pub") /\ Runs(s, "Sub") /\ x \in file[p])
        ~> ({p, s} \cap harmed # {} \/ x \in subList[s])

\* getRRotSet of the data panel of n
RRotSet(n) == {r.id : r \in DOMAIN fib[n]}

\* Every name has a rendezvous router of a weight that is not zero, and no
\* rendezvous router is out of reach of a node.
SomeWeight ==
  \A c \in DOMAIN NameID : \E r \in RoleIDs : r.role = "RRot" /\ Weight(c, r.id) > 0
InReach == \A x, r \in RoleIDs : r.role = "RRot" => Far[x][r] < MAXHOP

\* A publication goes to the rendezvous router of every subscription it
\* matches, although each side chooses by the tables its own control panel
\* got, and both have a face that leads there (Publisher.cpp:159,
\* Subscriber.cpp:45, Function.cpp:85).
RendezvousAgree ==
  \A p, s \in Node \ harmed : Runs(p, "Pub") /\ Runs(s, "Sub") =>
    \A x \in subList[p] : \A c \in subList[s] \cap Prexfixs(x) :
      LET i == HRW(c, RRotSet(s))
      IN  /\ i \in Rendezvous(x, RRotSet(p))
          /\ \A n \in {p, s} : \E r \in DOMAIN fib[n] : r.id = i /\ fib[n][r] # {}

=============================================================================
