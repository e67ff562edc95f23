---------------------------- MODULE SubscriberProofs ---------------------------
(***************************************************************************)
(* A subscriber stays in client_socket_map while it and the publisher      *)
(* live.  The names publish_event() collects are of subscribers that ended,*)
(* and still are when it erases them: an entry is not replaced while it is *)
(* there.  advertise_event(), which empties the entries of its topic,      *)
(* finds none, because a process that has a topic in pub_list_ owns it at  *)
(* the master or was forgotten, and is granted nothing then.               *)
(***************************************************************************)
EXTENDS DataPlaneProofs

USE DEF linkVars, directoryVars, participantVars, publisherVars, pollVars,
        eventVars, methodVars

Owns(p, t) == publisher[t] = p \/ ~Heard(p)

OnWalk(p) == walk[p].left \cup walk[p].dead \cup ({walk[p].at} \ {None})

(* What the application's thread of p does with topic t.                   *)
Grants(p, t) == app[p].op = "advertise" /\ app[p].arg = t
Walks(p, t) == app[p].op \in {"walk", "erase"} /\ app[p].arg = t

TopicAt(p, t) ==
    /\ t \in pub_list[p] \/ Grants(p, t) => Owns(p, t)
    /\ Grants(p, t) => t \notin pub_list[p]
    /\ \A n \in Name : client_map[p][t][n] # NoLink => t \in pub_list[p]
    /\ Walks(p, t) =>
          /\ \A n \in OnWalk(p) : client_map[p][t][n] # NoLink
          /\ \A n \in walk[p].dead : near[client_map[p][t][n]] # "open"

PublisherAt(p) ==
    /\ \A t \in Topic : TopicAt(p, t)
    /\ proc[p] = "absent" => pub_list[p] = {} /\ app[p] = AtRest

EndAt(l) == near[l] # "open" => stage[l] # "unused" /\ proc[link[l].from] = "ended"

ListInv == (\A p \in Proc : PublisherAt(p)) /\ \A l \in Link : EndAt(l)

(* Nobody who lives is taken off the lists of a process that lives.        *)
Stays == \A p \in Proc : \A l \in Listed(p) :
             Up(link[l].from) /\ Up(p)' => l \in Listed(p)'

Good == ListInv' /\ Stays

(* The same ends of the links are open, and no link is unmade.             *)
SameEnds ==
    /\ \A l \in Link : near'[l] = "open" <=> near[l] = "open"
    /\ \A l \in Link : stage[l] # "unused" => stage'[l] # "unused"

(* Nothing happens to the publisher q.                                     *)
Rests(q) ==
    /\ pub_list'[q] = pub_list[q] /\ client_map'[q] = client_map[q]
    /\ walk'[q] = walk[q] /\ app'[q] = app[q]

(* Nor does a step take away what it owns.                                 *)
KeepsTopics(q) == \A t \in Topic : Owns(q, t) => Owns(q, t)'

(* What is listed is a link.                                               *)
LEMMA ListedEntry ==
    ASSUME TypeInv, NEW p \in Proc, NEW l
    PROVE  l \in Listed(p) <=> /\ l \in Link
                               /\ \E t \in Topic, n \in Name : client_map[p][t][n] = l
  BY DEF Listed, TypeInv, TypeOK, EventTypeOK, Link, NoLink

(* A publisher to which nothing happens is right about its subscribers.    *)
LEMMA RestsKeep ==
    ASSUME TypeInv, ListInv, NEW q \in Proc, Rests(q), KeepsTopics(q),
           \A l \in Link : near[l] # "open" => near'[l] # "open",
           proc'[q] = "absent" => proc[q] = "absent"
    PROVE  PublisherAt(q)' /\ Listed(q)' = Listed(q)
<1>1. PublisherAt(q) /\ walk[q] \in Walk
      /\ client_map[q] \in [Topic -> [Name -> Link \cup {NoLink}]]
  BY DEF ListInv, TypeInv, TypeOK, EventTypeOK
<1>2. ASSUME NEW t \in Topic PROVE TopicAt(q, t)'
  <2>1. TopicAt(q, t) /\ (Owns(q, t) => Owns(q, t)')
    BY <1>1 DEF PublisherAt, KeepsTopics
  <2>2. Grants(q, t)' = Grants(q, t) /\ Walks(q, t)' = Walks(q, t) /\ OnWalk(q)' = OnWalk(q)
    BY DEF Rests, Grants, Walks, OnWalk
  <2>3. ASSUME Walks(q, t), NEW n \in walk[q].dead
        PROVE  near'[client_map[q][t][n]] # "open"
    <3>1. n \in Name /\ n \in OnWalk(q)
      BY <1>1, <2>3 DEF Walk, OnWalk
    <3>2. client_map[q][t][n] \in Link /\ near[client_map[q][t][n]] # "open"
      BY <1>1, <2>1, <2>3, <3>1 DEF TopicAt
    <3>. QED
      BY <3>2
  <2>. QED
    BY <2>1, <2>2, <2>3 DEF TopicAt, Rests
<1>3. proc'[q] = "absent" => pub_list'[q] = {} /\ app'[q] = AtRest
  BY <1>1 DEF PublisherAt, Rests
<1>. QED
  BY <1>2, <1>3 DEF PublisherAt, Listed, Rests

(* The ends of the links.                                                  *)
LEMMA EndsKeep ==
    ASSUME ListInv, SameEnds, UNCHANGED link,
           \A q \in Proc : proc[q] = "ended" => proc'[q] = "ended", TypeInv
    PROVE  \A l \in Link : EndAt(l)'
<1>. SUFFICES ASSUME NEW l \in Link, near'[l] # "open"
              PROVE  stage'[l] # "unused" /\ proc'[link'[l].from] = "ended"
  BY DEF EndAt
<1>1. stage[l] # "unused" /\ proc[link[l].from] = "ended" /\ stage'[l] # "unused"
  BY DEF ListInv, EndAt, SameEnds
<1>2. link[l].from \in Proc
  BY <1>1 DEF TypeInv, TypeOK, ParticipantTypeOK, LinksTypeOK
<1>. QED
  BY <1>1, <1>2

(* A step of whoever does not publish.                                     *)
LEMMA QuietGood ==
    ASSUME TypeInv, ListInv, SameEnds,
           UNCHANGED <<directoryVars, proc, app, link, pub_list, client_map, walk>>
    PROVE  Good
<1>1. \A q \in Proc : PublisherAt(q)'
  <2>1. ASSUME NEW q \in Proc PROVE PublisherAt(q)'
    <3>1. Rests(q) /\ KeepsTopics(q)
      BY DEF Rests, KeepsTopics, Owns, Heard, Master!Members
    <3>. QED
      BY <3>1, RestsKeep DEF SameEnds
  <2>. QED
    BY <2>1
<1>2. Stays
  BY DEF Stays, Listed
<1>. QED
  BY <1>1, <1>2, EndsKeep DEF Good, ListInv

(* A step of the application's thread or of the listening thread of p.     *)
LEMMA ThreadGood ==
    ASSUME TypeInv, ListInv, SameEnds, UNCHANGED <<proc, link>>, NEW p \in Proc,
           \A q \in Proc : KeepsTopics(q), \A q \in Proc : q # p => Rests(q),
           \A t \in Topic : TopicAt(p, t)', proc[p] # "absent",
           \A l \in Listed(p) : Up(link[l].from) => l \in Listed(p)'
    PROVE  Good
<1>1. ASSUME NEW q \in Proc, q # p PROVE PublisherAt(q)' /\ Listed(q)' = Listed(q)
  BY <1>1, RestsKeep DEF SameEnds
<1>2. PublisherAt(p)'
  BY DEF PublisherAt
<1>3. Stays
  BY <1>1 DEF Stays
<1>. QED
  BY <1>1, <1>2, <1>3, EndsKeep DEF Good, ListInv

-------------------------------------------------------------------------------
(* What the steps do to the ends of the links.                             *)

(* No link is touched.                                                     *)
LEMMA SameLinksEnds ==
    ASSUME UNCHANGED <<stage, near>>
    PROVE  SameEnds
  BY DEF SameEnds

(* A write does not close a link; it may find that one was closed.         *)
LEMMA WriteEnds ==
    ASSUME TypeInv, NEW l, NEW chunk, Write(l, chunk), UNCHANGED stage
    PROVE  SameEnds
<1>1. near \in [Link -> {"open", "closed", "reset", "broken"}]
  BY DEF TypeInv, TypeOK, ParticipantTypeOK, LinksTypeOK
<1>2. ASSUME NEW m \in Link PROVE near'[m] = "open" <=> near[m] = "open"
  BY <1>1 DEF Write
<1>. QED
  BY <1>2 DEF SameEnds

(* A client that goes on closes nothing.                                   *)
LEMMA AdvanceEnds ==
    ASSUME TypeInv, NEW l, NEW s \in Stage \ {"unused"}, Advance(l, s), UNCHANGED near
    PROVE  SameEnds
<1>1. stage \in [Link -> Stage] /\ stage' = [stage EXCEPT ![l] = s]
  BY DEF TypeInv, TypeOK, ParticipantTypeOK, LinksTypeOK, Advance
<1>2. ASSUME NEW m \in Link, stage[m] # "unused" PROVE stage'[m] # "unused"
  BY <1>1, <1>2
<1>. QED
  BY <1>2 DEF SameEnds

(* A link is made, and its ends are open.                                  *)
LEMMA AskGood ==
    ASSUME TypeInv, ListInv, NEW p, NEW by, NEW type, NEW arg, NEW owner,
           Ask(p, by, type, arg, owner),
           UNCHANGED <<directoryVars, proc, app, pub_list, client_map, walk>>
    PROVE  Good
<1>1. /\ link \in [Link -> LinkInfo] /\ stage \in [Link -> Stage]
      /\ Fresh \in Link /\ stage[Fresh] = "unused" /\ near' = near
  BY FreshUnused DEF Ask, TypeInv, TypeOK, ParticipantTypeOK, LinksTypeOK
<1>2. PICK f \in Link : f = Fresh
  BY <1>1
<1>3. stage' = [stage EXCEPT ![f] = "connect"]
      /\ \A m \in Link : m # f => link'[m] = link[m]
  BY <1>1, <1>2 DEF Ask, Advance
<1>4. near[f] = "open"
  BY <1>1, <1>2 DEF ListInv, EndAt
<1>5. ASSUME NEW m \in Link PROVE EndAt(m)'
  <2>1. CASE m = f
    BY <1>1, <1>4, <2>1 DEF EndAt
  <2>2. CASE m # f
    <3>1. EndAt(m) /\ stage'[m] = stage[m] /\ link'[m] = link[m]
      BY <1>1, <1>3, <2>2 DEF ListInv
    <3>. QED
      BY <1>1, <3>1 DEF EndAt
  <2>. QED
    BY <2>1, <2>2
<1>6. ASSUME NEW q \in Proc PROVE PublisherAt(q)' /\ Listed(q)' = Listed(q)
  <2>1. Rests(q) /\ KeepsTopics(q)
    BY DEF Rests, KeepsTopics, Owns, Heard, Master!Members
  <2>. QED
    BY <1>1, <2>1, RestsKeep
<1>. QED
  BY <1>5, <1>6 DEF Good, ListInv, Stays

-------------------------------------------------------------------------------
(* Joining, being forgotten, and ending.                                   *)

(* A process that joins has no topics.                                     *)
LEMMA JoinGood ==
    ASSUME TypeInv, ListInv, NEW p \in Proc, Join(p), UNCHANGED eventVars
    PROVE  Good
<1>0. proc \in [Proc -> {"absent", "up", "ended"}] /\ member \in [Name -> Proc \cup {None}]
  BY DEF TypeInv, TypeOK, ParticipantTypeOK
<1>1. /\ proc[p] = "absent" /\ proc' = [proc EXCEPT ![p] = "up"]
      /\ member' = [member EXCEPT ![NameOf[p]] = p] /\ member[NameOf[p]] = None
      /\ UNCHANGED <<linkVars, app, publisher, eventVars>>
  BY DEF Join, Master!Join
<1>2. pub_list[p] = {} /\ app[p] = AtRest /\ PublisherAt(p)
  BY <1>1 DEF ListInv, PublisherAt
<1>3. ASSUME NEW q \in Proc, q # p PROVE PublisherAt(q)'
  <2>1. Heard(q)' => Heard(q)
    BY <1>0, <1>1, <1>3 DEF Heard, Master!Members
  <2>2. KeepsTopics(q) /\ Rests(q)
    BY <1>1, <2>1 DEF KeepsTopics, Owns, Rests
  <2>3. proc'[q] = proc[q]
    BY <1>0, <1>1, <1>3
  <2>. QED
    BY <1>1, <2>2, <2>3, RestsKeep
<1>4. PublisherAt(p)'
  <2>1. ASSUME NEW t \in Topic PROVE TopicAt(p, t)'
    <3>1. TopicAt(p, t)
      BY <1>2 DEF PublisherAt
    <3>2. pub_list'[p] = {} /\ app'[p].op = "idle" /\ client_map' = client_map
      BY <1>1, <1>2 DEF AtRest
    <3>. QED
      BY <1>2, <3>1, <3>2 DEF TopicAt, Grants, Walks
  <2>2. proc'[p] = "up"
    BY <1>0, <1>1
  <2>. QED
    BY <2>1, <2>2 DEF PublisherAt
<1>5. \A l \in Link : EndAt(l)'
  <2>1. \A q \in Proc : proc[q] = "ended" => proc'[q] = "ended"
    BY <1>0, <1>1
  <2>. QED
    BY <1>1, <2>1, SameLinksEnds, EndsKeep
<1>6. Stays
  BY <1>1 DEF Stays, Listed
<1>. QED
  BY <1>3, <1>4, <1>5, <1>6 DEF Good, ListInv

(* A process that is forgotten loses what it owns, and is not heard any    *)
(* more.                                                                   *)
LEMMA ForgetGood ==
    ASSUME TypeInv, ListInv, NEW p \in Proc, Forget(p), UNCHANGED eventVars
    PROVE  Good
<1>0. /\ member \in [Name -> Proc \cup {None}]
      /\ publisher \in [Topic -> Proc \cup {None}]
  BY DEF TypeInv, TypeOK, ParticipantTypeOK
<1>1. /\ member' = Master!Without(member, p) /\ publisher' = Master!Without(publisher, p)
      /\ UNCHANGED <<linkVars, proc, app, eventVars>>
  BY DEF Forget, Master!Leave
<1>2. ASSUME NEW q \in Proc PROVE KeepsTopics(q)
  <2>1. CASE q = p
    <3>1. ~Heard(q)'
      BY <1>0, <1>1, <2>1, LinkConstants DEF Heard, Master!Members, Master!Without
    <3>. QED
      BY <3>1 DEF KeepsTopics, Owns
  <2>2. CASE q # p
    <3>1. Heard(q)' => Heard(q)
      BY <1>0, <1>1, <2>2, LinkConstants DEF Heard, Master!Members, Master!Without
    <3>2. \A t \in Topic : publisher[t] = q => publisher'[t] = q
      BY <1>0, <1>1, <2>2 DEF Master!Without
    <3>. QED
      BY <3>1, <3>2 DEF KeepsTopics, Owns
  <2>. QED
    BY <2>1, <2>2
<1>3. ASSUME NEW q \in Proc PROVE PublisherAt(q)'
  <2>1. Rests(q)
    BY <1>1 DEF Rests
  <2>. QED
    BY <1>1, <1>2, <2>1, RestsKeep
<1>4. Stays
  BY <1>1 DEF Stays, Listed
<1>. QED
  BY <1>1, <1>3, <1>4, SameLinksEnds, EndsKeep DEF Good, ListInv

(* The links of a process that ends are closed, and its lists are gone.    *)
LEMMA EndGood ==
    ASSUME TypeInv, ListInv, NEW p \in Proc, End(p)
    PROVE  Good
<1>0. /\ proc \in [Proc -> {"absent", "up", "ended"}] /\ app \in [Proc -> Activity]
      /\ client_map \in [Proc -> [Topic -> [Name -> Link \cup {NoLink}]]]
      /\ walk \in [Proc -> Walk] /\ pub_list \in [Proc -> SUBSET Topic]
  BY DEF TypeInv, TypeOK, ParticipantTypeOK, EventTypeOK
<1>1. /\ proc' = [proc EXCEPT ![p] = "ended"] /\ app' = [app EXCEPT ![p] = AtRest]
      /\ pub_list' = [pub_list EXCEPT ![p] = {}] /\ walk' = [walk EXCEPT ![p] = NoWalk]
      /\ client_map' = [client_map EXCEPT ![p] = [t \in Topic |-> Unlisted]]
      /\ UNCHANGED directoryVars
  BY DEF End, EndParticipant, EndEvents
<1>2. PICK un, half : EndLinks(p, un, half)
  BY DEF End, EndParticipant
<1>3. link' = link
      /\ \A l \in Link :
            /\ stage'[l] = IF link[l].from = p THEN "ended" ELSE stage[l]
            /\ near[l] # "open" => near'[l] # "open"
            /\ link[l].from # p => near'[l] = near[l]
  BY <1>2 DEF EndLinks
<1>4. ASSUME NEW q \in Proc, q # p PROVE PublisherAt(q)' /\ Listed(q)' = Listed(q)
  <2>1. Rests(q) /\ proc'[q] = proc[q]
    BY <1>0, <1>1, <1>4 DEF Rests
  <2>2. KeepsTopics(q)
    BY <1>1 DEF KeepsTopics, Owns, Heard, Master!Members
  <2>. QED
    BY <1>3, <2>1, <2>2, RestsKeep
<1>5. PublisherAt(p)'
  <2>1. /\ pub_list'[p] = {} /\ app'[p].op = "idle" /\ proc'[p] = "ended"
        /\ \A t \in Topic : client_map'[p][t] = Unlisted
    BY <1>0, <1>1 DEF AtRest
  <2>2. ASSUME NEW t \in Topic PROVE TopicAt(p, t)'
    BY <2>1 DEF TopicAt, Grants, Walks, Unlisted
  <2>. QED
    BY <2>1, <2>2 DEF PublisherAt
<1>6. ASSUME NEW l \in Link PROVE EndAt(l)'
  <2>1. link[l].from = p => proc'[p] = "ended" /\ stage'[l] = "ended"
    BY <1>0, <1>1, <1>3
  <2>2. EndAt(l) /\ (stage[l] # "unused" => link[l].from \in Proc)
    BY DEF ListInv, TypeInv, TypeOK, ParticipantTypeOK, LinksTypeOK
  <2>3. \A q \in Proc : q # p => proc'[q] = proc[q]
    BY <1>0, <1>1
  <2>. QED
    BY <1>3, <2>1, <2>2, <2>3 DEF EndAt
<1>7. Stays
  BY <1>0, <1>1, <1>4 DEF Stays, Up
<1>. QED
  BY <1>4, <1>5, <1>6, <1>7 DEF Good, ListInv

-------------------------------------------------------------------------------
(* The application's thread.                                               *)

(* It does what is neither advertising nor walking.                        *)
LEMMA AsideGood ==
    ASSUME TypeInv, ListInv, UNCHANGED <<linkVars, member, publisher, proc>>,
           UNCHANGED <<pub_list, client_map, walk>>, NEW p \in Proc, Up(p),
           \A q \in Proc : q # p => app'[q] = app[q],
           app'[p].op \notin {"advertise", "walk", "erase"}
    PROVE  Good
<1>1. \A q \in Proc : KeepsTopics(q)
  BY DEF KeepsTopics, Owns, Heard, Master!Members
<1>2. \A q \in Proc : q # p => Rests(q)
  BY DEF Rests
<1>3. ASSUME NEW t \in Topic PROVE TopicAt(p, t)'
  BY <1>1 DEF ListInv, PublisherAt, TopicAt, Grants, Walks, KeepsTopics
<1>4. \A l \in Listed(p) : Up(link[l].from) => l \in Listed(p)'
  BY DEF Listed
<1>. QED
  BY <1>1, <1>2, <1>3, <1>4, SameLinksEnds, ThreadGood DEF Up

(* What the master grants was free, so that p did not have it.             *)
LEMMA AdvertiseGood ==
    ASSUME TypeInv, ListInv, NEW p \in Proc, NEW u \in Topic, Advertise(p, u)
    PROVE  Good
<1>0. app \in [Proc -> Activity] /\ publisher \in [Topic -> Proc \cup {None}]
      /\ PublisherAt(p) /\ Up(p)
  BY DEF TypeInv, TypeOK, ParticipantTypeOK, ListInv, Advertise, Starts, Idle
<1>1. /\ Heard(p) /\ publisher[u] = None /\ publisher' = [publisher EXCEPT ![u] = p]
      /\ app' = [app EXCEPT ![p] = [op |-> "advertise", arg |-> u]]
      /\ UNCHANGED <<linkVars, proc, member, eventVars>>
  BY DEF Advertise, Master!Publish, Heard
<1>2. ASSUME NEW q \in Proc PROVE KeepsTopics(q)
  <2>1. \A t \in Topic : publisher[t] = q => publisher'[t] = q
    BY <1>0, <1>1, LinkConstants
  <2>. QED
    BY <1>1, <2>1 DEF KeepsTopics, Owns, Heard, Master!Members
<1>3. \A q \in Proc : q # p => Rests(q)
  BY <1>0, <1>1 DEF Rests
<1>4. ASSUME NEW t \in Topic PROVE TopicAt(p, t)'
  <2>1. TopicAt(p, t) /\ app'[p].op = "advertise" /\ app'[p].arg = u
    BY <1>0, <1>1 DEF PublisherAt
  <2>2. t = u => t \notin pub_list[p]
    BY <1>1, <2>1, LinkConstants DEF TopicAt, Owns
  <2>3. t = u => publisher'[t] = p
    BY <1>0, <1>1
  <2>. QED
    BY <1>1, <1>2, <2>1, <2>2, <2>3 DEF TopicAt, Grants, Walks, Owns, KeepsTopics
<1>5. \A l \in Listed(p) : Up(link[l].from) => l \in Listed(p)'
  BY <1>1 DEF Listed
<1>. QED
  BY <1>0, <1>1, <1>2, <1>3, <1>4, <1>5, SameLinksEnds, ThreadGood DEF Up

(* There is nothing to empty.                                              *)
LEMMA AdvertisedGood ==
    ASSUME TypeInv, ListInv, NEW p \in Proc, Advertised(p)
    PROVE  Good
<1>. DEFINE u == app[p].arg
<1>0. /\ app \in [Proc -> Activity] /\ pub_list \in [Proc -> SUBSET Topic]
      /\ client_map \in [Proc -> [Topic -> [Name -> Link \cup {NoLink}]]]
      /\ PublisherAt(p) /\ Up(p) /\ u \in Topic
  BY DEF TypeInv, TypeOK, ParticipantTypeOK, EventTypeOK, ListInv, Advertised,
         ThreadsAt, AppAt
<1>1. /\ pub_list' = [pub_list EXCEPT ![p] = @ \cup {u}]
      /\ client_map' = [client_map EXCEPT ![p][u] = Unlisted]
      /\ app' = [app EXCEPT ![p] = AtRest] /\ Grants(p, u)
      /\ UNCHANGED <<linkVars, directoryVars, proc, walk>>
  BY DEF Advertised, Grants
<1>. HIDE DEF u
<1>2. ASSUME NEW n \in Name PROVE client_map[p][u][n] = NoLink
  BY <1>0, <1>1 DEF PublisherAt, TopicAt
<1>3. client_map[p][u] = Unlisted
  BY <1>0, <1>2 DEF Unlisted
<1>4. client_map' = client_map
  BY <1>0, <1>1, <1>3
<1>5. \A q \in Proc : KeepsTopics(q)
  BY <1>1 DEF KeepsTopics, Owns, Heard, Master!Members
<1>6. \A q \in Proc : q # p => Rests(q)
  BY <1>0, <1>1 DEF Rests
<1>7. ASSUME NEW t \in Topic PROVE TopicAt(p, t)'
  <2>1. TopicAt(p, t) /\ app'[p].op = "idle" /\ pub_list'[p] = pub_list[p] \cup {u}
    BY <1>0, <1>1 DEF PublisherAt, AtRest
  <2>2. t \in pub_list'[p] => Owns(p, t)
    BY <1>1, <2>1 DEF TopicAt
  <2>. QED
    BY <1>4, <1>5, <2>1, <2>2 DEF TopicAt, Grants, Walks, KeepsTopics
<1>8. \A l \in Listed(p) : Up(link[l].from) => l \in Listed(p)'
  BY <1>4 DEF Listed
<1>. QED
  BY <1>0, <1>1, <1>5, <1>6, <1>7, <1>8, SameLinksEnds, ThreadGood DEF Up

(* It begins, goes on with or ends the loop over the subscribers of u.     *)
LEMMA WalkGood ==
    ASSUME TypeInv, ListInv, SameEnds, UNCHANGED <<link, directoryVars, proc>>,
           UNCHANGED <<pub_list, client_map>>, NEW p \in Proc, Up(p),
           \A q \in Proc : q # p => app'[q] = app[q] /\ walk'[q] = walk[q],
           app'[p].op # "advertise", NEW u \in Topic, Walks(p, u)',
           \A n \in OnWalk(p)' : client_map[p][u][n] # NoLink,
           \A n \in walk'[p].dead : near'[client_map[p][u][n]] # "open"
    PROVE  Good
<1>1. \A q \in Proc : KeepsTopics(q)
  BY DEF KeepsTopics, Owns, Heard, Master!Members
<1>2. \A q \in Proc : q # p => Rests(q)
  BY DEF Rests
<1>3. ASSUME NEW t \in Topic PROVE TopicAt(p, t)'
  <2>1. TopicAt(p, t) /\ ~Grants(p, t)'
    BY DEF ListInv, PublisherAt, Grants
  <2>2. Walks(p, t)' => t = u
    BY DEF Walks
  <2>. QED
    BY <1>1, <2>1, <2>2 DEF TopicAt, KeepsTopics
<1>4. \A l \in Listed(p) : Up(link[l].from) => l \in Listed(p)'
  BY DEF Listed
<1>. QED
  BY <1>1, <1>2, <1>3, <1>4, ThreadGood DEF Up

(* publish_event() begins with the subscribers it finds.                   *)
LEMMA PublishGood ==
    ASSUME TypeInv, ListInv, NEW p \in Proc, NEW u \in Topic, Publish(p, u)
    PROVE  Good
<1>0. app \in [Proc -> Activity] /\ walk \in [Proc -> Walk] /\ Up(p) /\ app[p] = AtRest
  BY DEF TypeInv, TypeOK, ParticipantTypeOK, EventTypeOK, Publish, Starts, Idle
<1>1. UNCHANGED <<linkVars, directoryVars, proc, pub_list, client_map>>
  BY DEF Publish
<1>2. CASE UNCHANGED <<app, walk>>
  BY <1>0, <1>1, <1>2, AsideGood DEF AtRest
<1>3. CASE /\ app' = [app EXCEPT ![p] = [op |-> "walk", arg |-> u]]
           /\ walk' = [walk EXCEPT ![p] = [NoWalk EXCEPT !.left = Subscribers(p, u)]]
  <2>1. /\ app'[p] = [op |-> "walk", arg |-> u]
        /\ walk'[p] = [NoWalk EXCEPT !.left = Subscribers(p, u)]
        /\ \A q \in Proc : q # p => app'[q] = app[q] /\ walk'[q] = walk[q]
    BY <1>0, <1>3
  <2>2. walk'[p].dead = {} /\ OnWalk(p)' = Subscribers(p, u)
    BY <2>1 DEF NoWalk, OnWalk
  <2>3. \A n \in OnWalk(p)' : client_map[p][u][n] # NoLink
    BY <2>2 DEF Subscribers
  <2>4. Walks(p, u)' /\ app'[p].op # "advertise"
    BY <2>1 DEF Walks
  <2>. QED
    BY <1>0, <1>1, <2>1, <2>2, <2>3, <2>4, SameLinksEnds, WalkGood
<1>. QED
  BY <1>2, <1>3 DEF Publish

(* Dead is who was found to have ended.                                    *)
LEMMA EventWriteGood ==
    ASSUME TypeInv, ListInv, NEW p \in Proc,
           (\E n \in Name : EventHeader(p, n)) \/ EventBody(p)
    PROVE  Good
<1>0. PICK u \in Topic :
         /\ u = app[p].arg /\ Walks(p, u) /\ app[p].op # "advertise" /\ Up(p)
         /\ walk \in [Proc -> Walk]
         /\ client_map \in [Proc -> [Topic -> [Name -> Link \cup {NoLink}]]]
  BY DEF TypeInv, TypeOK, EventTypeOK, EventHeader, EventBody, Walking, Walks, ThreadsAt,
         AppAt
<1>1. UNCHANGED <<link, stage, directoryVars, proc, app, pub_list, client_map>>
  BY DEF EventHeader, EventBody
<1>2. TopicAt(p, u)
  BY <1>0 DEF ListInv, PublisherAt
<1>3. PICK n \in OnWalk(p) :
         /\ n \in Name
         /\ \E chunk : Write(client_map[p][u][n], chunk)
         /\ walk'[p].left \subseteq walk[p].left
         /\ walk'[p].at \in {n, None}
         /\ walk'[p].dead = DeadAfter(p, client_map[p][u][n], n)
         /\ \A q \in Proc : q # p => walk'[q] = walk[q]
  <2>1. ASSUME NEW n \in Name, EventHeader(p, n)
        PROVE  /\ n \in OnWalk(p)
               /\ \E chunk : Write(client_map[p][u][n], chunk)
               /\ walk'[p].left \subseteq walk[p].left
               /\ walk'[p].at \in {n, None}
               /\ walk'[p].dead = DeadAfter(p, client_map[p][u][n], n)
               /\ \A q \in Proc : q # p => walk'[q] = walk[q]
    BY <1>0, <2>1 DEF EventHeader, OnWalk
  <2>2. ASSUME EventBody(p)
        PROVE  LET n == walk[p].at
               IN  /\ n \in OnWalk(p) /\ n \in Name
                   /\ \E chunk : Write(client_map[p][u][n], chunk)
                   /\ walk'[p].left \subseteq walk[p].left
                   /\ walk'[p].at \in {n, None}
                   /\ walk'[p].dead = DeadAfter(p, client_map[p][u][n], n)
                   /\ \A q \in Proc : q # p => walk'[q] = walk[q]
    <3>1. walk[p].at # None /\ walk[p].at \in Name \cup {None}
      BY <1>0, <2>2 DEF EventBody, Walk
    <3>. QED
      BY <1>0, <2>2, <3>1 DEF EventBody, OnWalk
  <2>. QED
    BY <2>1, <2>2
<1>4. SameEnds
  BY <1>1, <1>3, WriteEnds
<1>5. OnWalk(p)' \subseteq OnWalk(p)
  BY <1>3 DEF OnWalk, DeadAfter
<1>6. \A k \in OnWalk(p) : k \in Name /\ client_map[p][u][k] \in Link
  <2>1. \A k \in OnWalk(p) : client_map[p][u][k] # NoLink
    BY <1>0, <1>2 DEF TopicAt
  <2>2. OnWalk(p) \subseteq Name
    BY <1>0 DEF OnWalk, Walk
  <2>. QED
    BY <1>0, <2>1, <2>2
<1>7. ASSUME NEW k \in walk'[p].dead PROVE near'[client_map[p][u][k]] # "open"
  <2>1. k \in OnWalk(p)
    BY <1>3, <1>7 DEF DeadAfter, OnWalk
  <2>2. near[client_map[p][u][k]] # "open"
    BY <1>0, <1>2, <1>3, <1>7 DEF DeadAfter, BrokenPipe, TopicAt
  <2>. QED
    BY <1>4, <1>6, <2>1, <2>2 DEF SameEnds
<1>8. \A k \in OnWalk(p)' : client_map[p][u][k] # NoLink
  BY <1>5, <1>6 DEF Link, NoLink
<1>9. Walks(p, u)' /\ app'[p].op # "advertise"
  BY <1>0, <1>1 DEF Walks
<1>. QED
  BY <1>0, <1>1, <1>3, <1>4, <1>7, <1>8, <1>9, WalkGood

(* The loop ends, and the dead are erased next if there are any.           *)
LEMMA WalkEndsGood ==
    ASSUME TypeInv, ListInv, NEW p \in Proc, WalkEnds(p)
    PROVE  Good
<1>0. PICK u \in Topic :
         /\ u = app[p].arg /\ Up(p) /\ Walks(p, u) /\ app[p] \in Activity
         /\ app \in [Proc -> Activity] /\ TopicAt(p, u)
  BY DEF TypeInv, TypeOK, ParticipantTypeOK, ThreadsAt, AppAt, ListInv, PublisherAt,
         WalkEnds, Walking, Walks
<1>1. UNCHANGED <<linkVars, directoryVars, proc, pub_list, client_map, walk>>
      /\ \A q \in Proc : q # p => app'[q] = app[q]
  BY <1>0 DEF WalkEnds
<1>2. CASE walk[p].dead = {}
  <2>1. app'[p] = AtRest
    BY <1>0, <1>2 DEF WalkEnds
  <2>. QED
    BY <1>0, <1>1, <2>1, AsideGood DEF AtRest
<1>3. CASE walk[p].dead # {}
  <2>1. app'[p].op = "erase" /\ app'[p].arg = u
    BY <1>0, <1>3 DEF WalkEnds, Activity
  <2>2. Walks(p, u)' /\ OnWalk(p)' = OnWalk(p)
    BY <1>1, <2>1 DEF Walks, OnWalk
  <2>. QED
    BY <1>0, <1>1, <2>1, <2>2, SameLinksEnds, WalkGood DEF TopicAt
<1>. QED
  BY <1>2, <1>3

(* Only the entries of the dead are erased.                                *)
LEMMA EraseGood ==
    ASSUME TypeInv, ListInv, NEW p \in Proc, EraseDead(p)
    PROVE  Good
<1>0. PICK u \in Topic :
         /\ u = app[p].arg /\ Up(p) /\ Walks(p, u) /\ TopicAt(p, u)
         /\ app \in [Proc -> Activity] /\ walk \in [Proc -> Walk]
         /\ client_map \in [Proc -> [Topic -> [Name -> Link \cup {NoLink}]]]
  BY DEF TypeInv, TypeOK, ParticipantTypeOK, EventTypeOK, ThreadsAt, AppAt, ListInv,
         PublisherAt, EraseDead, Walks
<1>1. /\ client_map' = [client_map EXCEPT ![p][u] =
                          [n \in Name |-> IF n \in walk[p].dead THEN NoLink ELSE @[n]]]
      /\ app' = [app EXCEPT ![p] = AtRest] /\ walk' = [walk EXCEPT ![p] = NoWalk]
      /\ UNCHANGED <<linkVars, directoryVars, proc, pub_list>>
  BY <1>0 DEF EraseDead
<1>2. ASSUME NEW t \in Topic, NEW n \in Name
      PROVE  client_map'[p][t][n] = IF t = u /\ n \in walk[p].dead THEN NoLink
                                    ELSE client_map[p][t][n]
  BY <1>0, <1>1
<1>3. \A q \in Proc : KeepsTopics(q)
  BY <1>1 DEF KeepsTopics, Owns, Heard, Master!Members
<1>4. \A q \in Proc : q # p => Rests(q)
  BY <1>0, <1>1 DEF Rests
<1>5. ASSUME NEW t \in Topic PROVE TopicAt(p, t)'
  <2>1. TopicAt(p, t) /\ app'[p].op = "idle"
    BY <1>0, <1>1 DEF ListInv, PublisherAt, AtRest
  <2>. QED
    BY <1>1, <1>2, <1>3, <2>1 DEF TopicAt, Grants, Walks, KeepsTopics
<1>6. ASSUME NEW l \in Listed(p), Up(link[l].from) PROVE l \in Listed(p)'
  <2>1. PICK t \in Topic, n \in Name : client_map[p][t][n] = l
    BY DEF Listed
  <2>2. l \in Link
    BY ListedEntry
  <2>3. near[l] = "open"
    BY <1>6, <2>2 DEF ListInv, EndAt, Up
  <2>4. ~(t = u /\ n \in walk[p].dead)
    BY <1>0, <2>1, <2>3 DEF TopicAt
  <2>5. client_map'[p][t][n] = l /\ l # NoLink
    BY <1>2, <2>1, <2>2, <2>4 DEF Link, NoLink
  <2>. QED
    BY <2>5 DEF Listed
<1>. QED
  BY <1>0, <1>1, <1>3, <1>4, <1>5, <1>6, SameLinksEnds, ThreadGood DEF Up

-------------------------------------------------------------------------------
(* The listening thread adds an entry where there is none.                 *)

(* An entry is made where none is, so that no dead name gets a new link.   *)
LEMMA EnlistGood ==
    ASSUME TypeInv, ListInv, SameEnds, NEW p \in Proc, Up(p),
           UNCHANGED <<link, directoryVars, proc, app, pub_list>>,
           NEW u \in pub_list[p], NEW n \in Name, NEW l \in Link,
           client_map[p][u][n] = NoLink, Enlist(p, u, n, l),
           \A q \in Proc : q # p => walk'[q] = walk[q]
    PROVE  Good
<1>0. /\ walk \in [Proc -> Walk] /\ u \in Topic
      /\ client_map \in [Proc -> [Topic -> [Name -> Link \cup {NoLink}]]]
  BY DEF TypeInv, TypeOK, EventTypeOK
<1>1. CASE UNCHANGED <<client_map, walk>>
  BY <1>1, QuietGood
<1>2. CASE /\ client_map' = [client_map EXCEPT ![p][u][n] = l]
           /\ \/ walk' = walk
              \/ /\ app[p] = [op |-> "walk", arg |-> u]
                 /\ walk' = [walk EXCEPT ![p].left = @ \cup {n}]
  <2>1. \A q \in Proc : KeepsTopics(q)
    BY DEF KeepsTopics, Owns, Heard, Master!Members
  <2>2. \A q \in Proc : q # p => Rests(q)
    BY <1>0, <1>2 DEF Rests
  <2>. DEFINE row == [client_map[p][u] EXCEPT ![n] = l]
  <2>3. client_map'[p] = [client_map[p] EXCEPT ![u] = row]
    BY <1>0, <1>2
  <2>4. /\ \A t \in Topic : t # u => client_map'[p][t] = client_map[p][t]
        /\ client_map'[p][u] = row
    BY <1>0, <2>3
  <2>5. \A k \in Name : client_map'[p][u][k] = IF k = n THEN l ELSE client_map[p][u][k]
    BY <1>0, <2>4
  <2>. HIDE DEF row
  <2>6. /\ walk'[p].dead = walk[p].dead /\ OnWalk(p)' \subseteq OnWalk(p) \cup {n}
        /\ OnWalk(p) \subseteq Name /\ walk[p].dead \subseteq OnWalk(p)
        /\ \A t \in Topic : t # u /\ Walks(p, t) => OnWalk(p)' = OnWalk(p)
    BY <1>0, <1>2 DEF OnWalk, Walk, Walks
  <2>7. ASSUME NEW t \in Topic PROVE TopicAt(p, t)'
    <3>1. TopicAt(p, t) /\ Walks(p, t)' = Walks(p, t) /\ Grants(p, t)' = Grants(p, t)
      BY DEF ListInv, PublisherAt, Walks, Grants
    <3>2. CASE t # u
      <4>1. client_map'[p][t] = client_map[p][t]
        BY <2>4, <3>2
      <4>2. ASSUME Walks(p, t)
            PROVE  /\ \A k \in OnWalk(p)' : client_map'[p][t][k] # NoLink
                   /\ \A k \in walk'[p].dead : near'[client_map'[p][t][k]] # "open"
        <5>1. \A k \in OnWalk(p) : client_map[p][t][k] \in Link
          BY <1>0, <2>6, <3>1, <4>2 DEF TopicAt
        <5>2. OnWalk(p)' = OnWalk(p)
          BY <2>6, <3>2, <4>2
        <5>3. \A k \in walk[p].dead : near[client_map[p][t][k]] # "open"
          BY <3>1, <4>2 DEF TopicAt
        <5>. QED
          BY <2>6, <4>1, <5>1, <5>2, <5>3 DEF SameEnds, Link, NoLink
      <4>. QED
        BY <2>1, <3>1, <4>1, <4>2 DEF TopicAt, KeepsTopics
    <3>3. CASE t = u
      <4>1. ASSUME Walks(p, u)
            PROVE  /\ \A k \in OnWalk(p)' : client_map'[p][u][k] # NoLink
                   /\ \A k \in walk'[p].dead : near'[client_map'[p][u][k]] # "open"
        <5>1. \A k \in OnWalk(p) : client_map[p][u][k] \in Link /\ k # n
          BY <1>0, <2>6, <3>1, <3>3, <4>1 DEF TopicAt
        <5>2. \A k \in OnWalk(p)' : client_map'[p][u][k] # NoLink
          BY <2>5, <2>6, <5>1 DEF Link, NoLink
        <5>3. \A k \in walk[p].dead : near[client_map[p][u][k]] # "open"
          BY <3>1, <3>3, <4>1 DEF TopicAt
        <5>4. \A k \in walk[p].dead : client_map'[p][u][k] = client_map[p][u][k]
          BY <2>5, <2>6, <5>1
        <5>. QED
          BY <2>6, <5>1, <5>2, <5>3, <5>4 DEF SameEnds
      <4>2. \A k \in Name : client_map'[p][u][k] # NoLink => u \in pub_list[p]
        OBVIOUS
      <4>. QED
        BY <2>1, <3>1, <3>3, <4>1, <4>2 DEF TopicAt, KeepsTopics
    <3>. QED
      BY <3>2, <3>3
  <2>8. ASSUME NEW m \in Listed(p) PROVE m \in Listed(p)'
    <3>1. m \in Link /\ \E t \in Topic, k \in Name : client_map[p][t][k] = m
      BY ListedEntry
    <3>2. PICK t \in Topic, k \in Name : client_map[p][t][k] = m
      BY <3>1
    <3>3. client_map'[p][t][k] = m
      BY <2>4, <2>5, <3>1, <3>2 DEF Link, NoLink
    <3>. QED
      BY <3>1, <3>3 DEF Listed, Link, NoLink
  <2>. QED
    BY <2>1, <2>2, <2>7, <2>8, ThreadGood DEF Up
<1>. QED
  BY <1>1, <1>2 DEF Enlist

(* The listening thread serves a subscription.                             *)
LEMMA ServeSubscribeGood ==
    ASSUME TypeInv, ListInv, NEW p \in Proc, ServeSubscribe(p)
    PROVE  Good
<1>. DEFINE l == lis[p].link
            t == link[l].arg
            n == NameOf[link[l].from]
<1>1. /\ UNCHANGED <<link, stage, near, directoryVars, proc, app, pub_list>>
      /\ Up(p)
  BY DEF ServeSubscribe, Reads
<1>2. CASE UNCHANGED <<client_map, walk>>
  BY <1>1, <1>2, SameLinksEnds, QuietGood
<1>3. CASE t \in pub_list[p] /\ client_map[p][t][n] = NoLink /\ Enlist(p, t, n, l)
  <2>1. l \in Link /\ n \in Name
    <3>1. l \in Link
      BY DEF ServeSubscribe, Reads, TypeInv, TypeOK, ParticipantTypeOK, Listener
    <3>2. t \in Topic
      BY <1>3 DEF TypeInv, TypeOK, EventTypeOK
    <3>. QED
      BY <3>1, <3>2, ClientNamed DEF TypeInv, TypeOK, ParticipantTypeOK
  <2>2. \A q \in Proc : q # p => walk'[q] = walk[q]
    BY <1>3 DEF Enlist, TypeInv, TypeOK, EventTypeOK
  <2>. HIDE DEF l, t, n
  <2>. QED
    BY <1>1, <1>3, <2>1, <2>2, SameLinksEnds, EnlistGood
<1>. QED
  BY <1>2, <1>3 DEF ServeSubscribe

-------------------------------------------------------------------------------
(* The steps of the program.                                               *)

(* Steps that belong neither to events nor to methods.                     *)
LEMMA SharedGood ==
    ASSUME TypeInv, ListInv, Shared, UNCHANGED <<eventVars, methodVars>>
    PROVE  Good
<1>1. ASSUME NEW p \in Proc, Listening(p) PROVE Good
  <2>1. UNCHANGED <<directoryVars, proc, app, link, stage>>
    BY <1>1 DEF Listening, Listen, Accept, Incomplete, AnswerHeader, AnswerBody
  <2>2. UNCHANGED linkVars \/ \E l, chunk : Write(l, chunk)
    BY <1>1 DEF Listening, Listen, Accept, Incomplete, AnswerHeader, AnswerBody
  <2>3. SameEnds
    BY <2>1, <2>2, SameLinksEnds, WriteEnds
  <2>. QED
    BY <2>1, <2>3, QuietGood
<1>2. ASSUME NEW l \in Link, Client(l) PROVE Good
  <2>1. /\ UNCHANGED <<directoryVars, proc, app, link, near>>
        /\ \E s \in Stage \ {"unused"} : Advance(l, s)
    BY <1>2 DEF Client, Connect, ConnectRefused, WriteBody, Stage, InProgress
  <2>. QED
    BY <2>1, AdvanceEnds, QuietGood
<1>. QED
  BY <1>1, <1>2, JoinGood, ForgetGood DEF Shared

(* All steps of the event plane.                                           *)
LEMMA EventsGood ==
    ASSUME TypeInv, ListInv, Events, UNCHANGED methodVars
    PROVE  Good
<1>1. ASSUME NEW p \in Proc, NEW t \in Topic, Subscribe(p, t) PROVE Good
  BY <1>1, AskGood DEF Subscribe
<1>2. ASSUME NEW p \in Proc, Publishing(p) PROVE Good
  BY <1>2, AdvertisedGood, EventWriteGood, WalkEndsGood, EraseGood DEF Publishing
<1>3. ASSUME NEW p \in Proc, EventWorker(p) PROVE Good
  <2>1. UNCHANGED <<directoryVars, proc, app, link, stage, near, pub_list, client_map, walk>>
    BY <1>3 DEF EventWorker, DrainNew, StartPoll, Poll, ScanDone, ReadHeader, ReadEof,
                RunCallback, RunCallbackShort
  <2>. QED
    BY <2>1, SameLinksEnds, QuietGood
<1>4. ASSUME NEW l \in Link, Subscribing(l) PROVE Good
  <2>1. /\ UNCHANGED <<directoryVars, proc, app, link, near, pub_list, client_map, walk>>
        /\ \E s \in Stage \ {"unused"} : Advance(l, s)
    BY <1>4 DEF Subscribing, ReadAnswerHeader, ReadAnswer, ReadMixed, NoAnswer,
                AnswerLost, RecordSubscription, PushSubscription, LinkOnly, Stage,
                InProgress
  <2>. QED
    BY <2>1, AdvanceEnds, QuietGood
<1>. QED
  BY <1>1, <1>2, <1>3, <1>4, AdvertiseGood, PublishGood, ServeSubscribeGood
     DEF Events, EventNext

(* All steps of method calls.                                              *)
LEMMA MethodsGood ==
    ASSUME TypeInv, ListInv, Methods, UNCHANGED eventVars
    PROVE  Good
<1>1. ASSUME NEW p \in Proc, (\E m \in Method : Provide(p, m)) \/ Provided(p)
      PROVE  Good
  <2>1. app \in [Proc -> Activity]
    BY DEF TypeInv, TypeOK, ParticipantTypeOK
  <2>2. /\ UNCHANGED <<linkVars, member, publisher, proc>> /\ Up(p)
        /\ \A q \in Proc : q # p => app'[q] = app[q]
        /\ app'[p].op \in {"idle", "provide"}
    <3>1. CASE \E m \in Method : Provide(p, m)
      BY <2>1, <3>1 DEF Provide, Starts, Idle, Master!Provide
    <3>2. CASE Provided(p)
      BY <2>1, <3>2 DEF Provided, AtRest
    <3>. QED
      BY <1>1, <3>1, <3>2
  <2>. QED
    BY <2>2, AsideGood
<1>2. ASSUME NEW p \in Proc, NEW m \in Method, Call(p, m) PROVE Good
  BY <1>2, AskGood DEF Call
<1>3. ASSUME NEW p \in Proc, CallbackCalls(p) PROVE Good
  BY <1>3, AskGood DEF CallbackCalls
<1>4. ASSUME NEW p \in Proc, ServeCall(p) \/ CallbackReturns(p) PROVE Good
  <2>1. UNCHANGED <<directoryVars, proc, app, link, stage, near>>
    BY <1>4 DEF ServeCall, CallbackReturns, Reads
  <2>. QED
    BY <2>1, SameLinksEnds, QuietGood
<1>5. ASSUME NEW l \in Link, Calling(l) PROVE Good
  <2>1. /\ UNCHANGED <<directoryVars, proc, app, link, near>>
        /\ \E s \in Stage \ {"unused"} : Advance(l, s)
    BY <1>5 DEF Calling, ReadResponseHeader, ReadResponse, ResponseLost, CallReads,
                Stage, InProgress
  <2>. QED
    BY <2>1, AdvanceEnds, QuietGood
<1>. QED
  BY <1>1, <1>2, <1>3, <1>4, <1>5 DEF Methods, MethodNext

(* Every step keeps ListInv and takes no live subscriber off a list.       *)
LEMMA StepGood ==
    ASSUME TypeInv, ListInv, [Next]_vars
    PROVE  Good
<1>1. CASE UNCHANGED vars
  BY <1>1, SameLinksEnds, QuietGood DEF vars
<1>2. CASE Next
  BY <1>2, SharedGood, EventsGood, MethodsGood, EndGood DEF Next
<1>. QED
  BY <1>1, <1>2

(* Nobody is listed at first.                                              *)
LEMMA InitListed == Init => ListInv
<1>. SUFFICES ASSUME Init PROVE ListInv
  OBVIOUS
<1>1. ASSUME NEW p \in Proc PROVE PublisherAt(p)
  BY DEF Init, ParticipantInit, EventInit, PublisherAt, TopicAt, Grants, Walks, AtRest,
         Unlisted
<1>2. ASSUME NEW l \in Link PROVE EndAt(l)
  BY DEF Init, ParticipantInit, LinksInit, EndAt
<1>. QED
  BY <1>1, <1>2 DEF ListInv

(* A subscriber in client_socket_map stays there while it and the          *)
(* publisher live: publish_event() erases the dead only.                   *)
THEOREM LiveStay == Spec => LiveStayListed
<1>1. TypeInv /\ ListInv /\ [Next]_vars => ListInv'
  BY StepGood DEF Good
<1>2. TypeInv /\ ListInv /\ [Next]_vars
        => [\A p \in Proc : \A l \in Listed(p) :
               Up(link[l].from) /\ Up(p)' => l \in Listed(p)']_vars
  BY StepGood DEF Good, Stays
<1>. QED
  BY <1>1, <1>2, InitListed, TypeInvariant, PTL DEF Spec, LiveStayListed
===============================================================================
