------------------------- MODULE FilingStoresProofs -------------------------
(* What one append or one insert does to the shared topic and table. *)
EXTENDS FilingStores, TLAPS

(* Appending m keeps every message where it is and puts a copy of m on the *)
(* topic.                                                                  *)
LEMMA AppendKeepsMessages ==
  ASSUME StoresTypeOK, NEW m \in Messages, AppendRaw(m)
  PROVE  /\ rawTopic' \in [Partitions -> Seq(Messages)]
         /\ OnTopic(m)'
         /\ \A p \in Partitions : Len(rawTopic[p]) <= Len(rawTopic'[p])
         /\ \A p \in Partitions : \A o \in 1..Len(rawTopic[p]) :
              rawTopic'[p][o] = rawTopic[p][o]
<1> DEFINE q == PartitionOf[m]
<1>1. q \in Partitions
  BY StoresAssumption
<1>2. rawTopic[q] \in Seq(Messages) /\ rawTopic'[q] = Append(rawTopic[q], m)
  BY <1>1 DEF StoresTypeOK, AppendRaw
<1>3. \A p \in Partitions : p # q => rawTopic'[p] = rawTopic[p]
  BY <1>1 DEF StoresTypeOK, AppendRaw
<1>4. rawTopic' \in [Partitions -> Seq(Messages)]
  BY <1>1 DEF StoresTypeOK, AppendRaw
<1>5. /\ Len(rawTopic'[q]) = Len(rawTopic[q]) + 1
      /\ rawTopic'[q][Len(rawTopic[q]) + 1] = m
      /\ \A o \in 1..Len(rawTopic[q]) : rawTopic'[q][o] = rawTopic[q][o]
  BY <1>2
<1>6. OnTopic(m)'
  <2>1. Len(rawTopic[q]) + 1 \in 1..Len(rawTopic'[q])
    BY <1>2, <1>5
  <2> QED
    BY <1>1, <1>5, <2>1 DEF OnTopic
<1>7. \A p \in Partitions : Len(rawTopic[p]) <= Len(rawTopic'[p])
  <2> TAKE p \in Partitions
  <2>1. rawTopic[p] \in Seq(Messages)
    BY DEF StoresTypeOK
  <2> QED
    BY <1>2, <1>3, <1>5, <2>1
<1>8. \A p \in Partitions : \A o \in 1..Len(rawTopic[p]) :
        rawTopic'[p][o] = rawTopic[p][o]
  BY <1>3, <1>5
<1> QED
  BY <1>4, <1>6, <1>7, <1>8

(* A message that is on the topic stays there. *)
LEMMA OnTopicStable ==
  ASSUME StoresTypeOK, NEW m \in Messages, AppendRaw(m), NEW x, OnTopic(x)
  PROVE  OnTopic(x)'
<1>1. PICK p \in Partitions : \E o \in 1..Len(rawTopic[p]) : rawTopic[p][o] = x
  BY DEF OnTopic
<1>2. PICK o \in 1..Len(rawTopic[p]) : rawTopic[p][o] = x
  BY <1>1
<1>3. rawTopic'[p][o] = x
  BY <1>2, AppendKeepsMessages
<1>4. o \in 1..Len(rawTopic'[p])
  <2>1. rawTopic[p] \in Seq(Messages) /\ rawTopic'[p] \in Seq(Messages)
    BY AppendKeepsMessages DEF StoresTypeOK
  <2> QED
    BY <2>1, AppendKeepsMessages
<1> QED
  BY <1>3, <1>4 DEF OnTopic

(* Appending m puts nothing else on the topic. *)
LEMMA AppendAddsOnly ==
  ASSUME StoresTypeOK, NEW m \in Messages, AppendRaw(m), NEW x, OnTopic(x)', x # m
  PROVE  OnTopic(x)
<1>1. PICK p \in Partitions : \E o \in 1..Len(rawTopic'[p]) : rawTopic'[p][o] = x
  BY DEF OnTopic
<1>2. PICK o \in 1..Len(rawTopic'[p]) : rawTopic'[p][o] = x
  BY <1>1
<1>3. CASE p # PartitionOf[m]
  <2>1. rawTopic'[p] = rawTopic[p]
    BY <1>3 DEF AppendRaw, StoresTypeOK
  <2> QED
    BY <1>2, <2>1 DEF OnTopic
<1>4. CASE p = PartitionOf[m]
  <2>1. rawTopic[p] \in Seq(Messages) /\ rawTopic'[p] = Append(rawTopic[p], m)
    BY <1>4 DEF AppendRaw, StoresTypeOK
  <2>2. o \in 1..Len(rawTopic[p]) /\ rawTopic[p][o] = x
    BY <1>2, <2>1
  <2> QED
    BY <2>2 DEF OnTopic
<1> QED
  BY <1>3, <1>4

(* What either service sees the other do to the stores, at most: nothing,  *)
(* one append, or one insert.                                              *)
StoreStep ==
  \/ UNCHANGED storeVars
  \/ \E m \in Messages : AppendRaw(m) /\ UNCHANGED ingestionLog
  \/ \E f \in Filings : InsertPublished(f) /\ UNCHANGED rawTopic

(* A store step moves no message and takes no row back.                    *)
LEMMA StoreStepKeeps ==
  ASSUME StoresTypeOK, StoreStep
  PROVE  /\ StoresTypeOK'
         /\ \A f \in Filings : OnTopic(f) => OnTopic(f)'
         /\ \A p \in Partitions : Len(rawTopic[p]) <= Len(rawTopic'[p])
         /\ \A p \in Partitions : \A o \in 1..Len(rawTopic[p]) :
              rawTopic'[p][o] = rawTopic[p][o]
         /\ \A f \in Filings : Recorded(f) => ingestionLog'[f] = ingestionLog[f]
         /\ \A f \in Filings : ingestionLog'[f] = "EMBEDDED" => ingestionLog[f] = "EMBEDDED"
<1> DEFINE Goal ==
      /\ StoresTypeOK'
      /\ \A f \in Filings : OnTopic(f) => OnTopic(f)'
      /\ \A p \in Partitions : Len(rawTopic[p]) <= Len(rawTopic'[p])
      /\ \A p \in Partitions : \A o \in 1..Len(rawTopic[p]) :
           rawTopic'[p][o] = rawTopic[p][o]
      /\ \A f \in Filings : Recorded(f) => ingestionLog'[f] = ingestionLog[f]
      /\ \A f \in Filings : ingestionLog'[f] = "EMBEDDED" => ingestionLog[f] = "EMBEDDED"
<1>0. \A p \in Partitions : Len(rawTopic[p]) <= Len(rawTopic[p])
  BY DEF StoresTypeOK
<1>1. CASE UNCHANGED storeVars
  BY <1>0, <1>1 DEF storeVars, StoresTypeOK, OnTopic
<1>2. CASE \E m \in Messages : AppendRaw(m) /\ UNCHANGED ingestionLog
  <2>1. PICK m \in Messages : AppendRaw(m) /\ UNCHANGED ingestionLog
    BY <1>2
  <2>2. StoresTypeOK'
    BY <2>1, AppendKeepsMessages DEF StoresTypeOK
  <2>3. \A f \in Filings : OnTopic(f) => OnTopic(f)'
    BY <2>1, OnTopicStable
  <2>4. \A p \in Partitions : Len(rawTopic[p]) <= Len(rawTopic'[p])
    BY <2>1, AppendKeepsMessages
  <2>5. \A p \in Partitions : \A o \in 1..Len(rawTopic[p]) :
          rawTopic'[p][o] = rawTopic[p][o]
    BY <2>1, AppendKeepsMessages
  <2> QED
    BY <2>1, <2>2, <2>3, <2>4, <2>5
<1>3. CASE \E f \in Filings : InsertPublished(f) /\ UNCHANGED rawTopic
  BY <1>0, <1>3 DEF StoresTypeOK, OnTopic, InsertPublished, Recorded, Statuses
<1> QED
  BY <1>1, <1>2, <1>3 DEF StoreStep
=============================================================================
