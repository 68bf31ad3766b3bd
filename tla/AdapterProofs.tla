---------------------------- MODULE AdapterProofs ----------------------------
(***************************************************************************)
(* Proof that SearchConversation keeps every record of the response with   *)
(* the timestamp the spec gives it (RecordsRetained), for every set of     *)
(* ids, scores, timestamps and array length.  The argument: a search that  *)
(* returned ok walked the whole path (Navigate did not fail), so it parsed *)
(* the node at Get.<collection>; parseConversationResults maps each object *)
(* of that array to one result; and its timestamp is the RFC 3339 one or  *)
(* nil.                                                                    *)
(***************************************************************************)
EXTENDS Adapter, TLAPS

(* What the call returned, once it has run.                                *)
Returned ==
  /\ resp \in Responses
  /\ method \in {"SearchStatic", "SearchConversation"}
  /\ \/ out.status = "none"
     \/ out = IF method = "SearchStatic" THEN SearchStatic(resp)
              ELSE SearchConversation(resp)

(* The response has the path Get.<collection>.                             *)
PathPresent(data) == Has(data, "Get") /\ Has(data.fields["Get"], Collection)

(* For a response without GraphQL errors, a search fails exactly when the *)
(* path Get.<collection> is missing; when the value there is not an array, *)
(* it returns ok with no results.  So parseSearchResults and              *)
(* parseConversationResults never report a value of the wrong type, the    *)
(* divergence adapter_malformed shows, for every response of every size.   *)
PathDecidesError ==
  out.status # "none" /\ ~resp.errors =>
    /\ out.status = "error" <=> ~PathPresent(resp.data)
    /\ PathPresent(resp.data) /\ resp.data.fields["Get"].fields[Collection].kind # "list"
         => out = Succeeded(<< >>)

(* A walk of two keys ends at the second key's value when both are there,  *)
(* and fails otherwise.                                                    *)
LEMMA NavigateCases ==
  ASSUME NEW data, NEW key1, NEW key2
  PROVE  /\ Has(data, key1) /\ Has(data.fields[key1], key2) =>
              Navigate(data, <<key1, key2>>) = data.fields[key1].fields[key2]
         /\ ~(Has(data, key1) /\ Has(data.fields[key1], key2)) =>
              Navigate(data, <<key1, key2>>).kind = "error"
BY DEF Navigate, NavStep, NavError, Has

(* Where a decoded response has the path, the value there is one of the    *)
(* nodes the harness enumerates, and no node is a walk error.              *)
LEMMA DataPath ==
  ASSUME NEW d \in Datas, PathPresent(d)
  PROVE  d.fields["Get"].fields[Collection] \in Nodes
BY DEF Datas, PathPresent, Has, JMap, JList, EmptyObj

LEMMA NodeKinds ==
  ASSUME NEW n \in Nodes
  PROVE  n.kind # "error"
BY DEF Nodes, JList, JStr, JMap

(* The records of an array are its elements that are objects.              *)
LEMMA RecordsAreObjects ==
  ASSUME NEW node, node.kind = "list"
  PROVE  Records(node) = SelectSeq(node.elems, LAMBDA e : e.kind = "map")
BY DEF Records, KeepRecord

(* A record's timestamp is its timestamp string when that parses, nil      *)
(* otherwise: nil is no string.                                            *)
LEMMA TimestampParsed ==
  ASSUME NEW r
  PROVE  RecordTimestamp(r) =
           IF Has(r, "timestamp") /\ r.fields["timestamp"].kind = "string"
              /\ r.fields["timestamp"].val \in ValidStamps
           THEN r.fields["timestamp"].val ELSE NoTimestamp
BY AdapterAssumption DEF RecordTimestamp, FieldAs

(* Returned implies RecordsRetained.                                       *)
LEMMA ReturnedRetains ==
  ASSUME Returned
  PROVE  RecordsRetained
<1> DEFINE node == resp.data.fields["Get"].fields[Collection]
           recs == SelectSeq(node.elems, LAMBDA e : e.kind = "map")
           nav == Navigate(resp.data, GetResultPath(Collection))
<1> SUFFICES ASSUME method = "SearchConversation", out.status = "ok",
                    node.kind = "list"
             PROVE  /\ Len(out.results) = Len(recs)
                    /\ \A i \in DOMAIN recs :
                          out.results[i].timestamp = RecordTimestamp(recs[i])
  BY TimestampParsed DEF RecordsRetained
<1>1. out = SearchConversation(resp)
  BY DEF Returned
<1>2. ~resp.errors /\ out = parseConversationResults(resp.data, GetResultPath(Collection))
  BY <1>1 DEF SearchConversation, Failed
<1>3. nav.kind # "error"
  BY <1>2 DEF parseConversationResults, Failed
<1>4. nav = node
  BY <1>3, NavigateCases DEF GetResultPath
<1>5. Records(nav) = recs
  BY <1>4, RecordsAreObjects
<1>6. out.results = [i \in DOMAIN recs |->
                       [id |-> extractSearchResult(recs[i]).id,
                        score |-> extractSearchResult(recs[i]).score,
                        source |-> "conversation",
                        timestamp |-> RecordTimestamp(recs[i])]]
  BY <1>2, <1>3, <1>5 DEF parseConversationResults, Succeeded
<1>7. DOMAIN out.results = DOMAIN recs
  BY <1>6
<1>8. Len(out.results) = Len(recs)
  BY <1>7
<1> HIDE DEF recs
<1>9. ASSUME NEW i \in DOMAIN recs
      PROVE  out.results[i].timestamp = RecordTimestamp(recs[i])
  BY <1>6
<1>10. QED
  BY <1>8, <1>9

(* Returned implies PathDecidesError.                                      *)
LEMMA ReturnedDecides ==
  ASSUME Returned
  PROVE  PathDecidesError
<1> DEFINE data == resp.data
           node == data.fields["Get"].fields[Collection]
           nav == Navigate(data, GetResultPath(Collection))
<1> SUFFICES ASSUME out.status # "none", ~resp.errors
             PROVE  /\ out.status = "error" <=> ~PathPresent(data)
                    /\ PathPresent(data) /\ node.kind # "list" => out = Succeeded(<< >>)
  BY DEF PathDecidesError
<1>1. out = IF method = "SearchStatic"
            THEN parseSearchResults(data, GetResultPath(Collection))
            ELSE parseConversationResults(data, GetResultPath(Collection))
  BY DEF Returned, SearchStatic, SearchConversation
<1>2. CASE ~PathPresent(data)
  <2>1. nav.kind = "error"
    BY <1>2, NavigateCases DEF PathPresent, GetResultPath
  <2>2. QED
    BY <1>1, <1>2, <2>1 DEF parseSearchResults, parseConversationResults, Failed
<1>3. CASE PathPresent(data)
  <2>1. nav = node
    BY <1>3, NavigateCases DEF PathPresent, GetResultPath
  <2>2. node.kind # "error"
    BY <1>3, DataPath, NodeKinds DEF Returned, Responses
  <2>3. out.status = "ok"
    BY <1>1, <2>1, <2>2 DEF parseSearchResults, parseConversationResults, Succeeded
  <2>4. ASSUME node.kind # "list"
        PROVE  out = Succeeded(<< >>)
    <3>1. Records(nav) = << >> /\ DOMAIN Records(nav) = {}
      BY <2>1, <2>4 DEF Records
    <3>2. CASE method = "SearchStatic"
      BY <1>1, <2>1, <2>2, <3>1, <3>2 DEF parseSearchResults, Succeeded
    <3>3. CASE method # "SearchStatic"
      BY <1>1, <2>1, <2>2, <3>1, <3>3 DEF parseConversationResults, Succeeded
    <3>4. QED
      BY <3>2, <3>3
  <2>5. QED
    BY <1>3, <2>3, <2>4
<1>4. QED
  BY <1>2, <1>3

(* Returned holds initially and after the call.                            *)
LEMMA ReturnedInvariant == ASpec => []Returned
<1>1. AInit => Returned
  BY DEF AInit, Returned
<1>2. Returned /\ [Call]_avars => Returned'
  BY DEF Returned, Call, avars
<1>3. QED
  BY <1>1, <1>2, PTL DEF ASpec

(* A conversation search keeps every object of the response's array, in    *)
(* order, each with its RFC 3339 timestamp or with a nil one when that is  *)
(* absent, not a string or unparseable (spec 4.C): parseConversationResults *)
(* and extractSearchResult, for every response and every constant.        *)
THEOREM ConversationRecordsRetained == ASpec => []RecordsRetained
BY ReturnedInvariant, ReturnedRetains, PTL

(* The adapter reports a parse error exactly when the path Get.<collection> *)
(* is missing, and a value of the wrong type there parses into no results  *)
(* with a nil error: the divergence from spec 4.C and section 7 holds for *)
(* every response, not only on the instance adapter_malformed explores.    *)
THEOREM WrongShapeIsSilent == ASpec => []PathDecidesError
BY ReturnedInvariant, ReturnedDecides, PTL
=============================================================================
