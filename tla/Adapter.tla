------------------------------- MODULE Adapter -------------------------------
(***************************************************************************)
(* The Weaviate adapter's response path (WeaviateClient in                 *)
(* modules/agent-rag/README.md): executeGraphQL's envelope check, the walk *)
(* of the result path, and parseSearchResults / parseConversationResults   *)
(* with extractSearchResult.                                               *)
(*                                                                         *)
(* A decoded JSON value is a record tagged with its Go dynamic type:       *)
(* map[string]interface{}, []interface{}, string or float64.  Strings are  *)
(* kept whole; time.Parse(time.RFC3339, s) succeeds on the ValidStamps.    *)
(* Text, metadata and the GraphQL text sent are left out: no property      *)
(* reads them.                                                             *)
(***************************************************************************)
EXTENDS Integers, Sequences, TLC

CONSTANTS
  Ids,          \* strings Weaviate returns as _additional.id
  Scores,       \* numbers it returns as _additional.score
  Stamps,       \* strings it returns as timestamp
  ValidStamps,  \* the ones time.Parse(time.RFC3339, .) accepts
  Collection,   \* the collection name (IndexConfig)
  NoTimestamp,  \* model value: SearchResult.Timestamp == nil
  MaxRecords    \* the longest array of records in a response

ASSUME AdapterAssumption ==
  /\ ValidStamps \subseteq Stamps
  /\ "" \notin Ids
  /\ NoTimestamp \notin Stamps
  /\ MaxRecords \in Nat

JMap(f) == [kind |-> "map", fields |-> f]
JList(s) == [kind |-> "list", elems |-> s]
JStr(v) == [kind |-> "string", val |-> v]
JNum(v) == [kind |-> "number", val |-> v]

(* m[key] with the comma-ok form: is key present in the map m.            *)
Has(m, key) == m.kind = "map" /\ key \in DOMAIN m.fields

(* GetResultPath (graphql, part_002): []string{"Get", className}.          *)
GetResultPath(className) == <<"Get", className>>

(***************************************************************************)
(* The walk down the path: a step into a map takes the key's value, a      *)
(* missing key or a value that is not a map ends it with an error.  The    *)
(* loop runs once per key of the path, and the path is always             *)
(* GetResultPath(className), of two keys.                                  *)
(***************************************************************************)
NavError == [kind |-> "error"]

NavStep(current, key) ==
  IF current.kind = "error" THEN current
  ELSE IF current.kind # "map" THEN NavError      \* unexpected type at path
  ELSE IF key \in DOMAIN current.fields THEN current.fields[key]
  ELSE NavError                                   \* key not found

Navigate(data, path) == NavStep(NavStep(data, path[1]), path[2])

(***************************************************************************)
(* extractSearchResult: _additional.id and _additional.score when they     *)
(* have the asserted types, "" and 0 otherwise.                            *)
(***************************************************************************)
FieldAs(m, key, kind, default) ==
  IF Has(m, key) /\ m.fields[key].kind = kind THEN m.fields[key].val ELSE default

extractSearchResult(obj) ==
  LET add == IF Has(obj, "_additional") THEN obj.fields["_additional"] ELSE JStr("")
  IN  [id |-> FieldAs(add, "id", "string", ""),
       score |-> FieldAs(add, "score", "number", 0)]

(* The timestamp of a conversation record: set when it is a string that    *)
(* parses as RFC 3339, nil otherwise.                                      *)
RecordTimestamp(obj) ==
  LET s == FieldAs(obj, "timestamp", "string", NoTimestamp)
  IN  IF s \in ValidStamps THEN s ELSE NoTimestamp

(* Mutant: a record whose timestamp fails to parse is dropped.             *)
KeepRecordParsedOnly(obj) == RecordTimestamp(obj) # NoTimestamp \/ ~Has(obj, "timestamp")

(* Every record of the array is kept, whatever its timestamp.             *)
KeepRecord(obj) == TRUE

(* The records of the array: its elements that are maps, in order; an     *)
(* array that is not there (the path ends on another type) gives none.    *)
Records(node) ==
  IF node.kind = "list"
  THEN SelectSeq(node.elems, LAMBDA e : e.kind = "map" /\ KeepRecord(e))
  ELSE << >>

(* What a call returns: an error, or a nil error and the results.         *)
Failed == [status |-> "error", results |-> << >>]
Succeeded(rs) == [status |-> "ok", results |-> rs]

(* parseSearchResults and parseConversationResults: an error when the walk *)
(* fails, otherwise one result per record.                                 *)
parseSearchResults(data, path) ==
  LET node == Navigate(data, path)
  IN  IF node.kind = "error" THEN Failed
      ELSE Succeeded([i \in DOMAIN Records(node) |->
              LET obj == Records(node)[i]
              IN  [id |-> extractSearchResult(obj).id,
                   score |-> extractSearchResult(obj).score,
                   source |-> "static"]])

parseConversationResults(data, path) ==
  LET node == Navigate(data, path)
  IN  IF node.kind = "error" THEN Failed
      ELSE Succeeded([i \in DOMAIN Records(node) |->
              LET obj == Records(node)[i]
              IN  [id |-> extractSearchResult(obj).id,
                   score |-> extractSearchResult(obj).score,
                   source |-> "conversation",
                   timestamp |-> RecordTimestamp(obj)]])

(* executeGraphQL: a non-empty errors list fails the call, else data.      *)
(* SearchConversation then parses data along the collection's path.        *)
SearchConversation(resp) ==
  IF resp.errors THEN Failed
  ELSE parseConversationResults(resp.data, GetResultPath(Collection))

SearchStatic(resp) ==
  IF resp.errors THEN Failed
  ELSE parseSearchResults(resp.data, GetResultPath(Collection))

-----------------------------------------------------------------------------
(***************************************************************************)
(* One adapter search on one decoded response.  json.Unmarshal makes data *)
(* a map (a null data is the nil map, with no keys) or fails the call      *)
(* before any parsing, so data is a map here.  The responses cover the     *)
(* well-formed ones and each way a key can be missing or wrong-typed.      *)
(***************************************************************************)
EmptyObj == [k \in {} |-> 0]

Additionals ==
  {JMap(("id" :> JStr(i)) @@ ("score" :> JNum(n))) : i \in Ids, n \in Scores}
  \cup {JMap("score" :> JNum(n)) : n \in Scores}
  \cup {JMap(("id" :> JStr(i)) @@ ("score" :> JStr("0.9"))) : i \in Ids}
  \cup {JNum(0)}

TimestampFields ==
  {EmptyObj, "timestamp" :> JNum(0)} \cup {"timestamp" :> JStr(t) : t \in Stamps}

RecordValues ==
  {JMap(("_additional" :> a) @@ t) : a \in Additionals, t \in TimestampFields}
  \cup {JMap(t) : t \in TimestampFields}

Nodes ==
  {JList(s) : s \in UNION {[1..n -> RecordValues \cup {JStr("x")}] :
                             n \in 0..MaxRecords}}
  \cup {JStr("x"), JMap(EmptyObj)}

Datas ==
  {JMap([g \in {"Get"} |-> JMap([c \in {Collection} |-> n])]) : n \in Nodes}
  \cup {JMap(EmptyObj), JMap([g \in {"Get"} |-> JMap(EmptyObj)]),
        JMap([g \in {"Get"} |-> JList(<< >>)])}

Responses == [errors : BOOLEAN, data : Datas]

VARIABLES resp, method, out

avars == <<resp, method, out>>

AInit ==
  /\ resp \in Responses
  /\ method \in {"SearchStatic", "SearchConversation"}
  /\ out = [status |-> "none", results |-> << >>]

(* The adapter method runs on the response.                                *)
Call ==
  /\ out.status = "none"
  /\ out' = IF method = "SearchStatic" THEN SearchStatic(resp)
                                        ELSE SearchConversation(resp)
  /\ UNCHANGED <<resp, method>>

ASpec == AInit /\ [][Call]_avars

-----------------------------------------------------------------------------
(***************************************************************************)
(* Properties.                                                             *)
(***************************************************************************)
(* A response is well formed when its data holds, at Get.<collection>, an  *)
(* array of records each with _additional.id a string and                 *)
(* _additional.score a number (spec 4.C, Response parsing).                *)
WellFormed(data) ==
  /\ Has(data, "Get") /\ Has(data.fields["Get"], Collection)
  /\ LET node == data.fields["Get"].fields[Collection]
     IN  /\ node.kind = "list"
         /\ \A i \in DOMAIN node.elems :
              LET add == IF Has(node.elems[i], "_additional")
                         THEN node.elems[i].fields["_additional"] ELSE JNum(0)
              IN  /\ Has(add, "id") /\ add.fields["id"].kind = "string"
                  /\ Has(add, "score") /\ add.fields["score"].kind = "number"

(* A conversation search keeps every record of the array, each with its    *)
(* timestamp when that parses as RFC 3339 and with a nil timestamp when it *)
(* is absent or unparseable (spec 4.C: such a record is retained and is    *)
(* then exempt from decay).  parseConversationResults, extractSearchResult.*)
RecordsRetained ==
  LET node == resp.data.fields["Get"].fields[Collection]
  IN
  method = "SearchConversation" /\ out.status = "ok" /\ node.kind = "list" =>
    LET recs == SelectSeq(node.elems, LAMBDA e : e.kind = "map")
        ts(r) == IF Has(r, "timestamp") /\ r.fields["timestamp"].kind = "string"
                    /\ r.fields["timestamp"].val \in ValidStamps
                 THEN r.fields["timestamp"].val ELSE NoTimestamp
    IN  /\ Len(out.results) = Len(recs)
        /\ \A i \in DOMAIN recs : out.results[i].timestamp = ts(recs[i])

(* Type assertions fail softly: a missing or wrong-typed key yields a     *)
(* structured parse error (spec 4.C, section 7).  So a search on a         *)
(* response that is not well formed returns an error.                      *)
MalformedIsParseError ==
  out.status # "none" /\ ~resp.errors /\ ~WellFormed(resp.data) =>
    out.status = "error"

=============================================================================
