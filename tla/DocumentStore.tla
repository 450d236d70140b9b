--------------------------- MODULE DocumentStore ----------------------------
(***************************************************************************)
(* The S3 bucket behind internal/storage/storage.go: a partial function    *)
(* from object keys to contents.  The bucket is not versioned for readers: *)
(* a put or a copy on a key that exists replaces what was there.           *)
(***************************************************************************)

\* PutObject, through PutRaw and PutPDF.
PutObject(bucket, key, content) ==
    [k \in DOMAIN bucket \cup {key} |->
        IF k = key THEN content ELSE bucket[k]]

\* CopyObject fails when there is nothing under the source key.
CanCopy(bucket, from) == from \in DOMAIN bucket

CopyObject(bucket, from, to) == PutObject(bucket, to, bucket[from])

\* DeleteObject succeeds whether or not the key exists.
DeleteObject(bucket, key) == [k \in DOMAIN bucket \ {key} |-> bucket[k]]
=============================================================================
