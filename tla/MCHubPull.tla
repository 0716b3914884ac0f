----------------------------- MODULE MCHubPull ------------------------------
(* Small repositories.                                                      *)
EXTENDS HubPull

File(name, kind, size, variant) ==
    [name |-> name, kind |-> kind, size |-> size, variant |-> variant]

\* A single weights file, last in the listing.
Single == <<File("config.json", "json", 1, "-"), File("model", "safetensors", 2, "-")>>

\* Shards with their index.
Sharded == <<File("config.json", "json", 1, "-"), File("shard1", "safetensors", 2, "-"),
             File("shard2", "safetensors", 1, "-"), File("shards", "stindex", 2, "-")>>

\* Two GGUF variants, one of them in two files.
Variety == <<File("q4-1", "gguf", 1, "Q4"), File("q4-2", "gguf", 2, "Q4"),
             File("q8", "gguf", 2, "Q8"), File("tokenizer", "other", 1, "-")>>

\* Safetensors and GGUF side by side.
Mixed == <<File("config.json", "json", 1, "-"), File("model", "safetensors", 1, "-"),
           File("q4", "gguf", 2, "Q4")>>

AllRepos == {Single, Sharded, Variety, Mixed}

\* A tokenizer that the listing names after the weights.
TokenizerLast == {<<File("config.json", "json", 1, "-"), File("model", "safetensors", 1, "-"),
                    File("tokenizer", "other", 1, "-")>>}
=============================================================================
