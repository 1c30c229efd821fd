----------------------------- MODULE MCIndexSync -----------------------------
(***************************************************************************)
(* A root with one file beside a directory of one file.  The file's name   *)
(* has a wildcard: d_r beside dir, so that d_r/% matches dir's entry.      *)
(***************************************************************************)
EXTENDS IndexSync, TLC

CONSTANTS top, dir, top_file, dir_file

MCDirs    == {dir}
MCFiles   == {top_file, dir_file}
MCParent  == dir :> top @@ top_file :> top @@ dir_file :> dir
MCMatches == dir :> {dir, dir_file} @@ top_file :> {top_file, dir_file} @@ dir_file :> {dir_file}

=============================================================================
