------------------------------ MODULE MCFileSystem ----------------------------
(* Instances of FileSystem: a directory d with a file g in it, and a file f    *)
(* beside it.                                                                  *)
EXTENDS FileSystem, TLC

CONSTANTS c1, c2, root, d, f, g

MCParent == root :> root @@ d :> root @@ f :> root @@ g :> d

On(kind, p)  == [kind |-> kind, path |-> p]
Cut(p, n)    == [kind |-> "truncate", path |-> p, size |-> n]
Store(o, v)  == [kind |-> "write", path |-> f, off |-> o, val |-> v]
Load(o)      == [kind |-> "read", path |-> f, off |-> o]
Move(p, q)   == [kind |-> "rename", path |-> p, to |-> q]

ActiveJobs == {On("mkdir", f), On("mknod", f), On("unlink", f), On("getattr", f),
               On("open", f), Store(0, 7), Cut(f, 0), On("getdir", root),
               On("mkdir", d), On("rmdir", d), On("mknod", g), Load(0)}
MixedJobs  == {On("mkdir", d), On("mknod", d), On("getdir", d), On("mkdir", f), On("mknod", f), On("mknod", g),
               On("unlink", f), On("rmdir", d), On("getattr", d), On("getdir", root), On("open", f),
               Store(0, 7), Store(1, 8), Load(0), Cut(f, 0), Move(f, g), On("mount", root)}
===============================================================================
