---------------------------- MODULE DemoPrograms ----------------------------
(***************************************************************************)
(* The programs of demos/, as the histories their control flow can produce *)
(* and the assertions written in them.  Running a piece of code yields a   *)
(* set of outcomes: the events that happen and the value returned.  Values *)
(* are strings; what is only computed, printed or freed is left out, and   *)
(* so is code under "#if 0".  Libraries (libcrypto) are external: they     *)
(* return any of the values they document.                                 *)
(***************************************************************************)
EXTENDS TeslaLanguage

-----------------------------------------------------------------------------
(* Outcomes *)

NoValue == "void"
Ret(v) == {[events |-> <<>>, ret |-> v]}
AnyOf(vs) == UNION {Ret(v) : v \in vs}
Then(A, K(_)) ==
  UNION {{[b EXCEPT !.events = a.events \o @] : b \in K(a.ret)} : a \in A}
Do(A, B) == Then(A, LAMBDA v : B)
\* if ((err = A)) return err; B
Try(A, B) == Then(A, LAMBDA err : IF err = "0" THEN B ELSE Ret(err))

Happens(e) == {[events |-> <<e>>, ret |-> NoValue]}
FnEntry(fn, args) == [what |-> "Entry", fn |-> fn, vals |-> args]
FnExit(fn, args, ret) ==
  [what |-> "Exit", fn |-> fn, vals |-> IF ret = NoValue THEN args ELSE Append(args, ret)]
Fn(fn, args, body) ==
  {[b EXCEPT !.events = <<FnEntry(fn, args)>> \o @ \o <<FnExit(fn, args, b.ret)>>] :
     b \in body}
Site(id, vals) == Happens([what |-> "Site", id |-> id, vals |-> vals])
Store(field, struct, old, new) ==
  Happens([what |-> "Store", field |-> field, struct |-> struct, old |-> old, new |-> new])

Var(n) == [v |-> "var", name |-> n, match |-> "none"]
Const(n) == [v |-> "const", name |-> n, match |-> "none"]
\* fn(args) == r
Returns(fn, args, r) == [op |-> "eq", fn |-> fn, args |-> args, ret |-> {Const(r)}]
Or(l, r) == [op |-> "or", lhs |-> l, rhs |-> r]

-----------------------------------------------------------------------------
(* smoketest.  Object 0 is the only one that main asks for.                 *)

hold(o) == Fn("hold", <<o>>, Do(Store("object.refcount", o, 0, 1), Ret(NoValue)))
release(o) == Fn("release", <<o>>, Do(Store("object.refcount", o, 1, 0), Ret(NoValue)))
get_object(index, ptr) ==
  Fn("get_object", <<index, ptr>>,
     IF index # "0" THEN Ret("EINVAL") ELSE Do(hold("obj0"), Ret("0")))

security_check(cred, o, op) == Fn("security_check", <<cred, o, op>>, Ret("0"))
log_audit_record(o, op) == Fn("log_audit_record", <<o, op>>, Ret("0"))
void_helper(o) == Fn("void_helper", <<o>>, Ret(NoValue))
\* handcoded.ll: op < 10
some_helper(op) == Fn("some_helper", <<op>>, Ret("0"))

\* libcrypto: 0, or -1 and -2 for a key of wrong parity or a weak one.
DES_set_key(key, sched) == Fn("DES_set_key", <<key, sched>>, AnyOf({"0", "-1", "-2"}))
crypto_setup(key, sched) ==
  Fn("crypto_setup", <<key, sched>>, Do(DES_set_key(key, sched), Ret("0")))
crypto_encrypt(key, sched) ==
  Fn("crypto_encrypt", <<key, sched>>,
     Do(Site(9, [key |-> key, schedule |-> sched]), Ret("0")))

\* The assertions are reached one after the other.
perform_operation(op, o) ==
  LET here == [o |-> o, op |-> op]
      sites == FoldLeft(LAMBDA A, id : Do(A, Site(id, here)), Ret(NoValue),
                        [id \in 1 .. 8 |-> id])
  IN Fn("perform_operation", <<op, o>>, Do(sites, Ret("0")))

example_syscall(cred, index, op) ==
  LET o == "obj0"
      rest == Do(some_helper(op), Do(void_helper(o), Do(perform_operation(op, o),
              Do(crypto_encrypt("key", "sched"),
              Do(log_audit_record(o, op), Do(release(o), Ret("0")))))))
  IN Fn("example_syscall", <<cred, index, op>>,
        Try(get_object(index, "&o"),
            Do(crypto_setup("key", "sched"), Try(security_check(cred, o, op), rest))))

smoketest == Fn("main", <<"argc", "argv">>, Do(example_syscall("cred", "0", "0"), Ret("0")))

InExample(id, e) == TESLA_WITHIN(id, "example_syscall", e)
Checked == Returns("security_check", <<ANY, Var("o"), Var("op")>>, "0")
SmoketestAssertions == {
  InExample(1, previously(<<Checked>>)),
  InExample(2, previously(<<call("security_check", <<>>)>>)),
  InExample(3, previously(<<call("hold", <<Var("o")>>)>>)),
  InExample(4, previously(<<returnfrom("hold", <<Var("o")>>)>>)),
  InExample(5, eventually(<<call("release", <<Var("o")>>)>>)),
  InExample(6, previously(<<[op |-> "assign", field |-> "object.refcount", base |-> "o",
                             how |-> "+=", value |-> Const("1")]>>)),
  InExample(7, Or(previously(<<Checked>>),
                  eventually(<<Returns("log_audit_record", <<Var("o"), Var("op")>>, "0")>>))),
  TESLA_GLOBAL(8, call("example_syscall", <<>>), returnfrom("example_syscall", <<>>),
    TSEQUENCE(<<Returns("get_object", <<ANY, ANY>>, "0"), Checked,
                Or(Returns("some_helper", <<Var("op")>>, "0"),
                   call("never_actually_called", <<>>)),
                optional(call("void_helper", <<Var("o")>>)),
                TESLA_ASSERTION_SITE,
                returnfrom("release", <<Var("o")>>)>>)) }
CryptoAssertion ==
  InExample(9, previously(<<caller(Returns("DES_set_key",
                                           <<Var("key"), Var("schedule")>>, "0"))>>))

-----------------------------------------------------------------------------
(* openssl-api *)

\* libcrypto: 1 for success, 0 for failure, -1 for exceptional errors.
X509_verify_cert(ctx) == Fn("X509_verify_cert", <<ctx>>, AnyOf({"1", "0", "-1"}))

\* Reading the file fails, or the certificate, or neither does.
load_cert(cert) ==
  Fn("load_cert", <<"filename", cert, "error">>, AnyOf({"true", "false"}))
load_ca_cert(store) ==
  Fn("load_ca_cert", <<"ca", store, "error">>, AnyOf({"true", "false"}))

\* Making the context may fail; anything but 0 counts as success.
verify(cert, trusted) ==
  Fn("verify", <<cert, trusted, "error">>,
     Ret("false") \cup
     Then(X509_verify_cert("ctx"),
          LAMBDA result : Ret(IF result # "0" THEN "true" ELSE "false")))

use_cert(cert) == Fn("use_cert", <<cert>>, Do(Site(10, << >>), Ret(NoValue)))
cleanup(cert, store) == Fn("cleanup", <<cert, store>>, Ret(NoValue))

\* The certificate is used whatever happened before.
UseAnyway == Do(use_cert("cert"), Do(cleanup("cert", "ca_store"), Ret("0")))
openssl_api ==
  LET loaded == Then(load_cert("&cert"), LAMBDA ok :
                  IF ok = "true" THEN load_ca_cert("&ca_store") ELSE Ret("false"))
  IN Fn("main", <<"argc", "argv">>,
        Ret("1") \cup
        Do(Then(loaded, LAMBDA ok :
             IF ok = "true" THEN verify("cert", "ca_store") ELSE Ret("false")),
           UseAnyway))

OpensslAssertion ==
  TESLA_WITHIN(10, "main", previously(<<Returns("X509_verify_cert", <<ANY>>, "1")>>))

-----------------------------------------------------------------------------
(* audit.  cn_flags is a set of flags; the thread is being audited.         *)

audit_arg_upath1(td) == Fn("audit_arg_upath1", <<td, "dirfd", "upath">>, Ret(NoValue))

namei(cn_flags) ==
  Fn("namei", <<"ndp">>,
     Do(IF "AUDITVNODE1" \in cn_flags THEN audit_arg_upath1("td") ELSE Ret(NoValue),
        Ret("0")))

mac_vnode_check_write == Fn("mac_vnode_check_write", <<"cred", "fcred", "vp">>, Ret("0"))

vn_write == Fn("vn_write", <<"fp", "uio", "cred", "flags", "td">>,
               Do(Site(11, [td |-> "td"]), mac_vnode_check_write))

\* The flags that namei's caller asked for are replaced.
OpenFlags(fmode) ==
  IF "O_CREAT" \in fmode
  THEN {"ISOPEN", "LOCKPARENT", "LOCKLEAF", "AUDITVNODE1"}
         \cup IF fmode \cap {"O_EXCL", "O_NOFOLLOW"} = {} THEN {"FOLLOW"} ELSE {}
  ELSE {"ISOPEN", "LOCKLEAF"}
         \cup {IF "O_NOFOLLOW" \in fmode THEN "NOFOLLOW" ELSE "FOLLOW"}
         \cup IF "FWRITE" \in fmode THEN {} ELSE {"LOCKSHARED"}

\* helpers.c
vn_open_vnode == Fn("vn_open_vnode", <<"vp", "fmode", "cred", "td", "fp">>, Ret("0"))

\* namei always finds a vnode, so that no file is created: the caller of
\* mac_vnode_check_create is not reached.
vn_open_cred(fmode) ==
  Fn("vn_open_cred", <<"ndp", "flagp", "cmode", "0", "cred", "fp">>,
     Try(namei(OpenFlags(fmode)),
         IF {"O_CREAT", "O_EXCL"} \subseteq fmode THEN Ret("EEXIST") ELSE vn_open_vnode))
vn_open(fmode) == Fn("vn_open", <<"ndp", "flagp", "cmode", "fp">>, vn_open_cred(fmode))

kern_openat(fmode) ==
  Fn("kern_openat", <<"td", "fd", "path", "seg", "flags", "mode">>, vn_open(fmode))
kern_open(fmode) ==
  Fn("kern_open", <<"td", "path", "seg", "flags", "mode">>,
     Do(Site(12, [td |-> "td"]), kern_openat(fmode)))

\* abort neglects to ask namei for auditing.
syscall(s) ==
  Fn("syscall", <<s, "arg">>,
     IF s = "abort" THEN Try(namei({}), vn_write) ELSE kern_open({}))

audit_demo(there_is_a_fatal_error) ==
  Fn("main", <<"argc", "argv">>, syscall(IF there_is_a_fatal_error THEN "abort" ELSE "open"))

Audited == eventually(<<call("audit_arg_upath1", <<Var("td"), ANY, ANY>>)>>)
AuditAssertions == {TESLA_WITHIN(11, "syscall", Audited), TESLA_WITHIN(12, "syscall", Audited)}

-----------------------------------------------------------------------------
(* bench/instrcost: runs calls of a function that nothing happens in, n      *)
(* assertions in a function that is never called.                            *)

demo_fn == Fn("demo", <<>>, Ret(NoValue))
instrcost(runs) ==
  Fn("main", <<"argc", "argv">>,
     Do(FoldLeft(LAMBDA A, k : Do(A, demo_fn), Ret(NoValue), [k \in 1 .. runs |-> k]),
        Ret("0")))
InstrcostAssertions(n) ==
  {TESLA_WITHIN(13 + k, "demo", previously(<<Returns("foo", <<>>, "0")>>)) : k \in 1 .. n}

-----------------------------------------------------------------------------
(* gotofail.  The hash functions of mocks.c always succeed.  The structure  *)
(* signedParams is passed as one pointer to a copy, as on i386.             *)

HashSHA1Update(data) == Fn("HashSHA1Update", <<"hashCtx", data>>, Ret("0"))
HashSHA1Final == Fn("HashSHA1Final", <<"hashCtx", "hashOut">>, Ret("0"))
NullHash(fn) == Fn(fn, <<"hashCtx", "data">>, Ret("0"))

ReadyHash == Fn("ReadyHash", <<"ref", "state", "ctx">>, Ret("0"))
SSLFreeBuffer == Fn("SSLFreeBuffer", <<"buf", "ctx">>, Ret("0"))

MD5Hashed(rest) ==
  Try(ReadyHash,
  Try(NullHash("NullHashUpdate"), Try(NullHash("NullHashUpdate"),
  Try(NullHash("NullHashUpdate"), Try(NullHash("NullHashFinal"), rest)))))

\* After the second "goto fail" err is that of the last update: 0.  (twice is
\* TRUE in the demo; without the second one, the rest is reached.)
SHA1Hashed(rest, twice) ==
  Try(SSLFreeBuffer, Try(ReadyHash,
  Try(HashSHA1Update("clientRandom"), Try(HashSHA1Update("serverRandom"),
  Try(HashSHA1Update("signedParams"), IF twice THEN Ret("0") ELSE rest)))))

SSLVerifySignedServerKeyExchange(ctx, isRsa, params, twice) ==
  Fn("SSLVerifySignedServerKeyExchange", <<ctx, isRsa, params, "signature", "len">>,
     LET sha1 == SHA1Hashed(HashSHA1Final, twice)
     IN Then(IF isRsa = "true" THEN MD5Hashed(sha1) ELSE sha1,
             LAMBDA err : Do(SSLFreeBuffer, Do(SSLFreeBuffer, Ret(err)))))

\* Bytes from and the length - 1 after it, the first one the highest.
SSLDecodeInt(bytes, from, length) ==
  FoldLeft(LAMBDA val, b : val * 256 + b, 0, SubSeq(bytes, from, from + length - 1))

\* Eight bytes of parameters, the length of the signature, the signature.
SSLDecodeSignedServerKeyExchange(message, ctx, twice) ==
  Fn("SSLDecodeSignedServerKeyExchange", <<"message", ctx>>,
     IF Len(message) < 2 \/ 10 + SSLDecodeInt(message, 9, 2) # Len(message)
     THEN Ret("errSSLProtocol")
     ELSE SSLVerifySignedServerKeyExchange(ctx, "true", "&params", twice))
SetupSession(ctx, twice) ==
  Fn("SetupSession", <<ctx>>,
     SSLDecodeSignedServerKeyExchange(<<0, 2, 0, 0, 0, 0, 0, 0, 0, 0>>, ctx, twice))
DoSensitiveThings(ctx) ==
  Fn("DoSensitiveThings", <<ctx>>, Do(Site(13, [ctx |-> ctx]), Ret("0")))
SSLSession(twice) ==
  Fn("SSLSession", <<>>,
     Try(SetupSession("&ctx", twice), Try(DoSensitiveThings("&ctx"), Ret("0"))))
goto_fail(twice) == Fn("main", <<"argc", "argv">>, Do(SSLSession(twice), Ret("0")))

GotofailAssertion ==
  LET exchange == <<Var("ctx"), ANY, Var("signedParams"), ANY, ANY>>
  IN TESLA_WITHIN(13, "SSLSession", previously(<<[op |-> "block", stmts |-> <<
       [op |-> "declare", name |-> "signedParams"],
       call("SSLVerifySignedServerKeyExchange", exchange),
       Returns("HashSHA1Update", <<ANY, ANY>>, "0"),
       Returns("HashSHA1Final", <<ANY, ANY>>, "0"),
       Returns("SSLVerifySignedServerKeyExchange", exchange, "0")>>]>>))
=============================================================================
