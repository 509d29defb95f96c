---------------------------- MODULE MCTeslaDemo -----------------------------
EXTENDS TeslaDemo
F(params, void) == [params |-> params, void |-> void]
Protos ==
  [example_syscall |-> F(3, FALSE), security_check |-> F(3, FALSE), hold |-> F(1, TRUE),
   release |-> F(1, TRUE), log_audit_record |-> F(2, FALSE), get_object |-> F(2, FALSE),
   some_helper |-> F(1, FALSE), never_actually_called |-> F(0, TRUE),
   void_helper |-> F(1, TRUE), DES_set_key |-> F(2, FALSE), main |-> F(2, FALSE),
   X509_verify_cert |-> F(1, FALSE), syscall |-> F(2, FALSE),
   audit_arg_upath1 |-> F(3, TRUE), SSLSession |-> F(0, FALSE),
   SSLVerifySignedServerKeyExchange |-> F(5, FALSE),
   demo |-> F(0, TRUE), foo |-> F(0, FALSE), HashSHA1Update |-> F(2, FALSE), HashSHA1Final |-> F(2, FALSE)]
Demo(main, assertions, external) ==
  [main |-> main, assertions |-> assertions, external |-> external]
MCDemos ==
  {Demo(smoketest, SmoketestAssertions \cup {CryptoAssertion}, {"DES_set_key"}),
   Demo(openssl_api, {OpensslAssertion}, {"X509_verify_cert"}),
   Demo(audit_demo(TRUE) \cup audit_demo(FALSE), AuditAssertions, {}),
   Demo(instrcost(Runs), InstrcostAssertions(Runs), {}),
   Demo(goto_fail(TRUE) \cup goto_fail(FALSE), {GotofailAssertion}, {})}
Garbage == {{}, {0}}
=============================================================================
