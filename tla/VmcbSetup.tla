------------------------------- MODULE VmcbSetup -------------------------------
(***************************************************************************)
(* How vmx.c fills the save area of a VMCB: svm_config_init, then          *)
(* setup_guest_regs with vmsave_load_state and svm_dt_set.  Each field     *)
(* stands for where its value comes from.  Nothing keeps the thread on its *)
(* processor, and what is read from a processor is true of that one only.  *)
(* What svm_config_init leaves alone is what its caller's memory held.     *)
(***************************************************************************)
EXTENDS Naturals, FiniteSets

CONSTANT Cpus

VARIABLES
  phase,  \* "config", "copy", "msrs", "tables" or "ready"
  cpu,    \* the processor the thread runs on
  moved,  \* history: the thread was moved between vmsave_load_state and svm_dt_set
  conf,   \* struct svm_config
  save    \* vmcb->save

setupVars == <<phase, cpu, moved, conf, save>>

\* Sources of a value: a constant, the thread (its CR3, its user registers), nothing, the
\* zeroed page of the VMCB, or the processor it was read on.
Const == <<"const">>
Thread == <<"thread">>
Unset == <<"unset">>
Zero == <<"zero">>
Live(c) == <<"live", c>>

Segments == {"cs", "ds", "es", "ss", "fs", "gs", "tr"}
Parts == {"base", "limit", "selector", "attrib"}

\* The tables have a base and a limit; the rest are single values.
Fields == (Segments \X Parts) \union ({"gdtr", "idtr"} \X {"base", "limit"})
            \union {<<"rip">>, <<"rsp">>, <<"rflags">>, <<"cr3">>, <<"cr0_cr4_efer">>,
                    <<"kernel_gs_base">>, <<"syscall_msrs">>, <<"ldtr">>}

SetupInit ==
  /\ phase = "config" /\ cpu \in Cpus /\ moved = FALSE
  /\ conf = [f \in Fields |-> Unset] /\ save = [f \in Fields |-> Zero]

\* The user registers, the base of GS and the tables are left alone, and so is the flag
\* unusable of every segment, on which svm_segment_access_rights decides the attributes.
NotConfigured ==
  {<<"rip">>, <<"rsp">>, <<"rflags">>, <<"gs", "base">>, <<"kernel_gs_base">>, <<"syscall_msrs">>}
    \union (Segments \X {"attrib"}) \union ({"gdtr", "idtr"} \X {"base", "limit"})

svm_config_init ==
  /\ phase = "config" /\ phase' = "copy"
  /\ conf' = [f \in Fields |-> IF f \in NotConfigured THEN Unset
                               ELSE IF f = <<"cr3">> THEN Thread ELSE Const]
  /\ UNCHANGED <<cpu, moved, save>>

\* What setup_guest_regs copies: neither the selector of TR nor LDTR.
Copied == Fields \ {<<"tr", "selector">>, <<"ldtr">>, <<"kernel_gs_base">>, <<"syscall_msrs">>}

\* setup_guest_regs up to its two calls.
CopyConfig ==
  /\ phase = "copy" /\ phase' = "msrs"
  /\ save' = [f \in Fields |-> IF f \in Copied THEN conf[f] ELSE save[f]]
  /\ UNCHANGED <<cpu, moved, conf>>

\* A variant that saves the selectors only.
SelectorsOnly ==
  /\ phase = "msrs" /\ phase' = "tables"
  /\ save' = [f \in Fields |->
                IF f \in {<<"gs", "selector">>, <<"fs", "selector">>, <<"kernel_gs_base">>, <<"syscall_msrs">>}
                THEN Thread ELSE save[f]]
  /\ UNCHANGED <<cpu, moved, conf>>

\* FS and GS: base and selector; the limits and attributes stay as configured.  The base
\* of GS belongs to the processor, the others to the thread or to all processors.
vmsave_load_state ==
  /\ phase = "msrs" /\ phase' = "tables"
  /\ save' = [f \in Fields |->
                CASE f = <<"gs", "base">> -> Live(cpu)
                  [] f \in {<<"gs", "selector">>, <<"fs", "base">>, <<"fs", "selector">>,
                            <<"kernel_gs_base">>, <<"syscall_msrs">>} -> Thread
                  [] OTHER -> save[f]]
  /\ UNCHANGED <<cpu, moved, conf>>

\* The results of sgdt and sidt are inputs of the asm statement: the compiler may take the
\* structures for unset.  The base of the GDT is not read from them.
svm_dt_set ==
  /\ phase = "tables" /\ phase' = "ready"
  /\ \E limit, idt \in {Live(cpu), Unset} :
       save' = [save EXCEPT ![<<"gdtr", "base">>] = Live(cpu), ![<<"gdtr", "limit">>] = limit,
                            ![<<"idtr", "base">>] = idt, ![<<"idtr", "limit">>] = idt]
  /\ UNCHANGED <<cpu, moved, conf>>

\* The scheduler moves the thread.
Migrate ==
  /\ phase \in {"copy", "msrs", "tables"}
  /\ cpu' \in Cpus \ {cpu} /\ moved' = (moved \/ phase = "tables")
  /\ UNCHANGED <<phase, conf, save>>

Setup == svm_config_init \/ CopyConfig \/ vmsave_load_state \/ svm_dt_set

------------------------------------------------------------------------------
\* A guest starts with a base of GS and a GDT of two processors only if its thread was
\* moved between the two calls that read them: a move before does no harm.  What reaches
\* it as it lay in the caller's memory are exactly rip, rsp, rflags and the attributes,
\* and what the compiler may lose, the limit of the GDT and the IDT: the copies of the
\* other unset fields are overwritten.  LDTR and the selector of TR are never set.
VmcbWhole ==
  phase = "ready" =>
    /\ save[<<"gs", "base">>] # save[<<"gdtr", "base">>] => moved
    /\ {f \in Fields : save[f] = Unset} \
         {<<"gdtr", "limit">>, <<"idtr", "base">>, <<"idtr", "limit">>}
         = {<<"rip">>, <<"rsp">>, <<"rflags">>} \union (Segments \X {"attrib"})
    /\ {f \in Fields : save[f] = Zero} = {<<"ldtr">>, <<"tr", "selector">>}
===============================================================================
